--------------------------- MODULE JsonUtilsProofs ---------------------------
(***************************************************************************)
(* Proofs about JsonUtils and GenaiConfig for every set of members that    *)
(* are JSON, any number of them and every int: what the code finds in the  *)
(* text of a request, and of a configuration, is what was written there.   *)
(***************************************************************************)
EXTENDS GenaiConfig, Induction, SequenceTheorems, TLAPS

Texts == Seq(Symbols)

-----------------------------------------------------------------------------
(* Where a text stands in another *)

\* x stands in t after the first o symbols.
Stands(t, o, x) == o + Len(x) <= Len(t) /\ \A j \in 1..Len(x) : t[o + j] = x[j]

LEMMA StandsInConcat ==
  ASSUME NEW S, NEW x \in Seq(S), NEW y \in Seq(S)
  PROVE  x \o y \in Seq(S) /\ Len(x \o y) = Len(x) + Len(y)
         /\ Stands(x \o y, 0, x) /\ Stands(x \o y, Len(x), y)
<1>1. /\ x \o y \in Seq(S) /\ Len(x \o y) = Len(x) + Len(y)
      /\ \A i \in 1..(Len(x) + Len(y)) : (x \o y)[i] = IF i <= Len(x) THEN x[i] ELSE y[i - Len(x)]
  BY ConcatProperties
<1>2. Len(x) \in Nat /\ Len(y) \in Nat
  OBVIOUS
<1> DEFINE t == x \o y
<1> HIDE DEF t
<1>3. ASSUME NEW j \in 1..Len(x) PROVE t[0 + j] = x[j]
  BY <1>1, <1>2 DEF t
<1>4. ASSUME NEW j \in 1..Len(y) PROVE t[Len(x) + j] = y[j]
  <2>1. Len(x) + j \in 1..(Len(x) + Len(y)) /\ ~(Len(x) + j <= Len(x)) /\ (Len(x) + j) - Len(x) = j
    BY <1>2
  <2> QED
    BY <1>1, <2>1 DEF t
<1>5. t \in Seq(S) /\ Len(t) = Len(x) + Len(y)
  BY <1>1 DEF t
<1>6. Stands(t, 0, x) /\ Stands(t, Len(x), y)
  BY <1>2, <1>3, <1>4, <1>5 DEF Stands
<1> QED
  BY <1>5, <1>6 DEF t

LEMMA StandsWithin ==
  ASSUME NEW S, NEW t \in Seq(S), NEW x \in Seq(S), NEW y \in Seq(S),
         NEW o \in Nat, NEW q \in Nat, Stands(t, o, x), Stands(x, q, y)
  PROVE  Stands(t, o + q, y)
<1>1. Len(t) \in Nat /\ Len(x) \in Nat /\ Len(y) \in Nat
  OBVIOUS
<1>2. o + Len(x) <= Len(t) /\ q + Len(y) <= Len(x)
  BY DEF Stands
<1>3. ASSUME NEW j \in 1..Len(y) PROVE t[(o + q) + j] = y[j]
  <2>1. q + j \in 1..Len(x) /\ (o + q) + j = o + (q + j)
    BY <1>1, <1>2
  <2>2. t[o + (q + j)] = x[q + j] /\ x[q + j] = y[j]
    BY <2>1 DEF Stands
  <2> QED
    BY <2>1, <2>2
<1> QED
  BY <1>1, <1>2, <1>3 DEF Stands

\* Two texts in a row stand where each of them stands.
LEMMA StandsBoth ==
  ASSUME NEW S, NEW t \in Seq(S), NEW x \in Seq(S), NEW y \in Seq(S), NEW o \in Nat,
         Stands(t, o, x \o y)
  PROVE  Stands(t, o, x) /\ Stands(t, o + Len(x), y)
<1>1. x \o y \in Seq(S) /\ Stands(x \o y, 0, x) /\ Stands(x \o y, Len(x), y)
  BY StandsInConcat
<1>2. Len(x) \in Nat /\ 0 \in Nat /\ o + 0 = o
  OBVIOUS
<1>3. Stands(t, o + 0, x)
  <2> DEFINE z == x \o y
  <2>1. z \in Seq(S) /\ Stands(t, o, z) /\ Stands(z, 0, x)
    BY <1>1
  <2> HIDE DEF z
  <2> QED
    BY <1>2, <2>1, StandsWithin
<1>4. Stands(t, o + Len(x), y)
  <2> DEFINE z == x \o y
  <2>1. z \in Seq(S) /\ Stands(t, o, z) /\ Stands(z, Len(x), y)
    BY <1>1
  <2> HIDE DEF z
  <2> QED
    BY <1>2, <2>1, StandsWithin
<1> QED
  BY <1>2, <1>3, <1>4

\* F[n] is the concatenation of the first n of seqs.
Flattens(F, seqs, S) ==
  /\ F \in [0..Len(seqs) -> Seq(S)]
  /\ F[0] = << >>
  /\ \A n \in 1..Len(seqs) : F[n] = F[n - 1] \o seqs[n]

IsFlatten(f, seqs) ==
  f = [i \in 1..Len(seqs) |-> IF i = 1 THEN seqs[i] ELSE f[i - 1] \o seqs[i]]

LEMMA FlattenExists ==
  ASSUME NEW S, NEW seqs \in Seq(Seq(S))
  PROVE  \E f : IsFlatten(f, seqs)
<1> DEFINE N == Len(seqs)
           g == [x \in Nat \X Seq(S) |->
                   IF x[1] + 1 \in 1..N THEN x[2] \o seqs[x[1] + 1] ELSE x[2]]
<1>1. g \in [Nat \X Seq(S) -> Seq(S)]
  <2>1. ASSUME NEW x \in Nat \X Seq(S)
        PROVE  (IF x[1] + 1 \in 1..N THEN x[2] \o seqs[x[1] + 1] ELSE x[2]) \in Seq(S)
    <3>1. x[2] \in Seq(S)
      OBVIOUS
    <3>2. x[1] + 1 \in 1..N => seqs[x[1] + 1] \in Seq(S)
      OBVIOUS
    <3> QED
      BY <3>1, <3>2, ConcatProperties
  <2> QED
    BY <2>1
<1>2. << >> \in Seq(S)
  OBVIOUS
<1>3. PICK e : IsRecursion(e, Seq(S), << >>, g)
  <2> HIDE DEF g
  <2> QED
    BY <1>1, <1>2, NatRecursion
<1> DEFINE f == [i \in 1..N |-> e[i]]
<1>4. ASSUME NEW i \in 1..N PROVE e[i] = e[i - 1] \o seqs[i] /\ e[i - 1] \in Seq(S)
  <2>1. i - 1 \in Nat /\ (i - 1) + 1 = i
    OBVIOUS
  <2>2. e[i] = g[<<i - 1, e[i - 1]>>] /\ e[i - 1] \in Seq(S)
    BY <1>3, <2>1 DEF IsRecursion
  <2> QED
    BY <2>1, <2>2
<1>5. ASSUME NEW i \in 1..N
      PROVE  f[i] = IF i = 1 THEN seqs[i] ELSE f[i - 1] \o seqs[i]
  <2>1. CASE i = 1
    <3>1. e[0] = << >> /\ seqs[1] \in Seq(S)
      BY <1>3, <2>1 DEF IsRecursion
    <3>2. e[1] = << >> \o seqs[1]
      <4>1. 1 \in 1..N /\ 1 - 1 = 0
        BY <2>1
      <4> QED
        BY <1>4, <3>1, <4>1
    <3>3. << >> \o seqs[1] = seqs[1]
      BY <3>1, ConcatEmptySeq
    <3> QED
      BY <2>1, <3>2, <3>3
  <2>2. CASE i # 1
    <3>1. i - 1 \in 1..N
      BY <2>2
    <3> QED
      BY <1>4, <2>2, <3>1
  <2> QED
    BY <2>1, <2>2
<1>6. IsFlatten(f, seqs)
  BY <1>5 DEF IsFlatten
<1> QED
  BY <1>6

\* What FlattenSeq computes.
LEMMA Flattening ==
  ASSUME NEW S, NEW seqs \in Seq(Seq(S))
  PROVE  \E F : Flattens(F, seqs, S) /\ FlattenSeq(seqs) = F[Len(seqs)]
<1> DEFINE N == Len(seqs)
           f == CHOOSE f : IsFlatten(f, seqs)
           F == [n \in 0..N |-> IF n = 0 THEN << >> ELSE f[n]]
<1>1. IsFlatten(f, seqs)
  BY FlattenExists
<1>2. FlattenSeq(seqs) = IF N = 0 THEN seqs ELSE f[N]
  BY DEF FlattenSeq, IsFlatten
<1>3. \A i \in 1..N : f[i] = IF i = 1 THEN seqs[i] ELSE f[i - 1] \o seqs[i]
  <2>1. f = [i \in 1..Len(seqs) |-> IF i = 1 THEN seqs[i] ELSE f[i - 1] \o seqs[i]]
    BY <1>1 DEF IsFlatten
  <2> HIDE DEF f
  <2> QED
    BY <2>1
<1> HIDE DEF f
<1>4. ASSUME NEW n \in 1..N PROVE F[n] = F[n - 1] \o seqs[n]
  <2>1. seqs[n] \in Seq(S) /\ n \in 0..N /\ n - 1 \in 0..N
    OBVIOUS
  <2>2. CASE n = 1
    <3>1. f[n] = seqs[n] /\ n - 1 = 0
      BY <1>3, <2>2
    <3>2. << >> \o seqs[n] = seqs[n]
      BY <2>1, ConcatEmptySeq
    <3> QED
      BY <2>1, <2>2, <3>1, <3>2
  <2>3. CASE n # 1
    <3>1. f[n] = f[n - 1] \o seqs[n]
      BY ONLY <1>3, <2>3, n \in 1..N, Zenon
    <3>2. n # 0 /\ n - 1 # 0
      BY <2>3
    <3>3. F[n] = f[n] /\ F[n - 1] = f[n - 1]
      BY <2>1, <3>2
    <3> QED
      BY <3>1, <3>3
  <2> QED
    BY <2>2, <2>3
<1>5. F[0] = << >>
  OBVIOUS
<1>6. FlattenSeq(seqs) = F[N]
  <2>1. N = 0 => seqs = << >>
    OBVIOUS
  <2> QED
    BY <1>2, <2>1
<1>7. DOMAIN F = 0..N /\ F = [n \in 0..N |-> F[n]]
  OBVIOUS
<1> HIDE DEF F
<1> DEFINE Typed == {n \in Nat : n <= N => F[n] \in Seq(S)}
<1>8. 0 \in Typed
  <2>1. << >> \in Seq(S)
    OBVIOUS
  <2> QED
    BY <1>5, <2>1
<1>9. ASSUME NEW n \in Nat, n \in Typed PROVE n + 1 \in Typed
  <2>1. SUFFICES ASSUME n + 1 <= N PROVE F[n + 1] \in Seq(S)
    OBVIOUS
  <2>2. n + 1 \in 1..N /\ (n + 1) - 1 = n /\ F[n] \in Seq(S)
    BY <1>9, <2>1
  <2>3. F[n + 1] = F[n] \o seqs[n + 1] /\ seqs[n + 1] \in Seq(S)
    <3>1. F[n + 1] = F[(n + 1) - 1] \o seqs[n + 1]
      BY <1>4, <2>2
    <3>2. seqs[n + 1] \in Seq(S)
      BY <2>2
    <3> QED
      BY <2>2, <3>1, <3>2
  <2> QED
    BY <2>2, <2>3, ConcatProperties
<1>10. Nat \subseteq Typed
  <2> HIDE DEF Typed
  <2> QED
    BY <1>8, <1>9, NatInductionOnSet
<1>11. F \in [0..N -> Seq(S)]
  BY <1>7, <1>10
<1> QED
  BY <1>4, <1>5, <1>6, <1>11 DEF Flattens

\* Each of the sequences stands after those before it.
LEMMA FlattenStands ==
  ASSUME NEW S, NEW seqs \in Seq(Seq(S)), NEW F, Flattens(F, seqs, S), NEW i \in 1..Len(seqs)
  PROVE  /\ F[i] \in Seq(S) /\ F[i - 1] \in Seq(S) /\ F[Len(seqs)] \in Seq(S)
         /\ Len(F[i]) = Len(F[i - 1]) + Len(seqs[i])
         /\ Stands(F[Len(seqs)], Len(F[i - 1]), seqs[i])
<1> DEFINE N == Len(seqs)
           o == Len(F[i - 1])
<1>1. \A n \in 0..N : F[n] \in Seq(S)
  BY DEF Flattens
<1>2. \A n \in 1..N : F[n] = F[n - 1] \o seqs[n] /\ seqs[n] \in Seq(S)
  <2>1. \A n \in 1..N : F[n] = F[n - 1] \o seqs[n]
    BY DEF Flattens
  <2>2. \A n \in 1..N : seqs[n] \in Seq(S)
    OBVIOUS
  <2> QED
    BY <2>1, <2>2
<1>3. N \in Nat /\ i \in 0..N /\ i - 1 \in 0..N /\ N \in 0..N
  OBVIOUS
<1>4. F[i - 1] \in Seq(S) /\ o \in Nat /\ seqs[i] \in Seq(S)
  BY <1>1, <1>2, <1>3
<1>5. F[i] = F[i - 1] \o seqs[i]
  BY <1>2
<1> HIDE DEF o
<1>6. Len(F[i]) = o + Len(seqs[i]) /\ Stands(F[i], o, seqs[i])
  BY <1>4, <1>5, StandsInConcat DEF o
<1> DEFINE Kept == {n \in Nat : i <= n /\ n <= N => Stands(F[n], o, seqs[i])}
<1>7. 0 \in Kept
  OBVIOUS
<1>8. ASSUME NEW n \in Nat, n \in Kept PROVE n + 1 \in Kept
  <2>1. SUFFICES ASSUME i <= n + 1, n + 1 <= N PROVE Stands(F[n + 1], o, seqs[i])
    OBVIOUS
  <2>2. CASE i = n + 1
    BY <1>6, <2>2
  <2>3. CASE i <= n
    <3>1. n \in 0..N /\ n + 1 \in 1..N /\ (n + 1) - 1 = n /\ n + 1 \in 0..N
      BY <2>1
    <3>2. F[n + 1] = F[(n + 1) - 1] \o seqs[n + 1] /\ seqs[n + 1] \in Seq(S)
      BY <1>2, <3>1
    <3>3. F[n + 1] = F[n] \o seqs[n + 1]
      BY <3>1, <3>2
    <3>4. F[n] \in Seq(S) /\ F[n + 1] \in Seq(S)
      BY <1>1, <3>1
    <3>5. Stands(F[n + 1], 0, F[n])
      BY <3>2, <3>3, <3>4, StandsInConcat
    <3>6. Stands(F[n], o, seqs[i])
      BY <1>8, <2>1, <2>3
    <3>7. Stands(F[n + 1], 0 + o, seqs[i])
      BY <1>4, <3>4, <3>5, <3>6, StandsWithin
    <3> QED
      BY <1>4, <3>7
  <2> QED
    BY <2>1, <2>2, <2>3
<1>9. N \in Kept
  <2> HIDE DEF Kept
  <2> QED
    BY <1>3, <1>7, <1>8, NatInductionOnSet
<1>10. Stands(F[N], o, seqs[i])
  BY <1>9
<1> QED
  BY <1>1, <1>3, <1>6, <1>10 DEF o

-----------------------------------------------------------------------------
(* The characters *)

Escapable == {Quote, Backslash, Newline, Control}

LEMMA Characters ==
  /\ Quote \notin {Backslash, Comma, Open, Close, "[", "]", ":", Space, Newline, Control}
  /\ Backslash \notin {Comma, Open, Close, "[", "]", ":", Space, Newline, Control}
  /\ Newline \notin {Comma, Open, Close, "[", "]", ":", Space, Control}
  /\ Space \notin {Comma, Open, Close, "[", "]", ":", Control}
  /\ Comma \notin {Open, Close, "[", "]", ":"}
  /\ ":" \notin {Open, Close, "[", "]"}
  /\ "[" \notin {Open, Close, "]"}
<1>1. Quote \notin {Backslash, Comma, Open, Close, "[", "]", ":", Space, Newline, Control}
  BY Zenon DEF Quote, Backslash, Comma, Open, Close, Space, Newline, Control
<1>2. Backslash \notin {Comma, Open, Close, "[", "]", ":", Space, Newline, Control}
  BY Zenon DEF Backslash, Comma, Open, Close, Space, Newline, Control
<1>3. Newline \notin {Comma, Open, Close, "[", "]", ":", Space, Control}
  BY Zenon DEF Comma, Open, Close, Space, Newline, Control
<1>4. Space \notin {Comma, Open, Close, "[", "]", ":", Control}
  BY Zenon DEF Comma, Open, Close, Space, Control
<1>5. Comma \notin {Open, Close, "[", "]", ":"}
  BY Zenon DEF Comma, Open, Close
<1>6. ":" \notin {Open, Close, "[", "]"}
  BY Zenon DEF Open, Close
<1>7. "[" \notin {Open, Close, "]"}
  BY Zenon DEF Open, Close
<1> QED
  BY <1>1, <1>2, <1>3, <1>4, <1>5, <1>6, <1>7

\* None of them stands for a part of a number, or for a letter of an escape.
LEMMA Letters ==
  ASSUME NEW c \in {"0", "1", "8", "-", "+", ".", "e", "u", "n", "2", "5", "c", "a",
                    "true", "false", "null"}
  PROVE  c \notin {Quote, Backslash, Newline, Control, Space, Comma, Open, Close, "[", "]", ":"}
<1>1. c \notin {Quote, Backslash, Newline, Control, Space}
  BY Zenon DEF Quote, Backslash, Newline, Control, Space
<1>2. c \notin {Comma, Open, Close, "[", "]", ":"}
  BY Zenon DEF Comma, Open, Close
<1> QED
  BY <1>1, <1>2

LEMMA SymbolsHold ==
  /\ Special \subseteq Symbols /\ Digits \subseteq Symbols
  /\ Escapable \subseteq Symbols
  /\ {Comma, Open, Close, Space, "[", "]", ":"} \subseteq Symbols
  /\ {"-", "u", "n", "0", "2", "5", "c", "a", "1"} \subseteq Symbols
<1>1. Special \cup Digits \cup {Control, "-", "u", "n", "2", "5", "c", "a"} \subseteq Symbols
  BY MembersAssumption
<1> QED
  BY <1>1 DEF Special, Digits, Escapable

\* A key is none of the characters the code looks for.
LEMMA KeyIsPlain ==
  ASSUME NEW k \in Keys
  PROVE  /\ k \in Symbols
         /\ k \notin {Quote, Backslash, Newline, Control, Space, Comma, Open, Close, "[", "]", ":"}
  BY DEF Keys, Special

LEMMA TextConcat ==
  ASSUME NEW x \in Texts, NEW y \in Texts
  PROVE  x \o y \in Texts /\ Len(x \o y) = Len(x) + Len(y)
         /\ Stands(x \o y, 0, x) /\ Stands(x \o y, Len(x), y)
BY StandsInConcat DEF Texts

-----------------------------------------------------------------------------
(* How a string is written *)

LEMMA HexDigits ==
  ASSUME NEW c
  PROVE  Hex(c) \in {<<"0", "0", "2", "2">>, <<"0", "0", "5", "c">>,
                     <<"0", "0", "0", "a">>, <<"0", "0", "0", "1">>}
BY DEF Hex

\* x is c, or the escape that is written for it.
Spells(x, c) ==
  \/ c \notin Escapable /\ x = <<c>>
  \/ c \in Escapable \ {Control} /\ x = <<Backslash, Short[c]>> /\ ~unicode
  \/ c \in Escapable /\ x = <<Backslash, "u">> \o Hex(c) /\ (unicode \/ c = Control)

\* The symbols of an escape with a code point.
LEMMA LongEscape ==
  ASSUME NEW c, NEW x, x = <<Backslash, "u">> \o Hex(c)
  PROVE  /\ x \in Texts /\ Len(x) = 6 /\ Hex(c) \in Texts /\ Len(Hex(c)) = 4
         /\ x[1] = Backslash /\ x[2] = "u"
         /\ \A j \in 1..4 : x[j + 2] = Hex(c)[j] /\ Hex(c)[j] \in {"0", "1", "2", "5", "a", "c"}
<1> DEFINE h == Hex(c)
<1>1. h \in {<<"0", "0", "2", "2">>, <<"0", "0", "5", "c">>,
             <<"0", "0", "0", "a">>, <<"0", "0", "0", "1">>}
  BY HexDigits
<1> HIDE DEF h
<1>2. PICK a, b, e, f \in {"0", "1", "2", "5", "a", "c"} : h = <<a, b, e, f>>
  BY <1>1
<1>3. {Backslash, "u", a, b, e, f} \subseteq Symbols
  BY SymbolsHold DEF Escapable
<1> DEFINE p == <<Backslash, "u">>
<1>4. p \in Texts /\ Len(p) = 2 /\ p[1] = Backslash /\ p[2] = "u"
  BY <1>3 DEF Texts
<1>5. /\ h \in Texts /\ Len(h) = 4
      /\ \A j \in 1..4 : h[j] \in {"0", "1", "2", "5", "a", "c"}
  <2>1. h[1] = a /\ h[2] = b /\ h[3] = e /\ h[4] = f /\ Len(h) = 4 /\ h \in Texts
    BY <1>2, <1>3 DEF Texts
  <2>2. ASSUME NEW j \in 1..4 PROVE h[j] \in {"0", "1", "2", "5", "a", "c"}
    <3>1. j = 1 \/ j = 2 \/ j = 3 \/ j = 4
      OBVIOUS
    <3> QED
      BY <2>1, <3>1
  <2> QED
    BY <2>1, <2>2
<1>6. x = p \o h
  BY DEF h
<1> HIDE DEF p
<1>7. x \in Texts /\ Len(x) = 6 /\ Stands(x, 0, p) /\ Stands(x, 2, h)
  <2>1. p \in Texts /\ h \in Texts
    BY <1>4, <1>5
  <2>2. /\ p \o h \in Texts /\ Len(p \o h) = Len(p) + Len(h)
        /\ Stands(p \o h, 0, p) /\ Stands(p \o h, Len(p), h)
    BY <2>1, TextConcat
  <2>3. x \in Texts /\ Len(x) = Len(p) + Len(h) /\ Stands(x, 0, p) /\ Stands(x, Len(p), h)
    BY <1>6, <2>2
  <2>4. Len(p) = 2 /\ Len(h) = 4
    BY <1>4, <1>5
  <2> QED
    BY <2>3, <2>4
<1>8. x[1] = Backslash /\ x[2] = "u"
  <2>1. \A j \in 1..2 : x[0 + j] = p[j]
    BY <1>4, <1>7 DEF Stands
  <2>2. 0 + 1 = 1 /\ 0 + 2 = 2 /\ 1 \in 1..2 /\ 2 \in 1..2
    OBVIOUS
  <2> QED
    BY <1>4, <2>1, <2>2
<1>9. ASSUME NEW j \in 1..4 PROVE x[j + 2] = h[j]
  <2>1. j + 2 = 2 + j
    OBVIOUS
  <2>2. x[2 + j] = h[j]
    BY <1>5, <1>7 DEF Stands
  <2> QED
    BY <2>1, <2>2
<1> QED
  BY <1>5, <1>7, <1>8, <1>9 DEF h

LEMMA ShortEscape ==
  ASSUME NEW c \in Escapable \ {Control}, NEW x, x = <<Backslash, Short[c]>>
  PROVE  /\ x \in Texts /\ Len(x) = 2
         /\ x[1] = Backslash /\ x[2] = Short[c] /\ x[2] # "u" /\ Unescape(x[2]) = c
<1>1. Short[c] = IF c = Newline THEN "n" ELSE c
  BY DEF Short, Escapable
<1>2. "n" \notin {Quote, Backslash, Newline} /\ "u" \notin {Quote, Backslash, Newline}
  BY Letters
<1>3. Short[c] \in Symbols /\ Short[c] # "u" /\ Unescape(Short[c]) = c
  <2>1. c \in Symbols /\ "n" \in Symbols
    BY SymbolsHold
  <2>2. CASE c = Newline
    BY <1>1, <2>1, <2>2 DEF Unescape
  <2>3. CASE c # Newline
    BY <1>1, <1>2, <2>1, <2>3 DEF Unescape, Escapable
  <2> QED
    BY <2>2, <2>3
<1>4. Backslash \in Symbols
  BY SymbolsHold DEF Escapable
<1> QED
  BY <1>3, <1>4 DEF Texts

LEMMA SpelledSymbols ==
  ASSUME NEW c \in Symbols, NEW x, Spells(x, c)
  PROVE  x \in Texts /\ Len(x) \in {1, 2, 6}
<1>1. CASE x = <<c>>
  BY <1>1 DEF Texts
<1>2. CASE c \in Escapable \ {Control} /\ x = <<Backslash, Short[c]>>
  BY <1>2, ShortEscape
<1>3. CASE x = <<Backslash, "u">> \o Hex(c)
  BY <1>3, LongEscape
<1> QED
  BY <1>1, <1>2, <1>3 DEF Spells

\* What a client writes for s: one spelling after another.
LEMMA Spelling ==
  ASSUME NEW s \in Texts
  PROVE  \E x \in Seq(Texts) :
           /\ ClientEscape(s) = FlattenSeq(x) /\ Len(x) = Len(s)
           /\ \A i \in 1..Len(s) : Spells(x[i], s[i])
<1> DEFINE long == [i \in DOMAIN s |->
                      IF s[i] \in {Quote, Backslash, Newline, Control}
                      THEN <<Backslash, "u">> \o Hex(s[i]) ELSE <<s[i]>>]
           short == [i \in DOMAIN s |-> Escaped(s[i])]
           x == IF unicode THEN long ELSE short
<1>1. ClientEscape(s) = FlattenSeq(x)
  BY DEF ClientEscape, json_escape
<1>2. DOMAIN s = 1..Len(s) /\ Len(s) \in Nat
  BY DEF Texts
<1>3. ASSUME unicode, NEW i \in 1..Len(s) PROVE Spells(long[i], s[i])
  BY <1>2, <1>3 DEF Spells, Escapable
<1>4. ASSUME ~unicode, NEW c PROVE Spells(Escaped(c), c)
  <2>1. DOMAIN Short = {Quote, Backslash, Newline}
    BY DEF Short
  <2>2. Control \notin {Quote, Backslash, Newline}
    BY Characters
  <2>3. CASE c \in {Quote, Backslash, Newline}
    BY <1>4, <2>1, <2>2, <2>3 DEF Escaped, Spells, Escapable
  <2>4. CASE c = Control
    BY <2>1, <2>2, <2>4 DEF Escaped, Spells, Escapable
  <2>5. CASE c \notin {Quote, Backslash, Newline, Control}
    BY <2>1, <2>5 DEF Escaped, Spells, Escapable
  <2> QED
    BY <2>3, <2>4, <2>5
<1>5. ASSUME ~unicode, NEW i \in 1..Len(s) PROVE Spells(short[i], s[i])
  BY <1>2, <1>4, <1>5
<1>6. ASSUME NEW i \in 1..Len(s) PROVE Spells(x[i], s[i])
  BY <1>3, <1>5
<1>7. x = [i \in 1..Len(s) |-> x[i]]
  BY <1>2
<1> HIDE DEF x
<1>8. ASSUME NEW i \in 1..Len(s) PROVE x[i] \in Texts
  <2>1. s[i] \in Symbols
    BY DEF Texts
  <2> QED
    BY <1>6, <2>1, SpelledSymbols
<1>9. x \in Seq(Texts) /\ Len(x) = Len(s)
  BY <1>2, <1>7, <1>8
<1> QED
  BY <1>1, <1>6, <1>9

-----------------------------------------------------------------------------
(* How a string is read *)

\* What is read at p, R being what is read after it.
ReadAt(t, R, p) ==
  IF p > Len(t) THEN Unclosed
  ELSE IF t[p] = Quote THEN [closed |-> TRUE, chars |-> << >>]
  ELSE IF t[p] # Backslash THEN Then(<<t[p]>>, R[p + 1])
  ELSE IF p = Len(t) THEN Unclosed
  ELSE IF t[p + 1] # "u" THEN Then(<<Unescape(t[p + 1])>>, R[p + 2])
  ELSE IF p + 5 <= Len(t) THEN Then(<<CodePoint(SubSeq(t, p + 2, p + 5))>>, R[p + 6])
  ELSE R[p + 2]

IsRest(R, t) == R = [p \in 1..(Len(t) + 6) |-> ReadAt(t, R, p)]

LEMMA RestExists ==
  ASSUME NEW t \in Texts
  PROVE  \E R : IsRest(R, t)
<1> DEFINE N == Len(t) + 6
           U == Symbols \cup {Unescape(t[p + 1]) : p \in 1..Len(t)}
                        \cup {CodePoint(SubSeq(t, p + 2, p + 5)) : p \in 1..Len(t)}
           S == [closed : BOOLEAN, chars : Seq(U)]
           g == [x \in (1..N) \X [1..N -> S] |-> ReadAt(t, x[2], x[1])]
<1>1. N \in Nat /\ Len(t) \in Nat /\ \A p \in 1..Len(t) : t[p] \in Symbols
  BY DEF Texts
<1>2. Unclosed \in S
  BY DEF Unclosed
<1>3. ASSUME NEW c \in U, NEW r \in S PROVE Then(<<c>>, r) \in S
  <2>1. <<c>> \in Seq(U) /\ r.chars \in Seq(U) /\ r.closed \in BOOLEAN
    <3> HIDE DEF U
    <3> QED
      OBVIOUS
  <2>2. <<c>> \o r.chars \in Seq(U)
    <3> HIDE DEF U
    <3> QED
      BY <2>1, ConcatProperties
  <2> QED
    BY <2>1, <2>2 DEF Then
<1>4. [closed |-> TRUE, chars |-> << >>] \in S
  OBVIOUS
<1>5. ASSUME NEW p \in 1..Len(t)
      PROVE  t[p] \in U /\ Unescape(t[p + 1]) \in U /\ CodePoint(SubSeq(t, p + 2, p + 5)) \in U
  BY <1>1
<1> HIDE DEF U, S
<1>6. ASSUME NEW p \in 1..N, NEW R \in [1..N -> S] PROVE ReadAt(t, R, p) \in S
  <2>1. CASE p > Len(t)
    BY <1>2, <2>1 DEF ReadAt
  <2>2. CASE p <= Len(t)
    <3>1. p \in 1..Len(t) /\ p + 1 \in 1..N /\ p + 2 \in 1..N /\ p + 6 \in 1..N
      BY <1>1, <2>2
    <3>2. R[p + 1] \in S /\ R[p + 2] \in S /\ R[p + 6] \in S
      BY <3>1
    <3>3. /\ Then(<<t[p]>>, R[p + 1]) \in S
          /\ Then(<<Unescape(t[p + 1])>>, R[p + 2]) \in S
          /\ Then(<<CodePoint(SubSeq(t, p + 2, p + 5))>>, R[p + 6]) \in S
      BY <1>3, <1>5, <3>1, <3>2
    <3> QED
      BY <1>2, <1>4, <2>2, <3>2, <3>3 DEF ReadAt
  <2> QED
    BY <1>1, <2>1, <2>2
<1>7. g \in [(1..N) \X [1..N -> S] -> S]
  BY <1>6
<1>8. ASSUME NEW p \in 1..N, NEW f \in [1..N -> S], NEW h \in [1..N -> S],
             \A q \in (p + 1)..N : f[q] = h[q]
      PROVE  ReadAt(t, f, p) = ReadAt(t, h, p)
  <2>1. CASE p > Len(t)
    BY <2>1 DEF ReadAt
  <2>2. CASE p <= Len(t)
    <3>1. p + 1 \in (p + 1)..N /\ p + 2 \in (p + 1)..N /\ p + 6 \in (p + 1)..N
      BY <1>1, <2>2
    <3>2. f[p + 1] = h[p + 1] /\ f[p + 2] = h[p + 2] /\ f[p + 6] = h[p + 6]
      BY <1>8, <3>1
    <3> QED
      BY <3>2 DEF ReadAt
  <2> QED
    BY <1>1, <2>1, <2>2
<1>9. LooksAhead(g, N, S)
  BY <1>8 DEF LooksAhead
<1>10. PICK R : IsBackward(R, N, S, g)
  <2>1. N \in Nat
    BY <1>1
  <2> HIDE DEF g, N
  <2> QED
    BY <1>2, <1>7, <1>9, <2>1, BackwardRecursion
<1>11. R \in [1..N -> S] /\ \A p \in 1..N : R[p] = g[<<p, R>>]
  BY <1>10 DEF IsBackward
<1>12. \A p \in 1..N : R[p] = ReadAt(t, R, p)
  BY <1>11
<1>13. R = [p \in 1..N |-> ReadAt(t, R, p)]
  BY <1>11, <1>12
<1> QED
  BY <1>13 DEF IsRest

LEMMA RestAt ==
  ASSUME NEW t \in Texts, NEW p \in 1..(Len(t) + 6)
  PROVE  Rest(t)[p] = ReadAt(t, Rest(t), p)
<1> DEFINE R == CHOOSE R : IsRest(R, t)
<1>1. IsRest(R, t)
  BY RestExists
<1>2. Rest(t) = R
  BY DEF Rest, IsRest, ReadAt
<1> HIDE DEF R
<1>3. R = [q \in 1..(Len(t) + 6) |-> ReadAt(t, R, q)]
  BY <1>1 DEF IsRest
<1>4. R[p] = ReadAt(t, R, p)
  BY <1>3
<1> QED
  BY <1>2, <1>4

\* The code point of an escape is the character it was written for.
LEMMA CodePointOfHex ==
  ASSUME NEW c \in Escapable
  PROVE  CodePoint(Hex(c)) = c
<1>1. /\ Hex(Quote)[3] = "2"
      /\ Hex(Backslash)[3] = "5"
      /\ Hex(Newline)[3] = "0" /\ Hex(Newline)[4] = "a"
      /\ Hex(Control)[3] = "0" /\ Hex(Control)[4] = "1"
  <2>1. /\ Hex(Quote) = <<"0", "0", "2", "2">> /\ Hex(Backslash) = <<"0", "0", "5", "c">>
        /\ Hex(Newline) = <<"0", "0", "0", "a">> /\ Hex(Control) = <<"0", "0", "0", "1">>
    BY Characters, Zenon DEF Hex
  <2> QED
    BY <2>1
<1>2. ASSUME NEW d \in Escapable, Hex(d) = Hex(c) PROVE d = c
  <2>1. "2" # "5" /\ "2" # "0" /\ "5" # "0" /\ "a" # "1"
    OBVIOUS
  <2> QED
    BY <1>1, <1>2, <2>1 DEF Escapable
<1>3. c \in Escapable /\ Hex(c) = Hex(c)
  OBVIOUS
<1>4. CodePoint(Hex(c)) = CHOOSE d \in Escapable : Hex(d) = Hex(c)
  BY Zenon DEF CodePoint, Escapable
<1> HIDE DEF Escapable
<1> QED
  BY <1>2, <1>3, <1>4

\* A text that stands in another is a piece of it.
LEMMA PieceIs ==
  ASSUME NEW t \in Texts, NEW x \in Texts, NEW o \in Nat, Stands(t, o, x)
  PROVE  SubSeq(t, o + 1, o + Len(x)) = x
<1> DEFINE y == SubSeq(t, o + 1, o + Len(x))
<1>1. Len(x) \in Nat /\ Len(t) \in Nat /\ o + Len(x) <= Len(t)
  BY DEF Stands, Texts
<1>2. \A i \in (o + 1)..(o + Len(x)) : t[i] \in Symbols
  BY <1>1 DEF Texts
<1>3. o + 1 \in Int /\ o + Len(x) \in Int
  BY <1>1
<1>4. /\ y \in Seq(Symbols)
      /\ Len(y) = IF o + 1 <= o + Len(x) THEN (o + Len(x)) - (o + 1) + 1 ELSE 0
      /\ \A i \in 1..((o + Len(x)) - (o + 1) + 1) : y[i] = t[(o + 1) + i - 1]
  BY <1>2, <1>3, SubSeqProperties
<1> HIDE DEF y
<1>5. Len(y) = Len(x)
  BY <1>1, <1>4
<1>6. ASSUME NEW i \in 1..Len(x) PROVE y[i] = x[i]
  <2>1. i \in 1..((o + Len(x)) - (o + 1) + 1) /\ (o + 1) + i - 1 = o + i
    BY <1>1
  <2>2. y[i] = t[o + i]
    BY <1>4, <2>1
  <2> QED
    BY <2>2 DEF Stands
<1>7. y = x
  <2>1. x \in Seq(Symbols) /\ y \in Seq(Symbols)
    BY <1>4 DEF Texts
  <2> QED
    BY <1>5, <1>6, <2>1, SeqEqual
<1> QED
  BY <1>7 DEF y

\* From a spelling of c the character c is read, and then what follows.
LEMMA ReadsSpelling ==
  ASSUME NEW t \in Texts, NEW q \in Nat, NEW c \in Symbols, NEW x,
         Spells(x, c), Stands(t, q, x)
  PROVE  Rest(t)[q + 1] = Then(<<c>>, Rest(t)[q + Len(x) + 1])
<1> DEFINE R == Rest(t)
<1>1. Len(t) \in Nat /\ q + Len(x) <= Len(t)
  BY DEF Texts, Stands
<1>2. x \in Texts /\ Len(x) \in {1, 2, 6}
  BY SpelledSymbols
<1>3. q + 1 \in 1..(Len(t) + 6) /\ ~(q + 1 > Len(t))
  <2> DEFINE m == Len(t)
             l == Len(x)
  <2>1. m \in Nat /\ q + l <= m /\ l \in {1, 2, 6}
    BY <1>1, <1>2
  <2> HIDE DEF m, l
  <2>2. l \in Nat \ {0}
    BY <2>1
  <2>3. q + 1 \in 1..(m + 6) /\ ~(q + 1 > m)
    BY <2>1, <2>2
  <2> QED
    BY <2>3 DEF m
<1>4. R[q + 1] = ReadAt(t, R, q + 1)
  BY <1>3, RestAt
<1>5. \A j \in 1..Len(x) : t[q + j] = x[j]
  BY DEF Stands
<1>6. 1 \in 1..Len(x) /\ t[q + 1] = x[1]
  <2>1. 1 \in 1..Len(x)
    BY <1>2
  <2> QED
    BY <1>5, <2>1
<1>7. Quote # Backslash
  BY Characters
<1> HIDE DEF R
<1>8. CASE c \notin Escapable /\ x = <<c>>
  <2>1. x[1] = c /\ Len(x) = 1 /\ q + Len(x) + 1 = (q + 1) + 1
    BY <1>8
  <2>2. c # Quote /\ c # Backslash
    BY <1>8 DEF Escapable
  <2> QED
    BY <1>3, <1>4, <1>6, <2>1, <2>2 DEF ReadAt, R
<1>9. CASE c \in Escapable \ {Control} /\ x = <<Backslash, Short[c]>>
  <2>1. Len(x) = 2 /\ x[1] = Backslash /\ x[2] # "u" /\ Unescape(x[2]) = c
    BY <1>9, ShortEscape
  <2>2. t[(q + 1) + 1] = x[2]
    <3>1. 2 \in 1..Len(x) /\ q + 2 = (q + 1) + 1
      BY <2>1
    <3> QED
      BY <1>5, <3>1
  <2>3. q + 1 # Len(t) /\ q + Len(x) + 1 = (q + 1) + 2
    BY <1>1, <2>1
  <2> QED
    BY <1>3, <1>4, <1>6, <1>7, <2>1, <2>2, <2>3 DEF ReadAt, R
<1>10. CASE c \in Escapable /\ x = <<Backslash, "u">> \o Hex(c)
  <2>1. /\ Len(x) = 6 /\ x[1] = Backslash /\ x[2] = "u"
        /\ \A j \in 1..4 : x[j + 2] = Hex(c)[j]
    BY ZenonT(30), <1>10, LongEscape
  <2>2. t[(q + 1) + 1] = "u"
    <3>1. 2 \in 1..Len(x) /\ q + 2 = (q + 1) + 1
      BY <2>1
    <3> QED
      BY <1>5, <2>1, <3>1
  <2>3. Hex(c) \in Texts /\ Len(Hex(c)) = 4
    BY <1>10, LongEscape
  <2>4. Stands(t, q + 2, Hex(c))
    <3>1. ASSUME NEW j \in 1..4 PROVE t[(q + 2) + j] = Hex(c)[j]
      <4>1. j + 2 \in 1..Len(x) /\ q + (j + 2) = (q + 2) + j
        BY <2>1
      <4> QED
        BY <1>5, <2>1, <4>1
    <3>2. (q + 2) + 4 <= Len(t)
      BY <1>1, <2>1
    <3> QED
      BY <2>3, <3>1, <3>2 DEF Stands
  <2>5. SubSeq(t, (q + 1) + 2, (q + 1) + 5) = Hex(c)
    <3>1. q + 2 \in Nat /\ (q + 2) + 1 = (q + 1) + 2 /\ (q + 2) + 4 = (q + 1) + 5
      OBVIOUS
    <3>2. SubSeq(t, (q + 2) + 1, (q + 2) + Len(Hex(c))) = Hex(c)
      BY <2>3, <2>4, <3>1, PieceIs
    <3> QED
      BY <2>3, <3>1, <3>2
  <2>6. CodePoint(SubSeq(t, (q + 1) + 2, (q + 1) + 5)) = c
    BY <1>10, <2>5, CodePointOfHex
  <2>7. q + 1 # Len(t) /\ q + Len(x) + 1 = (q + 1) + 6 /\ (q + 1) + 5 <= Len(t)
    BY <1>1, <2>1
  <2> DEFINE point == CodePoint(SubSeq(t, (q + 1) + 2, (q + 1) + 5))
  <2>8. ReadAt(t, R, q + 1) = Then(<<point>>, R[(q + 1) + 6])
    <3> HIDE DEF point
    <3> QED
      BY <1>3, <1>6, <1>7, <2>1, <2>2, <2>7 DEF ReadAt, point
  <2> QED
    BY <1>4, <2>6, <2>7, <2>8 DEF R
<1> QED
  BY <1>8, <1>9, <1>10 DEF Spells

\* From q on t spells s: x[k] is written for s[k], and L[k] symbols for the
\* first k.
SpeltAt(t, q, s, x, L) ==
  /\ L \in [0..Len(s) -> Nat]
  /\ L[0] = 0 /\ L[Len(s)] = Len(ClientEscape(s))
  /\ \A k \in 1..Len(s) :
       /\ Spells(x[k], s[k]) /\ Stands(t, q + L[k - 1], x[k])
       /\ L[k] = L[k - 1] + Len(x[k])
       /\ L[k] <= L[Len(s)]

LEMMA Spelt ==
  ASSUME NEW s \in Texts
  PROVE  /\ ClientEscape(s) \in Texts
         /\ \A t \in Texts, q \in Nat :
              Stands(t, q, ClientEscape(s)) => \E x, L : SpeltAt(t, q, s, x, L)
<1> DEFINE e == ClientEscape(s)
           n == Len(s)
<1>1. PICK x \in Seq(Texts) : e = FlattenSeq(x) /\ Len(x) = n /\ \A i \in 1..n : Spells(x[i], s[i])
  BY Spelling
<1>2. PICK F : Flattens(F, x, Symbols) /\ FlattenSeq(x) = F[Len(x)]
  <2>1. x \in Seq(Seq(Symbols))
    BY DEF Texts
  <2> QED
    BY <2>1, Flattening
<1>3. e = F[n] /\ n \in Nat
  BY <1>1, <1>2 DEF Texts
<1>4. F \in [0..n -> Seq(Symbols)] /\ F[0] = << >>
  BY <1>1, <1>2 DEF Flattens
<1>5. e \in Texts
  BY <1>3, <1>4 DEF Texts
<1> DEFINE L == [k \in 0..n |-> Len(F[k])]
<1>6. L \in [0..n -> Nat] /\ L[0] = 0 /\ L[n] = Len(e)
  BY <1>3, <1>4
<1>7. ASSUME NEW t \in Texts, NEW q \in Nat, Stands(t, q, e)
      PROVE  \E y, M : SpeltAt(t, q, s, y, M)
  <2>1. ASSUME NEW k \in 1..n
        PROVE  /\ Stands(t, q + L[k - 1], x[k])
               /\ L[k] = L[k - 1] + Len(x[k]) /\ L[k] <= L[n]
    <3>1. x \in Seq(Seq(Symbols)) /\ k \in 1..Len(x)
      BY <1>1 DEF Texts
    <3>2. /\ F[k - 1] \in Seq(Symbols) /\ Len(F[k]) = Len(F[k - 1]) + Len(x[k])
          /\ Stands(F[Len(x)], Len(F[k - 1]), x[k])
      BY ZenonT(30), <1>2, <3>1, FlattenStands
    <3>3. L[k] = Len(F[k]) /\ L[k - 1] = Len(F[k - 1]) /\ L[k - 1] \in Nat
      <4>1. k \in 0..n /\ k - 1 \in 0..n
        BY <1>3
      <4> QED
        BY <1>6, <4>1
    <3>4. Stands(e, L[k - 1], x[k])
      BY <1>1, <1>3, <3>2, <3>3
    <3>5. x[k] \in Seq(Symbols) /\ e \in Seq(Symbols) /\ t \in Seq(Symbols)
      BY <1>5, <3>1 DEF Texts
    <3>6. Stands(t, q + L[k - 1], x[k])
      <4> HIDE DEF e, L
      <4> QED
        BY <1>7, <3>3, <3>4, <3>5, StandsWithin
    <3>7. L[k] <= L[n]
      <4>1. L[k - 1] + Len(x[k]) <= Len(e)
        BY <3>4 DEF Stands
      <4> QED
        BY <1>6, <3>2, <3>3, <4>1
    <3> QED
      BY <3>2, <3>3, <3>6, <3>7
  <2> HIDE DEF L, e
  <2>2. SpeltAt(t, q, s, x, L)
    BY <1>1, <1>6, <2>1 DEF SpeltAt, e
  <2> QED
    BY <2>2
<1> QED
  BY <1>5, <1>7

\* A string is read as the characters it was written for.
LEMMA ReadsString ==
  ASSUME NEW t \in Texts, NEW s \in Texts, NEW q \in Nat,
         Stands(t, q, ClientEscape(s)), At(t, q + Len(ClientEscape(s)) + 1, Quote)
  PROVE  Rest(t)[q + 1] = [closed |-> TRUE, chars |-> s]
<1> DEFINE R == Rest(t)
           n == Len(s)
<1>1. PICK x, L : SpeltAt(t, q, s, x, L)
  BY Spelt
<1>2. /\ L \in [0..n -> Nat] /\ L[0] = 0 /\ L[n] = Len(ClientEscape(s))
      /\ \A k \in 1..n : Spells(x[k], s[k]) /\ Stands(t, q + L[k - 1], x[k])
                         /\ L[k] = L[k - 1] + Len(x[k]) /\ L[k] <= L[n]
  BY <1>1 DEF SpeltAt
<1>3. n \in Nat /\ Len(t) \in Nat /\ L[n] \in Nat
  BY <1>2 DEF Texts
<1>4. q + L[n] + 1 <= Len(t) /\ t[q + L[n] + 1] = Quote
  BY <1>2 DEF At
<1> HIDE DEF R
<1> DEFINE Good(k) == R[q + L[k] + 1] = [closed |-> TRUE, chars |-> SubSeq(s, k + 1, n)]
<1>5. Good(n)
  <2>1. q + L[n] + 1 \in 1..(Len(t) + 6) /\ ~(q + L[n] + 1 > Len(t))
    BY <1>3, <1>4
  <2>2. R[q + L[n] + 1] = ReadAt(t, R, q + L[n] + 1)
    BY <2>1, RestAt DEF R
  <2>3. ReadAt(t, R, q + L[n] + 1) = [closed |-> TRUE, chars |-> << >>]
    BY <1>4, <2>1 DEF ReadAt
  <2>4. SubSeq(s, n + 1, n) = << >>
    <3>1. n + 1 \in Int /\ n \in Int /\ n < n + 1
      BY <1>3
    <3> QED
      BY <3>1, SubSeqEmpty
  <2> QED
    BY <2>2, <2>3, <2>4
<1>6. ASSUME NEW k \in 1..n, Good(k) PROVE Good(k - 1)
  <2> DEFINE o == q + L[k - 1]
             c == s[k]
             y == x[k]
  <2>1. Spells(y, c) /\ Stands(t, o, y) /\ L[k] = L[k - 1] + Len(y) /\ L[k] <= L[n]
    BY <1>2
  <2>2. c \in Symbols
    BY DEF Texts
  <2>3. L[k - 1] \in Nat /\ L[k] \in Nat
    <3>1. k - 1 \in 0..n /\ k \in 0..n
      BY <1>3
    <3> QED
      BY <1>2, <3>1
  <2> HIDE DEF c, y
  <2>4. Len(y) \in {1, 2, 6}
    BY <2>1, <2>2, SpelledSymbols
  <2>5. o \in Nat /\ o + Len(y) = q + L[k] /\ o + Len(y) < Len(t)
    <3>1. Len(y) \in Nat
      BY <2>4
    <3>2. L[k] <= L[n] /\ L[k] = L[k - 1] + Len(y)
      BY <2>1
    <3>3. q + L[n] + 1 <= Len(t)
      BY <1>4
    <3> DEFINE a == L[k - 1]
               b == L[k]
               m == Len(y)
    <3>4. a \in Nat /\ b \in Nat /\ m \in Nat /\ b = a + m /\ b <= L[n] /\ o = q + a
      BY <2>3, <3>1, <3>2
    <3> HIDE DEF a, b, m, o
    <3>5. o \in Nat /\ o + m = q + b /\ o + m < Len(t)
      BY <1>3, <3>3, <3>4
    <3> QED
      BY <3>5 DEF b, m
  <2> HIDE DEF o
  <2>6. R[o + 1] = Then(<<c>>, R[o + Len(y) + 1])
    BY <2>1, <2>2, <2>5, ReadsSpelling DEF R
  <2>7. R[o + 1] = Then(<<c>>, [closed |-> TRUE, chars |-> SubSeq(s, k + 1, n)])
    BY <1>6, <2>5, <2>6
  <2>8. SubSeq(s, k, n) = <<c>> \o SubSeq(s, k + 1, n)
    <3>1. s \in Seq(Symbols) /\ k \in 1..Len(s) /\ n \in k..Len(s)
      BY <1>3 DEF Texts
    <3> QED
      BY <3>1, SubSeqRecursiveFirst DEF c
  <2>9. R[o + 1] = [closed |-> TRUE, chars |-> SubSeq(s, k, n)]
    BY <2>7, <2>8 DEF Then
  <2>10. (k - 1) + 1 = k
    OBVIOUS
  <2> QED
    BY <2>9, <2>10 DEF o
<1> HIDE DEF Good
<1> DEFINE Read == {d \in Nat : d <= n => Good(n - d)}
<1>7. 0 \in Read
  BY <1>3, <1>5
<1>8. ASSUME NEW d \in Nat, d \in Read PROVE d + 1 \in Read
  <2>1. ASSUME d + 1 <= n PROVE Good(n - (d + 1))
    <3>1. n - d \in 1..n /\ (n - d) - 1 = n - (d + 1) /\ Good(n - d)
      BY <1>3, <1>8, <2>1
    <3> QED
      BY <1>6, <3>1
  <2> QED
    BY <2>1
<1>9. n \in Read
  <2> HIDE DEF Read
  <2> QED
    BY <1>3, <1>7, <1>8, NatInductionOnSet
<1>10. Good(0)
  BY <1>3, <1>9
<1>11. SubSeq(s, 0 + 1, n) = s
  BY SubSeqFull DEF Texts
<1>12. q + 0 + 1 = q + 1
  OBVIOUS
<1> QED
  BY <1>2, <1>10, <1>11, <1>12 DEF R, Good

-----------------------------------------------------------------------------
(* Where a string ends *)

EndAt(t, E, q) ==
  IF q > Len(t) THEN q
  ELSE IF t[q] = Quote THEN q + 1
  ELSE IF t[q] = Backslash THEN E[q + 2]
  ELSE E[q + 1]

IsEnds(E, t) == E = [q \in 1..(Len(t) + 2) |-> EndAt(t, E, q)]

LEMMA EndsExist ==
  ASSUME NEW t \in Texts
  PROVE  \E E : IsEnds(E, t)
<1> DEFINE N == Len(t) + 2
           g == [x \in (1..N) \X [1..N -> Nat] |-> EndAt(t, x[2], x[1])]
<1>1. N \in Nat /\ Len(t) \in Nat /\ 0 \in Nat
  BY DEF Texts
<1>2. ASSUME NEW q \in 1..N, NEW E \in [1..N -> Nat] PROVE EndAt(t, E, q) \in Nat
  <2>1. CASE q > Len(t)
    BY <2>1 DEF EndAt
  <2>2. CASE q <= Len(t)
    <3>1. q + 1 \in 1..N /\ q + 2 \in 1..N
      BY <1>1, <2>2
    <3>2. E[q + 1] \in Nat /\ E[q + 2] \in Nat
      BY <3>1
    <3> QED
      BY <2>2, <3>2 DEF EndAt
  <2> QED
    BY <1>1, <2>1, <2>2
<1>3. g \in [(1..N) \X [1..N -> Nat] -> Nat]
  BY <1>2
<1>4. ASSUME NEW q \in 1..N, NEW f \in [1..N -> Nat], NEW h \in [1..N -> Nat],
             \A p \in (q + 1)..N : f[p] = h[p]
      PROVE  EndAt(t, f, q) = EndAt(t, h, q)
  <2>1. CASE q > Len(t)
    BY <2>1 DEF EndAt
  <2>2. CASE q <= Len(t)
    <3>1. q + 1 \in (q + 1)..N /\ q + 2 \in (q + 1)..N
      BY <1>1, <2>2
    <3>2. f[q + 1] = h[q + 1] /\ f[q + 2] = h[q + 2]
      BY <1>4, <3>1
    <3> QED
      BY <3>2 DEF EndAt
  <2> QED
    BY <1>1, <2>1, <2>2
<1>5. LooksAhead(g, N, Nat)
  BY <1>4 DEF LooksAhead
<1>6. PICK E : IsBackward(E, N, Nat, g)
  <2>1. N \in Nat /\ 0 \in Nat
    BY <1>1
  <2> HIDE DEF g, N
  <2> QED
    BY <1>3, <1>5, <2>1, BackwardRecursion
<1>7. E \in [1..N -> Nat] /\ \A q \in 1..N : E[q] = g[<<q, E>>]
  BY <1>6 DEF IsBackward
<1>8. \A q \in 1..N : E[q] = EndAt(t, E, q)
  BY <1>7
<1>9. E = [q \in 1..N |-> EndAt(t, E, q)]
  BY <1>7, <1>8
<1> QED
  BY <1>9 DEF IsEnds

\* The end of a string is found from each of its symbols on.
LEMMA StringEndAt ==
  ASSUME NEW t \in Texts, NEW q \in 1..Len(t)
  PROVE  StringEnd(t, q) = IF t[q] = Quote THEN q + 1
                           ELSE IF t[q] = Backslash THEN StringEnd(t, q + 2)
                           ELSE StringEnd(t, q + 1)
<1> DEFINE E == CHOOSE E : IsEnds(E, t)
<1>1. IsEnds(E, t)
  BY EndsExist
<1>2. \A p : StringEnd(t, p) = E[p]
  BY DEF StringEnd, IsEnds, EndAt
<1> HIDE DEF E
<1>3. E = [p \in 1..(Len(t) + 2) |-> EndAt(t, E, p)]
  BY <1>1 DEF IsEnds
<1>4. q \in 1..(Len(t) + 2) /\ ~(q > Len(t))
  BY DEF Texts
<1>5. E[q] = EndAt(t, E, q)
  BY <1>3, <1>4
<1>6. EndAt(t, E, q) = IF t[q] = Quote THEN q + 1
                       ELSE IF t[q] = Backslash THEN E[q + 2] ELSE E[q + 1]
  BY <1>4 DEF EndAt
<1> QED
  BY <1>2, <1>5, <1>6

\* A spelling is passed over.
LEMMA PassesSpelling ==
  ASSUME NEW t \in Texts, NEW q \in Nat, NEW c \in Symbols, NEW x,
         Spells(x, c), Stands(t, q, x)
  PROVE  StringEnd(t, q + 1) = StringEnd(t, q + Len(x) + 1)
<1>1. Len(t) \in Nat /\ x \in Texts /\ Len(x) \in {1, 2, 6} /\ q + Len(x) <= Len(t)
  BY SpelledSymbols DEF Texts, Stands
<1>2. ASSUME NEW j \in 1..Len(x) PROVE q + j \in 1..Len(t) /\ t[q + j] = x[j]
  BY <1>1 DEF Stands
<1>3. Quote # Backslash
  BY Characters
<1>4. CASE c \notin Escapable /\ x = <<c>>
  <2>1. x[1] = c /\ Len(x) = 1 /\ c # Quote /\ c # Backslash
    BY <1>4 DEF Escapable
  <2>2. q + 1 \in 1..Len(t) /\ t[q + 1] = c
    BY <1>2, <2>1
  <2>3. StringEnd(t, q + 1) = StringEnd(t, (q + 1) + 1)
    BY <2>1, <2>2, StringEndAt
  <2> QED
    BY <2>1, <2>3
<1>5. CASE c \in Escapable \ {Control} /\ x = <<Backslash, Short[c]>>
  <2>1. Len(x) = 2 /\ x[1] = Backslash
    BY <1>5, ShortEscape
  <2>2. q + 1 \in 1..Len(t) /\ t[q + 1] = Backslash
    BY <1>2, <2>1
  <2>3. StringEnd(t, q + 1) = StringEnd(t, (q + 1) + 2)
    BY <1>3, <2>2, StringEndAt
  <2>4. (q + 1) + 2 = q + Len(x) + 1
    BY <2>1
  <2> QED
    BY <2>3, <2>4
<1>6. CASE c \in Escapable /\ x = <<Backslash, "u">> \o Hex(c)
  <2>1. /\ Len(x) = 6 /\ x[1] = Backslash
        /\ \A j \in 1..4 : x[j + 2] \in {"0", "1", "2", "5", "a", "c"}
    <3> DEFINE h == Hex(c)
    <3>1. /\ Len(x) = 6 /\ x[1] = Backslash
          /\ \A j \in 1..4 : x[j + 2] = h[j] /\ h[j] \in {"0", "1", "2", "5", "a", "c"}
      BY ZenonT(30), <1>6, LongEscape
    <3> HIDE DEF h
    <3> QED
      BY <3>1
  <2>2. q + 1 \in 1..Len(t) /\ t[q + 1] = Backslash
    BY <1>2, <2>1
  <2>3. StringEnd(t, q + 1) = StringEnd(t, (q + 1) + 2)
    BY <1>3, <2>2, StringEndAt
  <2>4. ASSUME NEW j \in 1..4 PROVE StringEnd(t, q + (j + 2)) = StringEnd(t, (q + (j + 2)) + 1)
    <3>1. j + 2 \in 1..Len(x)
      BY <2>1
    <3>2. q + (j + 2) \in 1..Len(t) /\ t[q + (j + 2)] = x[j + 2]
      BY <1>2, <3>1
    <3>3. x[j + 2] # Quote /\ x[j + 2] # Backslash
      BY <2>1, Letters
    <3> DEFINE p == q + (j + 2)
    <3>4. p \in 1..Len(t) /\ t[p] # Quote /\ t[p] # Backslash
      BY <3>2, <3>3
    <3> HIDE DEF p
    <3>5. StringEnd(t, p) = StringEnd(t, p + 1)
      BY <3>4, StringEndAt
    <3> QED
      BY <3>5 DEF p
  <2>5. /\ StringEnd(t, q + 3) = StringEnd(t, q + 4) /\ StringEnd(t, q + 4) = StringEnd(t, q + 5)
        /\ StringEnd(t, q + 5) = StringEnd(t, q + 6) /\ StringEnd(t, q + 6) = StringEnd(t, q + 7)
    <3>1. /\ q + (1 + 2) = q + 3 /\ (q + (1 + 2)) + 1 = q + 4
          /\ q + (2 + 2) = q + 4 /\ (q + (2 + 2)) + 1 = q + 5
          /\ q + (3 + 2) = q + 5 /\ (q + (3 + 2)) + 1 = q + 6
          /\ q + (4 + 2) = q + 6 /\ (q + (4 + 2)) + 1 = q + 7
          /\ 1 \in 1..4 /\ 2 \in 1..4 /\ 3 \in 1..4 /\ 4 \in 1..4
      OBVIOUS
    <3> QED
      BY <2>4, <3>1
  <2>6. (q + 1) + 2 = q + 3 /\ q + Len(x) + 1 = q + 7
    BY <2>1
  <2> QED
    BY <2>3, <2>5, <2>6
<1> QED
  BY <1>4, <1>5, <1>6 DEF Spells

\* A string ends after its closing quote, whatever it spells.
LEMMA EndsString ==
  ASSUME NEW t \in Texts, NEW s \in Texts, NEW q \in Nat,
         Stands(t, q, ClientEscape(s)), At(t, q + Len(ClientEscape(s)) + 1, Quote)
  PROVE  StringEnd(t, q + 1) = q + Len(ClientEscape(s)) + 2
<1> DEFINE n == Len(s)
           m == Len(ClientEscape(s))
<1>1. PICK x, L : SpeltAt(t, q, s, x, L)
  BY Spelt
<1>2. /\ L \in [0..n -> Nat] /\ L[0] = 0 /\ L[n] = m
      /\ \A k \in 1..n : Spells(x[k], s[k]) /\ Stands(t, q + L[k - 1], x[k])
                         /\ L[k] = L[k - 1] + Len(x[k])
  BY <1>1 DEF SpeltAt
<1>3. n \in Nat /\ Len(t) \in Nat /\ m \in Nat /\ n \in 0..n
  BY <1>2 DEF Texts
<1>4. q + m + 1 \in 1..Len(t) /\ t[q + m + 1] = Quote
  BY <1>3 DEF At
<1> HIDE DEF m
<1> DEFINE Same(k) == StringEnd(t, q + 1) = StringEnd(t, q + L[k] + 1)
<1>5. ASSUME NEW k \in 1..n, Same(k - 1) PROVE Same(k)
  <2> DEFINE o == q + L[k - 1]
             c == s[k]
             y == x[k]
  <2>1. Spells(y, c) /\ Stands(t, o, y) /\ L[k] = L[k - 1] + Len(y)
    BY <1>2
  <2>2. c \in Symbols
    BY DEF Texts
  <2>3. L[k - 1] \in Nat
    <3>1. k - 1 \in 0..n
      BY <1>3
    <3> QED
      BY <1>2, <3>1
  <2>4. y \in Texts
    <3> HIDE DEF c, y
    <3> QED
      BY <2>1, <2>2, SpelledSymbols
  <2>5. o \in Nat /\ Len(y) \in Nat
    BY <2>3, <2>4 DEF Texts
  <2>6. o + Len(y) = q + L[k]
    BY <2>1, <2>3, <2>5
  <2>7. StringEnd(t, o + 1) = StringEnd(t, o + Len(y) + 1)
    <3> HIDE DEF c, y, o
    <3> QED
      BY <2>1, <2>2, <2>5, PassesSpelling
  <2>8. StringEnd(t, o + 1) = StringEnd(t, q + L[k] + 1)
    BY <2>6, <2>7
  <2> QED
    BY <1>5, <2>8
<1>6. Same(0)
  <2>1. q + 0 + 1 = q + 1
    OBVIOUS
  <2> QED
    BY <1>2, <2>1
<1> HIDE DEF Same
<1> DEFINE Passed == {k \in Nat : k <= n => Same(k)}
<1>7. 0 \in Passed
  BY <1>6
<1>8. ASSUME NEW k \in Nat, k \in Passed PROVE k + 1 \in Passed
  <2>1. ASSUME k + 1 <= n PROVE Same(k + 1)
    <3>1. k + 1 \in 1..n /\ (k + 1) - 1 = k /\ Same(k)
      BY <1>3, <1>8, <2>1
    <3> QED
      BY <1>5, <3>1
  <2> QED
    BY <2>1
<1>9. n \in Passed
  <2> HIDE DEF Passed
  <2> QED
    BY <1>3, <1>7, <1>8, NatInductionOnSet
<1>10. StringEnd(t, q + 1) = StringEnd(t, q + m + 1)
  BY <1>2, <1>3, <1>9 DEF Same
<1>11. StringEnd(t, q + m + 1) = (q + m + 1) + 1
  BY <1>4, StringEndAt
<1> QED
  BY <1>3, <1>10, <1>11 DEF m

-----------------------------------------------------------------------------
(* Where the search for a key can stop *)

After == {Comma, Close, "]"}

\* A quote after k, unless it is one that closes a value, is at a place of P.
KeysAt(t, k, P) ==
  \A i \in 2..(Len(t) - 1) : t[i] = Quote /\ t[i - 1] = k /\ t[i + 1] \notin After => i \in P

\* When y follows x no such quote appears at the seam.
Seam(x, y, k) ==
  x # << >> /\ y # << >> =>
    /\ x[Len(x)] = Quote => y[1] \in After
    /\ y[1] = Quote => x[Len(x)] # k

LEMMA KeysConcat ==
  ASSUME NEW x \in Texts, NEW y \in Texts, NEW k, NEW P, NEW R, NEW S,
         KeysAt(x, k, P), KeysAt(y, k, R), Seam(x, y, k),
         \A p \in P : p \in S, \A p \in R : Len(x) + p \in S
  PROVE  KeysAt(x \o y, k, S)
<1> DEFINE t == x \o y
           m == Len(x)
<1>1. m \in Nat /\ Len(y) \in Nat
  BY DEF Texts
<1>2. t \in Texts /\ Len(t) = m + Len(y)
  BY TextConcat
<1>3. (\A j \in 1..m : t[j] = x[j]) /\ (\A j \in 1..Len(y) : t[m + j] = y[j])
  <2>1. Stands(t, 0, x) /\ Stands(t, m, y)
    BY TextConcat
  <2> HIDE DEF t, m
  <2>2. ASSUME NEW j \in 1..m PROVE t[j] = x[j]
    <3>1. 0 + j = j
      OBVIOUS
    <3> QED
      BY <2>1, <3>1 DEF Stands, m
  <2> QED
    BY <2>1, <2>2 DEF Stands
<1>4. x # << >> <=> m > 0
  BY DEF Texts
<1>5. y # << >> <=> Len(y) > 0
  BY DEF Texts
<1> HIDE DEF t
<1>6. ASSUME NEW i \in 2..(Len(t) - 1), t[i] = Quote, t[i - 1] = k, t[i + 1] \notin After
      PROVE  i \in S
  <2>1. CASE i < m
    <3>1. i \in 2..(m - 1) /\ i \in 1..m /\ i - 1 \in 1..m /\ i + 1 \in 1..m
      BY <1>1, <2>1
    <3>2. x[i] = Quote /\ x[i - 1] = k /\ x[i + 1] \notin After
      BY <1>3, <1>6, <3>1
    <3> QED
      BY <3>1, <3>2 DEF KeysAt
  <2>2. CASE i = m
    <3>1. 1 \in 1..Len(y) /\ m \in 1..m /\ m > 0 /\ Len(y) > 0
      BY <1>1, <1>2, <2>2
    <3>2. t[i] = x[m] /\ t[i + 1] = y[1]
      BY <1>3, <2>2, <3>1
    <3> QED
      BY <1>4, <1>5, <1>6, <3>1, <3>2 DEF Seam
  <2>3. CASE i = m + 1
    <3>1. 1 \in 1..Len(y) /\ m \in 1..m /\ m > 0 /\ Len(y) > 0 /\ i - 1 = m
      BY <1>1, <1>2, <2>3
    <3>2. t[i] = y[1] /\ t[i - 1] = x[m]
      BY <1>3, <2>3, <3>1
    <3> QED
      BY <1>4, <1>5, <1>6, <3>1, <3>2 DEF Seam
  <2>4. CASE i > m + 1
    <3> DEFINE j == i - m
    <3>1. /\ j \in 2..(Len(y) - 1) /\ j \in 1..Len(y) /\ j - 1 \in 1..Len(y)
          /\ j + 1 \in 1..Len(y) /\ m + j = i /\ m + (j - 1) = i - 1 /\ m + (j + 1) = i + 1
      BY <1>1, <1>2, <2>4
    <3> HIDE DEF j
    <3>2. t[m + j] = y[j] /\ t[m + (j - 1)] = y[j - 1] /\ t[m + (j + 1)] = y[j + 1]
      BY <1>3, <3>1
    <3>3. y[j] = Quote /\ y[j - 1] = k /\ y[j + 1] \notin After
      BY <1>6, <3>1, <3>2
    <3>4. j \in R
      BY <3>1, <3>3 DEF KeysAt
    <3> QED
      BY <3>1, <3>4
  <2> QED
    BY <1>1, <2>1, <2>2, <2>3, <2>4
<1> QED
  BY <1>6 DEF KeysAt, t

\* The parts of a list begin with the comma that ends the one before.
LEMMA KeysFlatten ==
  ASSUME NEW y \in Seq(Texts), NEW F, Flattens(F, y, Symbols), NEW k, NEW P, NEW R,
         \A j \in 1..Len(y) :
           /\ KeysAt(y[j], k, P[j]) /\ \A p \in P[j] : Len(F[j - 1]) + p \in R
           /\ j > 1 => y[j] # << >> /\ y[j][1] = Comma
  PROVE  KeysAt(F[Len(y)], k, R)
<1> DEFINE n == Len(y)
           Kept == {j \in Nat : j <= n => KeysAt(F[j], k, R)}
<1>1. n \in Nat /\ F \in [0..n -> Texts] /\ F[0] = << >>
      /\ \A j \in 1..n : F[j] = F[j - 1] \o y[j]
  <2>1. n \in Nat
    OBVIOUS
  <2>2. F \in [0..n -> Seq(Symbols)] /\ F[0] = << >> /\ \A j \in 1..n : F[j] = F[j - 1] \o y[j]
    BY DEF Flattens
  <2> QED
    BY <2>1, <2>2 DEF Texts
<1>2. 0 \in Kept
  <2>1. KeysAt(<< >>, k, R)
    BY DEF KeysAt
  <2> QED
    BY <1>1, <2>1
<1>3. ASSUME NEW i \in Nat, i \in Kept PROVE i + 1 \in Kept
  <2>1. SUFFICES ASSUME i + 1 <= n PROVE KeysAt(F[i + 1], k, R)
    OBVIOUS
  <2> DEFINE j == i + 1
  <2>2. j \in 1..n /\ j - 1 = i /\ i \in 0..n /\ KeysAt(F[i], k, R)
    BY <1>1, <1>3, <2>1
  <2> HIDE DEF j
  <2>3. y[j] \in Texts /\ F[i] \in Texts /\ F[j] = F[i] \o y[j]
    <3>1. y[j] \in Texts
      BY <2>2
    <3>2. F[i] \in Texts
      BY <1>1, <2>2
    <3>3. F[j] = F[j - 1] \o y[j]
      BY <1>1, <2>2
    <3> QED
      BY <2>2, <3>1, <3>2, <3>3
  <2>4. KeysAt(y[j], k, P[j]) /\ (\A p \in P[j] : Len(F[i]) + p \in R)
    BY <2>2
  <2>5. Seam(F[i], y[j], k)
    <3>1. CASE j = 1
      <4>1. F[i] = << >>
        BY <1>1, <2>2, <3>1
      <4> QED
        BY <4>1 DEF Seam
    <3>2. CASE j > 1
      <4>1. y[j][1] = Comma
        BY <2>2, <3>2
      <4> QED
        BY <4>1, Characters DEF Seam, After
    <3> QED
      BY <2>2, <3>1, <3>2
  <2>6. KeysAt(F[i] \o y[j], k, R)
    <3> DEFINE a == F[i]
               b == y[j]
               T == P[j]
    <3>1. /\ a \in Texts /\ b \in Texts /\ KeysAt(a, k, R) /\ KeysAt(b, k, T) /\ Seam(a, b, k)
          /\ (\A p \in R : p \in R) /\ \A p \in T : Len(a) + p \in R
      BY <2>2, <2>3, <2>4, <2>5
    <3> HIDE DEF a, b, T
    <3>2. KeysAt(a \o b, k, R)
      BY <3>1, KeysConcat
    <3> QED
      BY <3>2 DEF a, b
  <2> QED
    BY <2>3, <2>6 DEF j
<1>4. n \in Kept
  <2> HIDE DEF Kept
  <2> QED
    BY <1>1, <1>2, <1>3, NatInductionOnSet
<1> QED
  BY <1>1, <1>4

\* A quote inside a string is escaped.
Bare(x) == \E i \in 1..Len(x) : x[i] = Quote /\ (i = 1 \/ x[i - 1] # Backslash)

LEMMA SpellingNotBare ==
  ASSUME NEW c \in Symbols, NEW x, Spells(x, c)
  PROVE  x \in Texts /\ ~Bare(x)
<1>1. x \in Texts
  BY SpelledSymbols
<1>2. Quote # Backslash
  BY Characters
<1>3. CASE c \notin Escapable /\ x = <<c>>
  <2>1. Len(x) = 1 /\ x[1] = c /\ c # Quote
    BY <1>3 DEF Escapable
  <2> QED
    BY <1>1, <2>1 DEF Bare
<1>4. CASE c \in Escapable \ {Control} /\ x = <<Backslash, Short[c]>>
  <2>1. Len(x) = 2 /\ x[1] = Backslash
    BY <1>4, ShortEscape
  <2>2. ASSUME NEW i \in 1..2, x[i] = Quote PROVE i # 1 /\ x[i - 1] = Backslash
    <3>1. i = 1 \/ i = 2
      OBVIOUS
    <3> QED
      BY <1>2, <2>1, <2>2, <3>1
  <2> QED
    BY <1>1, <2>1, <2>2 DEF Bare
<1>5. CASE x = <<Backslash, "u">> \o Hex(c)
  <2> DEFINE h == Hex(c)
  <2>1. /\ Len(x) = 6 /\ x[1] = Backslash /\ x[2] = "u"
        /\ \A j \in 1..4 : x[j + 2] = h[j] /\ h[j] \in {"0", "1", "2", "5", "a", "c"}
    BY SMTT(30), <1>5, LongEscape
  <2> HIDE DEF h
  <2>2. \A d \in {"u", "0", "1", "2", "5", "a", "c"} : d # Quote
    BY Letters
  <2>3. ASSUME NEW i \in 1..6 PROVE x[i] # Quote
    <3>1. CASE i = 1
      BY <1>2, <2>1, <3>1
    <3>2. CASE i = 2
      BY <2>1, <2>2, <3>2
    <3>3. CASE i > 2
      <4>1. i - 2 \in 1..4 /\ (i - 2) + 2 = i
        BY <3>3
      <4>2. x[i] \in {"0", "1", "2", "5", "a", "c"}
        BY <2>1, <4>1
      <4> QED
        BY <2>2, <4>2
    <3> QED
      BY <3>1, <3>2, <3>3
  <2> QED
    BY <1>1, <2>1, <2>3 DEF Bare
<1> QED
  BY <1>1, <1>3, <1>4, <1>5 DEF Spells

LEMMA BareConcat ==
  ASSUME NEW x \in Texts, NEW y \in Texts, ~Bare(x), ~Bare(y)
  PROVE  x \o y \in Texts /\ ~Bare(x \o y)
<1> DEFINE t == x \o y
           m == Len(x)
<1>1. m \in Nat /\ Len(y) \in Nat
  BY DEF Texts
<1>2. t \in Texts /\ Len(t) = m + Len(y) /\ Stands(t, 0, x) /\ Stands(t, m, y)
  BY TextConcat
<1> HIDE DEF t
<1>3. ASSUME NEW i \in 1..Len(t), t[i] = Quote PROVE i # 1 /\ t[i - 1] = Backslash
  <2>1. CASE i <= m
    <3>1. i \in 1..m /\ 0 + i = i /\ 0 + (i - 1) = i - 1
      BY <1>1, <2>1
    <3>2. x[i] = Quote
      BY <1>2, <1>3, <3>1 DEF Stands
    <3>3. i # 1 /\ x[i - 1] = Backslash
      BY <3>1, <3>2 DEF Bare
    <3>4. i - 1 \in 1..m
      BY <3>1, <3>3
    <3>5. t[0 + (i - 1)] = x[i - 1]
      BY <1>2, <3>4 DEF Stands
    <3> QED
      BY <3>1, <3>3, <3>5
  <2>2. CASE i > m
    <3> DEFINE j == i - m
    <3>1. j \in 1..Len(y) /\ m + j = i /\ m + (j - 1) = i - 1
      BY <1>1, <1>2, <2>2
    <3> HIDE DEF j
    <3>2. y[j] = Quote
      BY <1>2, <1>3, <3>1 DEF Stands
    <3>3. j # 1 /\ y[j - 1] = Backslash
      BY <3>1, <3>2 DEF Bare
    <3>4. j - 1 \in 1..Len(y)
      BY <1>1, <3>1, <3>3
    <3>5. t[m + (j - 1)] = y[j - 1]
      BY <1>2, <3>4 DEF Stands
    <3> QED
      BY <1>1, <2>2, <3>1, <3>3, <3>4, <3>5
  <2> QED
    BY <1>1, <2>1, <2>2
<1> QED
  BY <1>2, <1>3 DEF Bare, t

LEMMA EscapeNotBare ==
  ASSUME NEW s \in Texts
  PROVE  ~Bare(ClientEscape(s))
<1>1. PICK x \in Seq(Texts) :
        /\ ClientEscape(s) = FlattenSeq(x) /\ Len(x) = Len(s)
        /\ \A i \in 1..Len(s) : Spells(x[i], s[i])
  BY Spelling
<1>2. PICK F : Flattens(F, x, Symbols) /\ FlattenSeq(x) = F[Len(x)]
  <2>1. x \in Seq(Seq(Symbols))
    BY DEF Texts
  <2> QED
    BY <2>1, Flattening
<1> DEFINE n == Len(x)
           Kept == {j \in Nat : j <= n => F[j] \in Texts /\ ~Bare(F[j])}
<1>3. n \in Nat /\ F[0] = << >> /\ \A j \in 1..n : F[j] = F[j - 1] \o x[j]
  BY <1>2 DEF Flattens
<1>4. 0 \in Kept
  <2>1. << >> \in Texts /\ ~Bare(<< >>)
    BY DEF Bare, Texts
  <2> QED
    BY <1>3, <2>1
<1>5. ASSUME NEW i \in Nat, i \in Kept PROVE i + 1 \in Kept
  <2>1. SUFFICES ASSUME i + 1 <= n PROVE F[i + 1] \in Texts /\ ~Bare(F[i + 1])
    OBVIOUS
  <2>2. i + 1 \in 1..n /\ (i + 1) - 1 = i /\ F[i] \in Texts /\ ~Bare(F[i])
    BY <1>3, <1>5, <2>1
  <2>3. F[i + 1] = F[(i + 1) - 1] \o x[i + 1]
    BY <1>3, <2>2
  <2>4. Spells(x[i + 1], s[i + 1]) /\ s[i + 1] \in Symbols
    BY <1>1, <2>2 DEF Texts
  <2> DEFINE a == F[i]
             b == x[i + 1]
             c == s[i + 1]
  <2>5. a \in Texts /\ ~Bare(a) /\ Spells(b, c) /\ c \in Symbols
    BY <2>2, <2>4
  <2> HIDE DEF a, b, c
  <2>6. b \in Texts /\ ~Bare(b)
    BY <2>5, SpellingNotBare
  <2>7. a \o b \in Texts /\ ~Bare(a \o b)
    BY <2>5, <2>6, BareConcat
  <2> QED
    BY <2>2, <2>3, <2>7 DEF a, b
<1>6. n \in Kept
  <2> HIDE DEF Kept
  <2> QED
    BY <1>3, <1>4, <1>5, NatInductionOnSet
<1> QED
  BY <1>1, <1>2, <1>3, <1>6

\* A string with its quotes.
LEMMA QuotedText ==
  ASSUME NEW s \in Texts
  PROVE  /\ Quoted(s) \in Texts /\ Len(Quoted(s)) = Len(ClientEscape(s)) + 2
         /\ ClientEscape(s) \in Texts
         /\ Quoted(s)[1] = Quote /\ Quoted(s)[Len(ClientEscape(s)) + 2] = Quote
         /\ Stands(Quoted(s), 1, ClientEscape(s))
<1> DEFINE e == ClientEscape(s)
           a == <<Quote>>
           b == a \o e
<1>1. e \in Texts /\ Len(e) \in Nat
  BY Spelt DEF Texts
<1>2. a \in Texts /\ Len(a) = 1 /\ a[1] = Quote
  <2>1. Quote \in Symbols
    BY SymbolsHold DEF Escapable
  <2> QED
    BY <2>1 DEF Texts
<1>3. Quoted(s) = b \o a
  BY DEF Quoted
<1> HIDE DEF e, a
<1>4. b \in Texts /\ Len(b) = 1 + Len(e) /\ Stands(b, 0, a) /\ Stands(b, 1, e)
  BY <1>1, <1>2, TextConcat
<1> HIDE DEF b
<1> DEFINE t == b \o a
<1>5. t \in Texts /\ Len(t) = (1 + Len(e)) + 1 /\ Stands(t, 0, b) /\ Stands(t, 1 + Len(e), a)
  <2>1. /\ t \in Texts /\ Len(t) = Len(b) + Len(a)
        /\ Stands(t, 0, b) /\ Stands(t, Len(b), a)
    BY <1>2, <1>4, TextConcat
  <2> HIDE DEF t
  <2> QED
    BY <1>2, <1>4, <2>1
<1> HIDE DEF t
<1>6. Stands(t, 0 + 0, a) /\ Stands(t, 0 + 1, e)
  <2>1. 0 \in Nat /\ 1 \in Nat
    OBVIOUS
  <2> QED
    BY <1>1, <1>2, <1>4, <1>5, <2>1, StandsWithin DEF Texts
<1>7. t[1] = Quote
  <2>1. 1 \in 1..Len(a) /\ (0 + 0) + 1 = 1
    BY <1>2
  <2> QED
    BY <1>2, <1>6, <2>1 DEF Stands
<1>8. t[Len(e) + 2] = Quote
  <2>1. 1 \in 1..Len(a) /\ (1 + Len(e)) + 1 = Len(e) + 2
    BY <1>1, <1>2
  <2> QED
    BY <1>2, <1>5, <2>1 DEF Stands
<1>9. Stands(t, 1, e) /\ Len(t) = Len(e) + 2
  BY <1>1, <1>5, <1>6
<1> QED
  BY <1>1, <1>3, <1>5, <1>7, <1>8, <1>9 DEF t, e

LEMMA QuotedKeys ==
  ASSUME NEW s \in Texts, NEW k, k # Quote, k # Backslash
  PROVE  KeysAt(Quoted(s), k, {})
<1> DEFINE e == ClientEscape(s)
           t == Quoted(s)
<1>1. /\ t \in Texts /\ Len(t) = Len(e) + 2 /\ e \in Texts /\ Len(e) \in Nat
      /\ Stands(t, 1, e)
  BY QuotedText DEF Texts
<1>2. ~Bare(e)
  BY EscapeNotBare
<1> HIDE DEF t, e
<1>3. ASSUME NEW i \in 2..(Len(t) - 1), t[i] = Quote PROVE t[i - 1] # k
  <2> DEFINE j == i - 1
  <2>1. j \in 1..Len(e) /\ 1 + j = i /\ 1 + (j - 1) = i - 1
    BY <1>1
  <2> HIDE DEF j
  <2>2. e[j] = Quote
    BY <1>1, <1>3, <2>1 DEF Stands
  <2>3. j # 1 /\ e[j - 1] = Backslash
    BY <1>2, <2>1, <2>2 DEF Bare
  <2>4. j - 1 \in 1..Len(e)
    BY <1>1, <2>1, <2>3
  <2>5. t[1 + (j - 1)] = e[j - 1]
    BY <1>1, <2>4 DEF Stands
  <2> QED
    BY <2>1, <2>3, <2>5
<1> QED
  BY <1>3 DEF KeysAt, t

-----------------------------------------------------------------------------
(* How an object is written *)

\* What is written before a value.
Label(name) == Quoted(<<name>>) \o Blank \o <<":">> \o Blank

\* The first symbol of a value after the label at offset 0.
Width == IF blank THEN 6 ELSE 4

LEMMA BlankText ==
  /\ Blank \in Texts
  /\ Blank = IF blank THEN <<Space>> ELSE << >>
BY SymbolsHold DEF Blank, Texts

\* One more symbol after three, four and five.
LEMMA AfterThree ==
  ASSUME NEW a \in Symbols, NEW b \in Symbols, NEW c \in Symbols, NEW d \in Symbols
  PROVE  <<a, b, c>> \o <<d>> = <<a, b, c, d>>
<1> DEFINE w == <<a, b, c>> \o <<d>>
<1>1. <<a, b, c>> \in Seq(Symbols) /\ <<d>> \in Seq(Symbols) /\ <<a, b, c, d>> \in Seq(Symbols)
  OBVIOUS
<1>2. Len(w) = 4 /\ Len(<<a, b, c, d>>) = 4 /\ \A i \in 1..4 : w[i] = <<a, b, c, d>>[i]
  OBVIOUS
<1>3. w \in Seq(Symbols)
  BY <1>1
<1> QED
  BY <1>1, <1>2, <1>3, SeqEqual

LEMMA AfterFour ==
  ASSUME NEW a \in Symbols, NEW b \in Symbols, NEW c \in Symbols, NEW d \in Symbols, NEW e \in Symbols
  PROVE  <<a, b, c, d>> \o <<e>> = <<a, b, c, d, e>>
<1> DEFINE w == <<a, b, c, d>> \o <<e>>
<1>1. <<a, b, c, d>> \in Seq(Symbols) /\ <<e>> \in Seq(Symbols) /\ <<a, b, c, d, e>> \in Seq(Symbols)
  OBVIOUS
<1>2. Len(w) = 5 /\ Len(<<a, b, c, d, e>>) = 5 /\ \A i \in 1..5 : w[i] = <<a, b, c, d, e>>[i]
  OBVIOUS
<1>3. w \in Seq(Symbols)
  BY <1>1
<1> QED
  BY <1>1, <1>2, <1>3, SeqEqual

LEMMA AfterFive ==
  ASSUME NEW a \in Symbols, NEW b \in Symbols, NEW c \in Symbols, NEW d \in Symbols, NEW e \in Symbols, NEW f \in Symbols
  PROVE  <<a, b, c, d, e>> \o <<f>> = <<a, b, c, d, e, f>>
<1> DEFINE w == <<a, b, c, d, e>> \o <<f>>
<1>1. <<a, b, c, d, e>> \in Seq(Symbols) /\ <<f>> \in Seq(Symbols) /\ <<a, b, c, d, e, f>> \in Seq(Symbols)
  OBVIOUS
<1>2. Len(w) = 6 /\ Len(<<a, b, c, d, e, f>>) = 6 /\ \A i \in 1..6 : w[i] = <<a, b, c, d, e, f>>[i]
  OBVIOUS
<1>3. w \in Seq(Symbols)
  BY <1>1
<1> QED
  BY <1>1, <1>2, <1>3, SeqEqual

\* The symbols of a label.
LEMMA LabelText ==
  ASSUME NEW name \in Keys
  PROVE  /\ Label(name) \in Texts /\ Len(Label(name)) = Width
         /\ Label(name) = IF blank THEN <<Quote, name, Quote, Space, ":", Space>>
                          ELSE <<Quote, name, Quote, ":">>
<1>1. ClientEscape(<<name>>) = <<name>>
  <2>1. name \in Symbols /\ name \notin Escapable
    BY KeyIsPlain DEF Escapable
  <2>2. <<name>> \in Texts /\ Len(<<name>>) = 1 /\ <<name>>[1] = name
    BY <2>1 DEF Texts
  <2>3. PICK x \in Seq(Texts) :
          /\ ClientEscape(<<name>>) = FlattenSeq(x) /\ Len(x) = Len(<<name>>)
          /\ \A i \in 1..Len(<<name>>) : Spells(x[i], <<name>>[i])
    BY <2>2, Spelling
  <2>4. Len(x) = 1 /\ Spells(x[1], name)
    BY <2>2, <2>3
  <2>5. x[1] = <<name>>
    BY <2>1, <2>4 DEF Spells
  <2>6. PICK F : Flattens(F, x, Symbols) /\ FlattenSeq(x) = F[Len(x)]
    <3>1. x \in Seq(Seq(Symbols))
      BY DEF Texts
    <3> QED
      BY <3>1, Flattening
  <2>7. F[1] = F[1 - 1] \o x[1] /\ F[0] = << >>
    BY <2>4, <2>6 DEF Flattens
  <2>8. << >> \o <<name>> = <<name>>
    BY <2>2, ConcatEmptySeq DEF Texts
  <2> QED
    BY <2>3, <2>4, <2>5, <2>6, <2>7, <2>8
<1>2. Quoted(<<name>>) = <<Quote, name, Quote>>
  <2>1. Quoted(<<name>>) = <<Quote>> \o <<name>> \o <<Quote>>
    BY <1>1 DEF Quoted
  <2> QED
    BY <2>1
<1> DEFINE q == Quote
           sp == Space
<1>3. q \in Symbols /\ sp \in Symbols /\ ":" \in Symbols /\ name \in Symbols
  BY KeyIsPlain, SymbolsHold DEF Escapable
<1>4. CASE blank
  <2>1. Label(name) = <<Quote, name, Quote>> \o <<Space>> \o <<":">> \o <<Space>>
    BY <1>2, <1>4 DEF Label, Blank
  <2>2. Label(name) = <<q, name, q, sp, ":", sp>>
    <3> HIDE DEF q, sp
    <3>1. <<q, name, q>> \o <<sp>> = <<q, name, q, sp>>
      BY <1>3, AfterThree
    <3>2. <<q, name, q, sp>> \o <<":">> = <<q, name, q, sp, ":">>
      BY <1>3, AfterFour
    <3>3. <<q, name, q, sp, ":">> \o <<sp>> = <<q, name, q, sp, ":", sp>>
      BY <1>3, AfterFive
    <3>4. Label(name) = <<q, name, q>> \o <<sp>> \o <<":">> \o <<sp>>
      BY <2>1 DEF q, sp
    <3> QED
      BY <3>1, <3>2, <3>3, <3>4
  <2> QED
    BY <1>4, <2>2, KeyIsPlain, SymbolsHold DEF Width, Texts, Escapable
<1>5. CASE ~blank
  <2>1. Label(name) = <<Quote, name, Quote>> \o << >> \o <<":">> \o << >>
    BY <1>2, <1>5 DEF Label, Blank
  <2>2. Label(name) = <<q, name, q, ":">>
    <3> HIDE DEF q
    <3>1. <<q, name, q>> \o << >> = <<q, name, q>>
      BY <1>3, ConcatEmptySeq
    <3>2. <<q, name, q>> \o <<":">> = <<q, name, q, ":">>
      BY <1>3, AfterThree
    <3>3. <<q, name, q, ":">> \o << >> = <<q, name, q, ":">>
      BY <1>3, ConcatEmptySeq
    <3>4. Label(name) = <<q, name, q>> \o << >> \o <<":">> \o << >>
      BY <2>1 DEF q
    <3> QED
      BY <3>1, <3>2, <3>3, <3>4
  <2> QED
    BY <1>5, <2>2, KeyIsPlain, SymbolsHold DEF Width, Texts, Escapable
<1> QED
  BY <1>4, <1>5

LEMMA LabelKeys ==
  ASSUME NEW name \in Keys, NEW k \in Keys
  PROVE  KeysAt(Label(name), k, IF name = k THEN {3} ELSE {})
<1> DEFINE t == Label(name)
<1>1. k # Quote /\ k # Space /\ k # ":" /\ name # Quote /\ Quote # Space /\ Quote # ":"
  BY KeyIsPlain, Characters
<1>2. CASE blank
  <2>1. t = <<Quote, name, Quote, Space, ":", Space>>
    BY <1>2, LabelText
  <2>2. Len(t) = 6 /\ t[1] = Quote /\ t[2] = name /\ t[4] = Space /\ t[5] = ":"
    BY <2>1
  <2> HIDE DEF t
  <2>3. ASSUME NEW i \in 2..5, t[i] = Quote, t[i - 1] = k PROVE i = 3 /\ name = k
    <3>1. i = 2 \/ i = 3 \/ i = 4 \/ i = 5
      OBVIOUS
    <3>2. i # 2 /\ i # 4 /\ i # 5
      BY <1>1, <2>2, <2>3
    <3>3. i - 1 = 2
      BY <3>1, <3>2
    <3> QED
      BY <2>2, <2>3, <3>1, <3>2, <3>3
  <2> QED
    BY <2>2, <2>3 DEF KeysAt, t
<1>3. CASE ~blank
  <2>1. t = <<Quote, name, Quote, ":">>
    BY <1>3, LabelText
  <2>2. Len(t) = 4 /\ t[1] = Quote /\ t[2] = name /\ t[4] = ":"
    BY <2>1
  <2> HIDE DEF t
  <2>3. ASSUME NEW i \in 2..3, t[i] = Quote, t[i - 1] = k PROVE i = 3 /\ name = k
    <3>1. i = 2 \/ i = 3
      OBVIOUS
    <3>2. i # 2
      BY <1>1, <2>2, <2>3
    <3>3. i - 1 = 2
      BY <3>1, <3>2
    <3> QED
      BY <2>2, <2>3, <3>1, <3>2, <3>3
  <2> QED
    BY <2>2, <2>3 DEF KeysAt, t
<1> QED
  BY <1>2, <1>3

\* The parts of a list stand in its text at the offsets O, a comma after each
\* but the last, and no key is found between them.
IsSeparated(t, parts, O) ==
  /\ t \in Texts /\ O \in [1..Len(parts) -> Nat]
  /\ \A i \in 1..Len(parts) :
       /\ Stands(t, O[i], parts[i])
       /\ i < Len(parts) => At(t, O[i] + Len(parts[i]) + 1, Comma)
       /\ i = Len(parts) => O[i] + Len(parts[i]) = Len(t)
  /\ \A k \in Keys : \A P, R :
       (\A i \in 1..Len(parts) : KeysAt(parts[i], k, P[i]) /\ \A p \in P[i] : p \in Nat /\ O[i] + p \in R)
          => KeysAt(t, k, R)

\* What is written between two parts.
Lead == <<Comma>> \o Blank

\* The parts follow each other in t from the offset o on, one Lead apart.
Row(t, o, parts, O) ==
  /\ O \in [1..Len(parts) -> Nat] /\ (Len(parts) > 0 => O[1] = o)
  /\ \A i \in 1..Len(parts) :
       /\ Stands(t, O[i], parts[i])
       /\ i < Len(parts) => /\ O[i + 1] = O[i] + Len(parts[i]) + Len(Lead)
                            /\ Stands(t, O[i] + Len(parts[i]), Lead)

\* Where the last of them ends.
RowEnd(o, parts, O) == IF Len(parts) = 0 THEN o ELSE O[Len(parts)] + Len(parts[Len(parts)])

LEMMA Separator ==
  LET lead == <<Comma>> \o Blank
  IN  /\ lead \in Texts /\ Len(lead) \in Nat \ {0} /\ lead[1] = Comma
      /\ \A j \in 1..Len(lead) : lead[j] \in {Comma, Space}
<1> DEFINE lead == <<Comma>> \o Blank
<1>1. Comma \in Symbols /\ Space \in Symbols
  BY SymbolsHold
<1>2. CASE blank
  <2>1. lead = <<Comma>> \o <<Space>>
    BY <1>2 DEF Blank
  <2>2. lead \in Texts /\ Len(lead) = 2 /\ lead[1] = Comma /\ lead[2] = Space
    <3> DEFINE a == Comma
               b == Space
    <3>1. a \in Symbols /\ b \in Symbols
      BY <1>1
    <3> HIDE DEF a, b
    <3>2. <<a>> \o <<b>> \in Seq(Symbols) /\ Len(<<a>> \o <<b>>) = 2
          /\ (<<a>> \o <<b>>)[1] = a /\ (<<a>> \o <<b>>)[2] = b
      BY <3>1
    <3> QED
      BY <2>1, <3>2 DEF a, b, Texts
  <2> HIDE DEF lead
  <2>3. \A j \in 1..Len(lead) : lead[j] \in {Comma, Space}
    <3>1. \A j \in 1..2 : j = 1 \/ j = 2
      OBVIOUS
    <3> QED
      BY <2>2, <3>1
  <2> QED
    BY <2>2, <2>3 DEF lead
<1>3. CASE ~blank
  <2>1. lead = <<Comma>> \o << >>
    BY <1>3 DEF Blank
  <2>2. lead = <<Comma>>
    BY <1>1, <2>1, ConcatEmptySeq
  <2> HIDE DEF lead
  <2>3. lead \in Texts /\ Len(lead) = 1 /\ lead[1] = Comma
    BY <1>1, <2>2 DEF Texts
  <2> QED
    BY <2>3 DEF lead
<1> QED
  BY <1>2, <1>3

LEMMA SeparatedText ==
  ASSUME NEW parts \in Seq(Texts)
  PROVE  \E O : /\ IsSeparated(Separated(parts), parts, O)
               /\ Row(Separated(parts), 0, parts, O)
               /\ RowEnd(0, parts, O) = Len(Separated(parts))
<1> DEFINE n == Len(parts)
           lead == <<Comma>> \o Blank
           y == [i \in DOMAIN parts |-> IF i = 1 THEN parts[i] ELSE <<Comma>> \o Blank \o parts[i]]
           t == Separated(parts)
<1>1. /\ lead \in Texts /\ Len(lead) \in Nat \ {0} /\ lead[1] = Comma
      /\ \A j \in 1..Len(lead) : lead[j] \in {Comma, Space}
  BY Separator
<1>2. n \in Nat /\ DOMAIN parts = 1..n /\ \A i \in 1..n : parts[i] \in Texts
  OBVIOUS
<1>3. t = FlattenSeq(y)
  BY DEF Separated
<1>4. \A i \in 1..n : y[i] = IF i = 1 THEN parts[i] ELSE lead \o parts[i]
  BY <1>2
<1>5. y = [i \in 1..n |-> y[i]]
  BY <1>2
<1>0. lead = Lead
  BY DEF Lead
<1> HIDE DEF y, lead, t
<1>6. ASSUME NEW i \in 1..n
      PROVE  LET w == IF i = 1 THEN 0 ELSE Len(lead)
             IN  /\ y[i] \in Texts /\ w \in Nat /\ Len(y[i]) = w + Len(parts[i])
                 /\ Stands(y[i], w, parts[i])
                 /\ i > 1 => y[i] # << >> /\ y[i][1] = Comma
  <2> DEFINE a == parts[i]
  <2>1. a \in Texts /\ Len(a) \in Nat
    BY <1>2 DEF Texts
  <2> HIDE DEF a
  <2>2. CASE i = 1
    <3>1. y[i] = a
      BY <1>4, <2>2 DEF a
    <3>2. Stands(a, 0, a)
      BY <2>1 DEF Stands
    <3> QED
      BY <2>1, <2>2, <3>1, <3>2 DEF a
  <2>3. CASE i # 1
    <3>1. y[i] = lead \o a
      BY <1>4, <2>3 DEF a
    <3>2. /\ lead \o a \in Texts /\ Len(lead \o a) = Len(lead) + Len(a)
          /\ Stands(lead \o a, 0, lead) /\ Stands(lead \o a, Len(lead), a)
      BY <1>1, <2>1, TextConcat
    <3>3. y[i] # << >> /\ y[i][1] = Comma
      <4>1. y[i] \in Texts /\ Len(y[i]) > 0 /\ Stands(y[i], 0, lead)
        BY <1>1, <2>1, <3>1, <3>2
      <4>2. 1 \in 1..Len(lead) /\ 0 + 1 = 1
        BY <1>1
      <4>3. y[i][1] = lead[1]
        BY <4>1, <4>2 DEF Stands
      <4> QED
        BY <1>1, <4>1, <4>3
    <3> QED
      BY <1>1, <2>1, <2>3, <3>1, <3>2, <3>3 DEF a
  <2> QED
    BY <2>2, <2>3
<1>7. y \in Seq(Texts) /\ Len(y) = n
  BY <1>2, <1>5, <1>6
<1>8. PICK F : Flattens(F, y, Symbols) /\ FlattenSeq(y) = F[n]
  <2>1. y \in Seq(Seq(Symbols))
    BY <1>7 DEF Texts
  <2> QED
    BY <1>7, <2>1, Flattening
<1>9. /\ F \in [0..n -> Texts] /\ t = F[n] /\ t \in Texts
  <2>1. F \in [0..n -> Seq(Symbols)]
    BY <1>7, <1>8 DEF Flattens
  <2> QED
    BY <1>2, <1>3, <1>8, <2>1 DEF Texts
<1> DEFINE O == [i \in 1..n |-> Len(F[i - 1]) + (IF i = 1 THEN 0 ELSE Len(lead))]
<1>10. ASSUME NEW i \in 1..n
       PROVE  /\ F[i - 1] \in Texts /\ F[i] \in Texts
              /\ Len(F[i]) = Len(F[i - 1]) + Len(y[i]) /\ Stands(t, Len(F[i - 1]), y[i])
  <2>1. i \in 1..Len(y) /\ y \in Seq(Seq(Symbols))
    BY <1>7 DEF Texts
  <2>2. /\ F[i] \in Seq(Symbols) /\ F[i - 1] \in Seq(Symbols)
        /\ Len(F[i]) = Len(F[i - 1]) + Len(y[i]) /\ Stands(F[Len(y)], Len(F[i - 1]), y[i])
    BY ZenonT(60), <1>8, <2>1, FlattenStands
  <2> QED
    BY <1>7, <1>9, <2>2 DEF Texts
<1>11. ASSUME NEW i \in 1..n
       PROVE  /\ O[i] \in Nat /\ Stands(t, O[i], parts[i])
              /\ O[i] + Len(parts[i]) = Len(F[i])
  <2> DEFINE w == IF i = 1 THEN 0 ELSE Len(lead)
             f == Len(F[i - 1])
             a == parts[i]
             b == y[i]
  <2>1. O[i] = f + w
    OBVIOUS
  <2>2. /\ b \in Texts /\ w \in Nat /\ Len(b) = w + Len(a) /\ Stands(b, w, a)
    BY <1>6
  <2>3. f \in Nat /\ Len(F[i]) = f + Len(b) /\ Stands(t, f, b)
    <3>1. F[i - 1] \in Texts
      BY <1>10
    <3>2. f \in Nat
      BY <3>1 DEF Texts
    <3> HIDE DEF y
    <3>3. Len(F[i]) = Len(F[i - 1]) + Len(y[i]) /\ Stands(t, Len(F[i - 1]), y[i])
      BY <1>10
    <3> QED
      BY <3>2, <3>3
  <2>4. a \in Texts /\ Len(a) \in Nat
    BY <1>2 DEF Texts
  <2> HIDE DEF w, f, a, b, O
  <2>5. Stands(t, f + w, a)
    BY <1>9, <2>2, <2>3, <2>4, StandsWithin DEF Texts
  <2>6. f + w \in Nat /\ (f + w) + Len(a) = Len(F[i])
    BY <2>2, <2>3, <2>4
  <2> QED
    BY <2>1, <2>5, <2>6 DEF a
<1>12. ASSUME NEW i \in 1..n, i < n PROVE At(t, O[i] + Len(parts[i]) + 1, Comma)
  <2> DEFINE j == i + 1
             b == y[j]
  <2>1. j \in 1..n /\ j - 1 = i /\ j > 1
    BY <1>2, <1>12
  <2> HIDE DEF j
  <2>2. b \in Texts /\ b # << >> /\ b[1] = Comma
    BY <1>6, <2>1
  <2>3. Stands(t, Len(F[i]), b) /\ F[i] \in Texts
    BY <1>10, <2>1
  <2> HIDE DEF b
  <2>4. Len(b) \in Nat /\ Len(b) > 0 /\ Len(F[i]) \in Nat /\ Len(t) \in Nat
    BY <1>9, <2>2, <2>3 DEF Texts
  <2>5. t[Len(F[i]) + 1] = Comma /\ Len(F[i]) + 1 <= Len(t)
    <3>1. 1 \in 1..Len(b) /\ Len(F[i]) + Len(b) <= Len(t)
      BY <2>3, <2>4 DEF Stands
    <3>2. t[Len(F[i]) + 1] = b[1]
      BY <2>3, <3>1 DEF Stands
    <3> QED
      BY <2>2, <2>4, <3>1, <3>2
  <2>6. O[i] + Len(parts[i]) = Len(F[i])
    BY <1>11
  <2> QED
    BY <2>5, <2>6 DEF At
<1>13. ASSUME NEW i \in 1..n, i = n PROVE O[i] + Len(parts[i]) = Len(t)
  BY <1>9, <1>11, <1>13
<1>14. ASSUME NEW k \in Keys, NEW P, NEW R,
              \A i \in 1..n : KeysAt(parts[i], k, P[i]) /\ \A p \in P[i] : p \in Nat /\ O[i] + p \in R
       PROVE  KeysAt(t, k, R)
  <2> DEFINE Q == [i \in 1..n |-> IF i = 1 THEN P[i] ELSE {Len(lead) + p : p \in P[i]}]
  <2>1. ASSUME NEW i \in 1..n
        PROVE  /\ KeysAt(y[i], k, Q[i]) /\ \A p \in Q[i] : Len(F[i - 1]) + p \in R
               /\ i > 1 => y[i] # << >> /\ y[i][1] = Comma
    <3> DEFINE a == parts[i]
               f == Len(F[i - 1])
               A == P[i]
               m == Len(lead)
    <3>1. a \in Texts /\ KeysAt(a, k, A) /\ (\A p \in A : p \in Nat /\ O[i] + p \in R)
      BY <1>2, <1>14
    <3>2. f \in Nat /\ m \in Nat
      BY <1>1, <1>10 DEF Texts
    <3>3. i > 1 => y[i] # << >> /\ y[i][1] = Comma
      BY <1>6
    <3>4. CASE i = 1
      <4>1. y[i] = a /\ Q[i] = A /\ O[i] = f + 0
        BY <1>4, <3>4
      <4> HIDE DEF a, A, Q, O, f
      <4>2. f + 0 = f
        BY <3>2
      <4> QED
        BY <3>1, <3>3, <4>1, <4>2 DEF f
    <3>5. CASE i # 1
      <4>1. y[i] = lead \o a /\ Q[i] = {m + p : p \in A} /\ O[i] = f + m
        BY <1>4, <3>5
      <4>2. KeysAt(lead, k, {})
        <5>1. Quote # Comma /\ Quote # Space
          BY Characters
        <5> QED
          BY <1>1, <5>1 DEF KeysAt
      <4>3. Seam(lead, a, k)
        <5>1. lead[Len(lead)] \in {Comma, Space}
          BY <1>1
        <5>2. Quote \notin {Comma, Space} /\ k \notin {Comma, Space}
          BY Characters, KeyIsPlain
        <5> QED
          BY <5>1, <5>2 DEF Seam
      <4> HIDE DEF a, A, Q, O, f
      <4>4. KeysAt(lead \o a, k, {m + p : p \in A})
        BY <1>1, <3>1, <4>2, <4>3, KeysConcat
      <4>5. ASSUME NEW q \in {m + p : p \in A} PROVE f + q \in R
        <5>1. PICK p \in A : q = m + p
          OBVIOUS
        <5>2. p \in Nat /\ O[i] + p \in R
          BY <3>1
        <5>3. f + (m + p) = (f + m) + p
          BY <3>2, <5>2
        <5> QED
          BY <4>1, <5>1, <5>2, <5>3
      <4> QED
        BY <3>3, <4>1, <4>4, <4>5 DEF f
    <3> QED
      BY <3>4, <3>5
  <2> HIDE DEF Q
  <2>2. KeysAt(F[Len(y)], k, R)
    BY <1>7, <1>8, <2>1, KeysFlatten
  <2> QED
    BY <1>7, <1>9, <2>2
<1>15. O \in [1..n -> Nat]
  BY <1>11
<1>16. ASSUME n > 0 PROVE O[1] = 0
  <2>1. 1 \in 1..n /\ 1 - 1 = 0
    BY <1>2, <1>16
  <2>2. F[0] = << >>
    BY <1>8 DEF Flattens
  <2>3. O[1] = Len(F[0]) + 0
    BY <2>1
  <2> HIDE DEF O
  <2> QED
    BY <2>2, <2>3
<1>17. ASSUME NEW i \in 1..n, i < n
       PROVE  /\ O[i + 1] = O[i] + Len(parts[i]) + Len(lead)
              /\ Stands(t, O[i] + Len(parts[i]), lead)
  <2> DEFINE j == i + 1
  <2>1. j \in 1..n /\ j - 1 = i /\ j # 1
    BY <1>2, <1>17
  <2>2. O[j] = Len(F[j - 1]) + Len(lead) /\ y[j] = lead \o parts[j]
    BY <1>4, <2>1
  <2> HIDE DEF O, j
  <2>3. O[i] + Len(parts[i]) = Len(F[i]) /\ Len(F[i]) \in Nat
    <3>1. O[i] + Len(parts[i]) = Len(F[i])
      BY <1>11
    <3>2. F[i] \in Texts
      BY <1>10
    <3> QED
      BY <3>1, <3>2 DEF Texts
  <2>4. Stands(t, Len(F[i]), y[j])
    BY <1>10, <2>1
  <2>5. Stands(t, Len(F[i]), lead)
    <3>1. parts[j] \in Texts
      BY <1>2, <2>1
    <3> DEFINE f == Len(F[i])
               b == parts[j]
    <3>2. f \in Nat /\ b \in Texts /\ Stands(t, f, lead \o b) /\ t \in Texts
      BY <1>9, <2>2, <2>3, <2>4, <3>1
    <3> HIDE DEF f, b
    <3>3. Stands(t, f, lead)
      BY <1>1, <3>2, StandsBoth DEF Texts
    <3> QED
      BY <3>3 DEF f
  <2> QED
    BY <2>1, <2>2, <2>3, <2>5 DEF j
<1> HIDE DEF O
<1>18. IsSeparated(t, parts, O)
  BY <1>9, <1>11, <1>12, <1>13, <1>14, <1>15 DEF IsSeparated
<1>19. Row(t, 0, parts, O)
  BY <1>0, <1>11, <1>15, <1>16, <1>17 DEF Row
<1>20. RowEnd(0, parts, O) = Len(t)
  <2>1. CASE n = 0
    <3>1. t = << >>
      BY <1>8, <1>9, <2>1 DEF Flattens
    <3> QED
      BY <2>1, <3>1 DEF RowEnd
  <2>2. CASE n # 0
    <3>1. n \in 1..n
      BY <1>2, <2>2
    <3> QED
      BY <1>13, <2>2, <3>1 DEF RowEnd
  <2> QED
    BY <2>1, <2>2
<1> QED
  BY <1>18, <1>19, <1>20 DEF t

\* A text between brackets.
LEMMA Enclosed ==
  ASSUME NEW u \in Texts, NEW a \in {Open, "["}, NEW b \in {Close, "]"}
  PROVE  LET t == <<a>> \o u \o <<b>>
         IN  /\ t \in Texts /\ Len(t) = Len(u) + 2 /\ t[1] = a /\ t[Len(u) + 2] = b
             /\ Stands(t, 1, u)
             /\ \A k \in Keys : \A P, R :
                  KeysAt(u, k, P) /\ (\A p \in P : 1 + p \in R) => KeysAt(t, k, R)
<1> DEFINE x == <<a>>
           y == <<b>>
           v == x \o u
           t == v \o y
<1>1. x \in Texts /\ Len(x) = 1 /\ x[1] = a /\ y \in Texts /\ Len(y) = 1 /\ y[1] = b
  <2>1. a \in Symbols /\ b \in Symbols
    BY SymbolsHold
  <2> QED
    BY <2>1 DEF Texts
<1>2. b \in After /\ a # Quote /\ b # Quote /\ \A k \in Keys : a # k /\ b # k
  BY Characters, KeyIsPlain DEF After
<1>3. Len(u) \in Nat
  BY DEF Texts
<1> HIDE DEF x, y
<1>4. v \in Texts /\ Len(v) = 1 + Len(u) /\ Stands(v, 0, x) /\ Stands(v, 1, u)
  BY <1>1, TextConcat
<1> HIDE DEF v
<1>5. t \in Texts /\ Len(t) = (1 + Len(u)) + 1 /\ Stands(t, 0, v) /\ Stands(t, 1 + Len(u), y)
  <2>1. /\ t \in Texts /\ Len(t) = Len(v) + Len(y)
        /\ Stands(t, 0, v) /\ Stands(t, Len(v), y)
    BY <1>1, <1>4, TextConcat
  <2> HIDE DEF t
  <2> QED
    BY <1>1, <1>4, <2>1
<1> HIDE DEF t
<1>6. Stands(t, 0 + 0, x) /\ Stands(t, 0 + 1, u)
  <2>1. 0 \in Nat /\ 1 \in Nat
    OBVIOUS
  <2> QED
    BY <1>1, <1>4, <1>5, <2>1, StandsWithin DEF Texts
<1>7. t[1] = a
  <2>1. 1 \in 1..Len(x) /\ (0 + 0) + 1 = 1
    BY <1>1
  <2> QED
    BY <1>1, <1>6, <2>1 DEF Stands
<1>8. t[Len(u) + 2] = b
  <2>1. 1 \in 1..Len(y) /\ (1 + Len(u)) + 1 = Len(u) + 2
    BY <1>1, <1>3
  <2> QED
    BY <1>1, <1>5, <2>1 DEF Stands
<1>9. Stands(t, 1, u) /\ Len(t) = Len(u) + 2
  BY <1>3, <1>5, <1>6
<1>10. ASSUME NEW k \in Keys, NEW P, NEW R, KeysAt(u, k, P), \A p \in P : 1 + p \in R
       PROVE  KeysAt(t, k, R)
  <2>1. KeysAt(x, k, {}) /\ KeysAt(y, k, {})
    BY <1>1 DEF KeysAt
  <2>2. Seam(x, u, k)
    BY <1>1, <1>2 DEF Seam
  <2>3. KeysAt(v, k, R)
    <3>1. \A p \in P : Len(x) + p \in R
      BY <1>1, <1>10
    <3>2. x \in Texts /\ u \in Texts /\ v = x \o u /\ KeysAt(x, k, {}) /\ KeysAt(u, k, P)
      BY <1>1, <1>10, <2>1 DEF v
    <3>3. KeysAt(x \o u, k, R)
      <4>1. \A p \in {} : p \in R
        OBVIOUS
      <4> QED
        BY <2>2, <3>1, <3>2, <4>1, KeysConcat
    <3> QED
      BY <3>2, <3>3
  <2>4. Seam(v, y, k)
    BY <1>1, <1>2 DEF Seam
  <2> QED
    BY <1>1, <1>4, <2>1, <2>3, <2>4, KeysConcat DEF t
<1> QED
  BY <1>5, <1>7, <1>8, <1>9, <1>10 DEF t, v, x, y

\* The members of an object stand in its text at the offsets O, each followed by
\* a comma or the end, and keys are found only there.
IsObject(t, names, texts, O) ==
  /\ t \in Texts /\ Len(t) >= 2 /\ t[1] = Open /\ t[Len(t)] = Close
  /\ O \in [1..Len(names) -> Nat]
  /\ \A i \in 1..Len(names) :
       /\ Stands(t, O[i], Label(names[i])) /\ Stands(t, O[i] + Width, texts[i])
       /\ \E c \in {Comma, Close} : At(t, O[i] + Width + Len(texts[i]) + 1, c)
  /\ \A k \in Keys : \A R :
       (\A i \in 1..Len(names) : KeysAt(texts[i], k, {}) /\ (names[i] = k => O[i] + 3 \in R))
          => KeysAt(t, k, R)

\* The members of an object as they are written.
Pairs(names, texts) == [i \in 1..Len(names) |-> Label(names[i]) \o texts[i]]

\* A row within a text that stands in another.
LEMMA RowShift ==
  ASSUME NEW t \in Texts, NEW u \in Texts, NEW q \in Nat, Stands(t, q, u),
         NEW parts \in Seq(Texts), NEW o \in Nat, NEW O, Row(u, o, parts, O),
         NEW A, A = [i \in 1..Len(parts) |-> q + O[i]]
  PROVE  /\ Row(t, q + o, parts, A)
         /\ RowEnd(q + o, parts, A) = q + RowEnd(o, parts, O)
         /\ RowEnd(o, parts, O) \in Nat
<1> DEFINE n == Len(parts)
<1>1. n \in Nat /\ \A i \in 1..n : parts[i] \in Texts /\ Len(parts[i]) \in Nat
  BY DEF Texts
<1>2. Lead \in Texts /\ Len(Lead) \in Nat
  BY Separator DEF Lead
<1>3. /\ O \in [1..n -> Nat] /\ (n > 0 => O[1] = o)
      /\ \A i \in 1..n : O[i] \in Nat /\ Stands(u, O[i], parts[i])
  BY DEF Row
<1>4. A \in [1..n -> Nat] /\ (n > 0 => A[1] = q + o) /\ \A i \in 1..n : A[i] = q + O[i]
  BY <1>1, <1>3
<1>5. ASSUME NEW i \in 1..n PROVE Stands(t, A[i], parts[i])
  <2> DEFINE a == O[i]
             x == parts[i]
  <2>1. a \in Nat /\ Stands(u, a, x) /\ x \in Texts /\ A[i] = q + a
    BY <1>1, <1>3, <1>4
  <2> HIDE DEF a, x
  <2>2. Stands(t, q + a, x)
    BY <2>1, StandsWithin DEF Texts
  <2> QED
    BY <2>1, <2>2 DEF x
<1>6. ASSUME NEW i \in 1..n, i < n
      PROVE  /\ A[i + 1] = A[i] + Len(parts[i]) + Len(Lead)
             /\ Stands(t, A[i] + Len(parts[i]), Lead)
  <2> DEFINE a == O[i]
             l == Len(parts[i])
             w == Len(Lead)
  <2>1. O[i + 1] = a + l + w /\ Stands(u, a + l, Lead) /\ a \in Nat /\ l \in Nat
    BY <1>1, <1>3, <1>6 DEF Row
  <2>2. A[i] = q + a /\ A[i + 1] = q + O[i + 1]
    BY <1>1, <1>4, <1>6
  <2> HIDE DEF a, l
  <2>3. a + l \in Nat
    BY <2>1
  <2>4. Stands(t, q + (a + l), Lead)
    BY <1>2, <2>1, <2>3, StandsWithin DEF Texts
  <2>5. w \in Nat
    BY <1>2
  <2> HIDE DEF w
  <2>6. q + (a + l) = (q + a) + l /\ q + (a + l + w) = (q + a) + l + w
    BY <2>1, <2>5
  <2> QED
    BY <2>1, <2>2, <2>4, <2>6 DEF l, w
<1>7. Row(t, q + o, parts, A)
  BY <1>4, <1>5, <1>6 DEF Row
<1>8. RowEnd(q + o, parts, A) = q + RowEnd(o, parts, O) /\ RowEnd(o, parts, O) \in Nat
  <2>1. CASE n = 0
    BY <2>1 DEF RowEnd
  <2>2. CASE n # 0
    <3> DEFINE a == O[n]
               l == Len(parts[n])
    <3>1. n \in 1..n
      BY <1>1, <2>2
    <3>2. a \in Nat /\ l \in Nat /\ A[n] = q + a
      BY <1>1, <1>3, <1>4, <3>1
    <3>3. RowEnd(q + o, parts, A) = A[n] + l /\ RowEnd(o, parts, O) = a + l
      BY <2>2 DEF RowEnd
    <3> HIDE DEF a, l
    <3> QED
      BY <3>2, <3>3
  <2> QED
    BY <2>1, <2>2
<1> QED
  BY <1>7, <1>8

LEMMA ObjectText ==
  ASSUME NEW names \in Seq(Keys), NEW texts \in Seq(Texts), Len(texts) = Len(names)
  PROVE  \E O : /\ IsObject(Object(names, texts), names, texts, O)
               /\ Row(Object(names, texts), 1, Pairs(names, texts), O)
               /\ RowEnd(1, Pairs(names, texts), O) + 1 = Len(Object(names, texts))
<1> DEFINE n == Len(names)
           parts == [i \in DOMAIN names |->
                       Quoted(<<names[i]>>) \o Blank \o <<":">> \o Blank \o texts[i]]
           u == Separated(parts)
           t == Object(names, texts)
<1>1. n \in Nat /\ DOMAIN names = 1..n /\ \A i \in 1..n : names[i] \in Keys /\ texts[i] \in Texts
  OBVIOUS
<1>2. \A i \in 1..n : parts[i] = Label(names[i]) \o texts[i]
  BY <1>1 DEF Label
<1>3. parts = [i \in 1..n |-> parts[i]]
  BY <1>1
<1>4. t = <<Open>> \o u \o <<Close>>
  BY DEF Object
<1> HIDE DEF parts, u, t
<1>5. ASSUME NEW i \in 1..n
      PROVE  /\ parts[i] \in Texts /\ Len(parts[i]) = Width + Len(texts[i])
             /\ Stands(parts[i], 0, Label(names[i])) /\ Stands(parts[i], Width, texts[i])
  <2> DEFINE a == Label(names[i])
             b == texts[i]
  <2>1. a \in Texts /\ Len(a) = Width /\ b \in Texts /\ parts[i] = a \o b
    BY <1>1, <1>2, LabelText
  <2> HIDE DEF a, b
  <2>2. /\ a \o b \in Texts /\ Len(a \o b) = Width + Len(b)
        /\ Stands(a \o b, 0, a) /\ Stands(a \o b, Width, b)
    BY <2>1, TextConcat
  <2> QED
    BY <2>1, <2>2 DEF a, b
<1>6. parts \in Seq(Texts) /\ Len(parts) = n
  BY <1>1, <1>3, <1>5
<1>7. PICK A : IsSeparated(u, parts, A) /\ Row(u, 0, parts, A) /\ RowEnd(0, parts, A) = Len(u)
  BY <1>6, SeparatedText DEF u
<1>8. /\ u \in Texts /\ A \in [1..n -> Nat]
      /\ \A i \in 1..n :
           /\ Stands(u, A[i], parts[i])
           /\ i < n => At(u, A[i] + Len(parts[i]) + 1, Comma)
           /\ i = n => A[i] + Len(parts[i]) = Len(u)
  BY <1>6, <1>7 DEF IsSeparated
<1>9. /\ t \in Texts /\ Len(t) = Len(u) + 2 /\ t[1] = Open /\ t[Len(u) + 2] = Close
      /\ Stands(t, 1, u)
      /\ \A k \in Keys : \A P, R :
           KeysAt(u, k, P) /\ (\A p \in P : 1 + p \in R) => KeysAt(t, k, R)
  BY <1>4, <1>8, Enclosed
<1>10. Len(u) \in Nat /\ Width \in {4, 6}
  BY <1>8 DEF Texts, Width
<1> DEFINE O == [i \in 1..n |-> A[i] + 1]
<1>11. ASSUME NEW i \in 1..n
       PROVE  /\ Stands(t, O[i], Label(names[i])) /\ Stands(t, O[i] + Width, texts[i])
              /\ \E c \in {Comma, Close} : At(t, O[i] + Width + Len(texts[i]) + 1, c)
  <2> DEFINE o == A[i]
             a == Label(names[i])
             b == texts[i]
             p == parts[i]
  <2>1. o \in Nat /\ O[i] = o + 1
    BY <1>8
  <2>2. a \in Texts /\ b \in Texts /\ p \in Texts /\ Len(b) \in Nat /\ Len(p) = Width + Len(b)
    BY <1>1, <1>5, LabelText DEF Texts
  <2>3. Stands(p, 0, a) /\ Stands(p, Width, b) /\ Stands(u, o, p)
    BY <1>5, <1>8
  <2>4. (i < n => At(u, o + Len(p) + 1, Comma)) /\ (i = n => o + Len(p) = Len(u))
    BY <1>8
  <2> HIDE DEF o, a, b, p
  <2>5. Stands(t, 1 + o, p)
    BY <1>8, <1>9, <2>1, <2>2, <2>3, StandsWithin DEF Texts
  <2>6. Stands(t, (1 + o) + 0, a)
    <3>1. 1 + o \in Nat /\ 0 \in Nat
      BY <2>1
    <3> QED
      BY <1>9, <2>2, <2>3, <2>5, <3>1, StandsWithin DEF Texts
  <2>7. Stands(t, (1 + o) + Width, b)
    <3>1. 1 + o \in Nat /\ Width \in Nat
      BY <1>10, <2>1
    <3> QED
      BY <1>9, <2>2, <2>3, <2>5, <3>1, StandsWithin DEF Texts
  <2>8. \E c \in {Comma, Close} : At(t, (1 + o) + Width + Len(b) + 1, c)
    <3>1. (1 + o) + Width + Len(b) + 1 = 1 + (o + Len(p) + 1)
      BY <1>10, <2>1, <2>2
    <3>2. CASE i < n
      <4>1. o + Len(p) + 1 \in 1..Len(u) /\ u[o + Len(p) + 1] = Comma
        BY <1>10, <2>1, <2>2, <2>4, <3>2 DEF At
      <4>2. t[1 + (o + Len(p) + 1)] = Comma /\ 1 + (o + Len(p) + 1) <= Len(t)
        BY <1>9, <1>10, <4>1 DEF Stands
      <4> QED
        BY <3>1, <4>2 DEF At
    <3>3. CASE i = n
      <4>1. 1 + (o + Len(p) + 1) = Len(u) + 2
        BY <1>10, <2>1, <2>4, <3>3
      <4> QED
        BY <1>9, <1>10, <3>1, <4>1 DEF At
    <3> QED
      BY <1>1, <3>2, <3>3
  <2>9. (1 + o) + 0 = O[i] /\ (1 + o) + Width = O[i] + Width
        /\ (1 + o) + Width + Len(b) + 1 = O[i] + Width + Len(b) + 1
    <3> DEFINE z == O[i]
    <3>1. z = o + 1 /\ o \in Nat
      BY <2>1
    <3> HIDE DEF z, O
    <3>2. (1 + o) + 0 = z /\ (1 + o) = z
      BY <3>1
    <3> QED
      BY <3>2 DEF z
  <2> QED
    BY <2>6, <2>7, <2>8, <2>9 DEF a, b
<1>12. ASSUME NEW k \in Keys, NEW R,
              \A i \in 1..n : KeysAt(texts[i], k, {}) /\ (names[i] = k => O[i] + 3 \in R)
       PROVE  KeysAt(t, k, R)
  <2> DEFINE P == [i \in 1..n |-> IF names[i] = k THEN {3} ELSE {}]
             T == {A[i] + 3 : i \in {j \in 1..n : names[j] = k}}
  <2>1. ASSUME NEW i \in 1..n
        PROVE  KeysAt(parts[i], k, P[i]) /\ \A p \in P[i] : p \in Nat /\ A[i] + p \in T
    <3> DEFINE a == Label(names[i])
               b == texts[i]
               Q == IF names[i] = k THEN {3} ELSE {}
    <3>1. P[i] = Q /\ parts[i] = a \o b
      BY <1>2
    <3>2. a \in Texts /\ b \in Texts /\ KeysAt(b, k, {}) /\ KeysAt(a, k, Q)
      BY <1>1, <1>12, LabelText, LabelKeys
    <3>3. Seam(a, b, k)
      <4>1. a[Len(a)] \in {":", Space}
        <5> DEFINE q == Quote
                   m == names[i]
                   sp == Space
        <5>1. a = IF blank THEN <<q, m, q, sp, ":", sp>> ELSE <<q, m, q, ":">>
          BY <1>1, LabelText
        <5> HIDE DEF a, q, m, sp
        <5>2. CASE blank
          <6>1. a = <<q, m, q, sp, ":", sp>>
            BY <5>1, <5>2
          <6> QED
            BY <6>1 DEF sp
        <5>3. CASE ~blank
          <6>1. a = <<q, m, q, ":">>
            BY <5>1, <5>3
          <6> QED
            BY <6>1
        <5> QED
          BY <5>2, <5>3
      <4>2. Quote \notin {":", Space} /\ k \notin {":", Space}
        BY Characters, KeyIsPlain
      <4> HIDE DEF a, b
      <4> QED
        BY <4>1, <4>2 DEF Seam
    <3>4. \A p \in Q : p \in Nat /\ A[i] + p \in T
      OBVIOUS
    <3> HIDE DEF a, b, Q
    <3>5. KeysAt(a \o b, k, Q)
      BY <3>2, <3>3, KeysConcat
    <3> QED
      BY <3>1, <3>4, <3>5
  <2>2. KeysAt(u, k, T)
    <3> HIDE DEF P, T
    <3> QED
      BY <1>6, <1>7, <2>1 DEF IsSeparated
  <2>3. ASSUME NEW q \in T PROVE 1 + q \in R
    <3>1. PICK i \in 1..n : names[i] = k /\ q = A[i] + 3
      OBVIOUS
    <3>2. O[i] + 3 \in R /\ A[i] \in Nat
      BY <1>8, <1>12, <3>1
    <3>3. O[i] + 3 = 1 + q
      BY <3>1, <3>2
    <3> QED
      BY <3>2, <3>3
  <2> HIDE DEF T
  <2> QED
    BY <1>9, <2>2, <2>3
<1>13. O \in [1..n -> Nat]
  BY <1>8
<1> HIDE DEF O
<1>14. IsObject(t, names, texts, O)
  BY <1>9, <1>10, <1>11, <1>12, <1>13 DEF IsObject
<1>15. Row(t, 1, parts, O) /\ RowEnd(1, parts, O) + 1 = Len(t)
  <2> DEFINE C == [i \in 1..Len(parts) |-> 1 + A[i]]
  <2>0. C = [i \in 1..Len(parts) |-> 1 + A[i]]
    OBVIOUS
  <2> HIDE DEF C
  <2>1. Row(t, 1 + 0, parts, C) /\ RowEnd(1 + 0, parts, C) = 1 + RowEnd(0, parts, A)
    BY <1>6, <1>7, <1>8, <1>9, <2>0, RowShift
  <2>2. C = O
    BY <1>6, <1>8 DEF O, C
  <2> HIDE DEF C
  <2>3. Row(t, 1 + 0, parts, O) /\ RowEnd(1 + 0, parts, O) = 1 + Len(u)
    BY <1>7, <2>1, <2>2
  <2>4. 1 + 0 = 1 /\ (1 + Len(u)) + 1 = Len(u) + 2
    BY <1>10
  <2>5. Row(t, 1, parts, O) /\ RowEnd(1, parts, O) = 1 + Len(u)
    BY <2>3, <2>4
  <2> QED
    BY <1>9, <2>4, <2>5
<1>16. parts = Pairs(names, texts)
  BY <1>2, <1>3 DEF Pairs
<1> QED
  BY <1>14, <1>15, <1>16 DEF t

-----------------------------------------------------------------------------
(* What values are written *)

\* What numbers and literals are made of.
Ink == {"0", "1", "8", "-", "+", ".", "e", "true", "false", "null"}

LEMMA InkIsPlain ==
  ASSUME NEW c \in Ink
  PROVE  c \notin {Quote, Backslash, Newline, Control, Space, Comma, Open, Close, "[", "]", ":"}
BY Letters DEF Ink

LEMMA NumberSymbols ==
  ASSUME NEW s \in Texts, IsNumber(s)
  PROVE  Len(s) \in Nat \ {0} /\ \A i \in 1..Len(s) : s[i] \in Ink
<1> DEFINE f == AfterSign(s, 1)
<1>1. PICK whole \in 1..Len(s), n \in 1..Len(s) :
        /\ f <= whole /\ AreDigits(s, f, whole)
        /\ n = whole \/ (n > whole /\ s[whole + 1] = "." /\ AreDigits(s, whole + 2, n))
        /\ IsExponent(s, n)
  BY DEF IsNumber
<1>2. Len(s) \in Nat
  BY DEF Texts
<1>3. f \in {1, 2} /\ (f = 2 => s[1] = "-")
  BY DEF AfterSign, At
<1> HIDE DEF f
<1>4. Digits \subseteq Ink /\ "-" \in Ink /\ "+" \in Ink /\ "." \in Ink /\ "e" \in Ink
  BY DEF Digits, Ink
<1>5. \A i \in 1..whole : s[i] \in Ink
  BY <1>1, <1>3, <1>4 DEF AreDigits
<1>6. \A i \in (whole + 1)..n : s[i] \in Ink
  BY <1>1, <1>4 DEF AreDigits
<1>7. \A i \in (n + 1)..Len(s) : s[i] \in Ink
  <2>1. CASE n = Len(s)
    BY <1>2, <2>1
  <2>2. CASE n # Len(s)
    <3>1. s[n + 1] = "e"
      BY <1>1, <2>2 DEF IsExponent
    <3>2. PICK d \in {n + 2, n + 3} :
            /\ AreDigits(s, d, Len(s)) /\ (d = n + 3 => s[n + 2] \in {"-", "+"})
      BY <1>1, <2>2 DEF IsExponent
    <3>3. ASSUME NEW i \in (n + 1)..Len(s) PROVE i = n + 1 \/ i \in d..Len(s) \/ (i = n + 2 /\ d = n + 3)
      BY <1>2, <3>2
    <3>4. \A i \in d..Len(s) : s[i] \in Digits
      BY <3>2 DEF AreDigits
    <3> QED
      BY <1>4, <3>1, <3>2, <3>3, <3>4
  <2> QED
    BY <2>1, <2>2
<1>8. ASSUME NEW i \in 1..Len(s)
      PROVE  i \in 1..whole \/ i \in (whole + 1)..n \/ i \in (n + 1)..Len(s)
  BY <1>2
<1> QED
  BY <1>2, <1>5, <1>6, <1>7, <1>8

LEMMA PlainSymbols ==
  ASSUME NEW s \in Texts, NEW key, IsPlain(key, s)
  PROVE  Len(s) \in Nat \ {0} /\ \A i \in 1..Len(s) : s[i] \in Ink
<1>1. CASE IsNumber(s)
  BY <1>1, NumberSymbols
<1>2. CASE ~IsNumber(s)
  <2>1. s = <<"true">> \/ s = <<"false">> \/ s = <<"null">>
    BY <1>2 DEF IsPlain
  <2>2. Len(s) = 1 /\ s[1] \in {"true", "false", "null"}
    BY <2>1
  <2> QED
    BY <2>2 DEF Ink
<1> QED
  BY <1>1, <1>2

\* The keys the code looks for are none of the characters it looks for.
LEMMA FieldIsPlain ==
  ASSUME NEW k \in Fields
  PROVE  k \notin Special \cup {Control} /\ (k \in Keys \/ k \notin Symbols)
<1>1. k \notin {Quote, Backslash, Comma, Open, Close}
  BY DEF Fields, Quote, Backslash, Comma, Open, Close
<1>2. k \notin {"[", "]", ":"}
  BY DEF Fields
<1>3. k \notin {Space, Newline, Control}
  BY DEF Fields, Space, Newline, Control
<1> QED
  BY <1>1, <1>2, <1>3 DEF Special, Keys

\* Where a text has no quotes, or not the key, the search stops nowhere.
LEMMA NoKeys ==
  ASSUME NEW t \in Texts, NEW k, k \notin Symbols \/ \A i \in 1..Len(t) : t[i] # Quote
  PROVE  KeysAt(t, k, {})
<1>1. Len(t) \in Nat /\ \A i \in 1..Len(t) : t[i] \in Symbols
  BY DEF Texts
<1>2. ASSUME NEW i \in 2..(Len(t) - 1) PROVE i \in 1..Len(t) /\ i - 1 \in 1..Len(t)
  BY <1>1
<1> QED
  BY <1>1, <1>2 DEF KeysAt

\* A member of a nested object.
Nested == (Keys \ Fields) \X Texts

LEMMA MessageKeys ==
  ASSUME NEW m \in Seq(Nested)
  PROVE  MessageText(m) \in Texts /\ \A k \in Keys \cap Fields : KeysAt(MessageText(m), k, {})
<1> DEFINE names == [i \in DOMAIN m |-> m[i][1]]
           texts == [i \in DOMAIN m |-> Quoted(m[i][2])]
<1>1. DOMAIN m = 1..Len(m) /\ Len(m) \in Nat
  OBVIOUS
<1>2. \A i \in 1..Len(m) : m[i][1] \in Keys \ Fields /\ m[i][2] \in Texts
  <2>1. \A i \in 1..Len(m) : m[i] \in (Keys \ Fields) \X Texts
    BY DEF Nested
  <2> QED
    BY <2>1
<1>3. names \in Seq(Keys) /\ Len(names) = Len(m)
  <2>1. \A i \in 1..Len(m) : names[i] \in Keys
    BY <1>1, <1>2
  <2>2. names = [i \in 1..Len(m) |-> names[i]]
    BY <1>1
  <2> HIDE DEF names
  <2> QED
    BY <1>1, <2>1, <2>2
<1>4. \A i \in 1..Len(m) : texts[i] \in Texts
  BY <1>1, <1>2, QuotedText
<1>5. texts \in Seq(Texts) /\ Len(texts) = Len(m)
  <2>1. texts = [i \in 1..Len(m) |-> texts[i]]
    BY <1>1
  <2> HIDE DEF texts
  <2> QED
    BY <1>1, <1>4, <2>1
<1>6. MessageText(m) = Object(names, texts)
  BY DEF MessageText
<1>7. ASSUME NEW k \in Keys \cap Fields, NEW i \in 1..Len(m)
      PROVE  names[i] # k /\ KeysAt(texts[i], k, {})
  <2>1. names[i] = m[i][1] /\ texts[i] = Quoted(m[i][2])
    BY <1>1
  <2>2. k # Quote /\ k # Backslash
    BY KeyIsPlain
  <2> QED
    BY <1>2, <2>1, <2>2, QuotedKeys
<1> HIDE DEF names, texts
<1>8. PICK O : IsObject(Object(names, texts), names, texts, O)
  BY <1>3, <1>5, ObjectText
<1>9. ASSUME NEW k \in Keys \cap Fields PROVE KeysAt(Object(names, texts), k, {})
  <2>1. \A i \in 1..Len(names) : KeysAt(texts[i], k, {}) /\ (names[i] = k => O[i] + 3 \in {})
    BY <1>3, <1>7
  <2> QED
    BY <1>8, <2>1 DEF IsObject
<1> QED
  BY <1>6, <1>8, <1>9 DEF IsObject

LEMMA ListKeys ==
  ASSUME NEW l \in Seq(Seq(Nested))
  PROVE  LET t == <<"[">> \o Separated([i \in DOMAIN l |-> MessageText(l[i])]) \o <<"]">>
         IN  /\ t \in Texts /\ Len(t) \in Nat \ {0, 1} /\ t[1] = "["
             /\ \A k \in Keys \cap Fields : KeysAt(t, k, {})
<1> DEFINE parts == [i \in DOMAIN l |-> MessageText(l[i])]
           u == Separated(parts)
           t == <<"[">> \o u \o <<"]">>
<1>1. DOMAIN l = 1..Len(l) /\ Len(l) \in Nat /\ \A i \in 1..Len(l) : l[i] \in Seq(Nested)
  OBVIOUS
<1>2. \A i \in 1..Len(l) : parts[i] \in Texts /\ \A k \in Keys \cap Fields : KeysAt(parts[i], k, {})
  BY <1>1, MessageKeys
<1>3. parts \in Seq(Texts) /\ Len(parts) = Len(l)
  <2>1. parts = [i \in 1..Len(l) |-> parts[i]]
    BY <1>1
  <2> HIDE DEF parts
  <2> QED
    BY <1>1, <1>2, <2>1
<1> HIDE DEF parts
<1>4. PICK O : IsSeparated(u, parts, O)
  BY <1>3, SeparatedText
<1>5. u \in Texts
  BY <1>4 DEF IsSeparated
<1>6. ASSUME NEW k \in Keys \cap Fields PROVE KeysAt(u, k, {})
  <2> DEFINE P == [i \in 1..Len(parts) |-> {}]
  <2>1. \A i \in 1..Len(parts) : KeysAt(parts[i], k, P[i]) /\ \A p \in P[i] : p \in Nat /\ O[i] + p \in {}
    BY <1>2, <1>3
  <2> HIDE DEF P, u
  <2> QED
    BY <1>4, <2>1 DEF IsSeparated
<1> HIDE DEF u
<1>7. /\ t \in Texts /\ Len(t) = Len(u) + 2 /\ t[1] = "["
      /\ \A k \in Keys : \A P, R :
           KeysAt(u, k, P) /\ (\A p \in P : 1 + p \in R) => KeysAt(t, k, R)
  BY <1>5, Enclosed
<1> HIDE DEF t
<1>8. \A k \in Keys \cap Fields : KeysAt(t, k, {})
  <2>1. \A p \in {} : 1 + p \in {}
    OBVIOUS
  <2> QED
    BY <1>6, <1>7, <2>1
<1>9. Len(u) \in Nat
  BY <1>5 DEF Texts
<1> QED
  BY <1>7, <1>8, <1>9 DEF t, u, parts

\* A value begins with a quote, a bracket or the symbol of a number or literal,
\* and holds no key the code looks for.
LEMMA ValueTexts ==
  ASSUME NEW m, IsMember(m)
  PROVE  /\ ValueText(m) \in Texts /\ Len(ValueText(m)) \in Nat \ {0}
         /\ ValueText(m)[1] \in {Quote, "["} \cup Ink
         /\ \A k \in Keys \cap Fields : KeysAt(ValueText(m), k, {})
<1>1. CASE m.kind = "string"
  <2>1. m.chars \in Texts /\ ValueText(m) = Quoted(m.chars)
    BY <1>1 DEF IsMember, ValueText, Texts
  <2>2. \A k \in Keys \cap Fields : KeysAt(Quoted(m.chars), k, {})
    BY <2>1, QuotedKeys, KeyIsPlain
  <2>3. Quoted(m.chars) \in Texts /\ Quoted(m.chars)[1] = Quote /\ Len(Quoted(m.chars)) \in Nat \ {0}
    <3>1. ClientEscape(m.chars) \in Texts /\ Len(Quoted(m.chars)) = Len(ClientEscape(m.chars)) + 2
      BY <2>1, QuotedText
    <3>2. Len(ClientEscape(m.chars)) \in Nat
      BY <3>1 DEF Texts
    <3> QED
      BY <2>1, <3>1, <3>2, QuotedText
  <2> QED
    BY <2>1, <2>2, <2>3
<1>2. CASE m.kind = "plain"
  <2>1. m.chars \in Texts /\ IsPlain(m.key, m.chars) /\ ValueText(m) = m.chars
    BY <1>2 DEF IsMember, ValueText, Texts
  <2>2. Len(m.chars) \in Nat \ {0} /\ \A i \in 1..Len(m.chars) : m.chars[i] \in Ink
    BY <2>1, PlainSymbols
  <2>3. \A i \in 1..Len(m.chars) : m.chars[i] # Quote
    BY <2>2, InkIsPlain
  <2> QED
    BY <2>1, <2>2, <2>3, NoKeys
<1>3. CASE m.kind = "list"
  <2>1. m.list \in Seq(Seq(Nested))
    BY <1>3 DEF IsMember, Nested, Texts
  <2>2. ValueText(m) = <<"[">> \o Separated([i \in DOMAIN m.list |-> MessageText(m.list[i])]) \o <<"]">>
    BY <1>3 DEF ValueText
  <2> QED
    BY <2>1, <2>2, ListKeys
<1> QED
  BY <1>1, <1>2, <1>3 DEF IsMember

-----------------------------------------------------------------------------
(* How a key is found *)

LEMMA PastIs ==
  ASSUME NEW t \in Texts, NEW p \in Nat \ {0}, NEW S, NEW q \in p..(Len(t) + 1),
         \A i \in p..(q - 1) : t[i] \in S, q <= Len(t) => t[q] \notin S
  PROVE  Past(t, p, S) = q
<1> DEFINE M == {r \in p..Len(t) : t[r] \notin S} \cup {IF p > Len(t) THEN p ELSE Len(t) + 1}
<1>1. Len(t) \in Nat
  BY DEF Texts
<1>2. q \in M
  BY <1>1
<1>3. ASSUME NEW r \in M PROVE q <= r /\ r \in Nat
  <2>1. CASE r \in p..Len(t) /\ t[r] \notin S
    <3>1. ~(r < q)
      BY <1>1, <2>1
    <3> QED
      BY <1>1, <2>1, <3>1
  <2>2. CASE r = IF p > Len(t) THEN p ELSE Len(t) + 1
    BY <1>1, <2>2
  <2> QED
    BY <2>1, <2>2
<1> HIDE DEF M
<1>4. \A x \in M : (\A y \in M : x <= y) => x = q
  BY <1>2, <1>3
<1>5. Min(M) = q
  BY <1>2, <1>3, <1>4 DEF Min
<1> QED
  BY <1>5 DEF Past, M

LEMMA LeastIs ==
  ASSUME NEW S \in SUBSET Nat, NEW p \in S, \A q \in S : p <= q
  PROVE  Least(S) = p
<1>1. \A x \in S : (\A y \in S : x <= y) => x = p
  OBVIOUS
<1>2. Min(S) = p
  BY <1>1 DEF Min
<1> QED
  BY <1>2 DEF Least

\* From a label white space is skipped to the colon and on to the value.
LEMMA ColonAt ==
  ASSUME NEW t \in Texts, NEW o \in Nat, NEW k \in Keys, NEW v \in Texts,
         Stands(t, o, Label(k)), Stands(t, o + Width, v),
         Len(v) # 0, v[1] \notin {Space, Newline}
  PROVE  /\ o + 3 <= Len(t) /\ t[o + 1] = Quote /\ t[o + 2] = k /\ t[o + 3] = Quote
         /\ skip_ws(t, o + 4) \in Nat /\ At(t, skip_ws(t, o + 4), ":")
         /\ skip_ws(t, skip_ws(t, o + 4) + 1) = o + Width + 1
<1> DEFINE q == Quote
           sp == Space
           a == Label(k)
           W == {sp, Newline}
<1>1. /\ Len(t) \in Nat /\ Len(v) \in Nat \ {0} /\ v[1] \notin W
      /\ a \in Texts /\ Len(a) = Width
      /\ a = IF blank THEN <<q, k, q, sp, ":", sp>> ELSE <<q, k, q, ":">>
  BY LabelText DEF Texts
<1>2. ":" \notin W /\ sp \in W
  BY Characters
<1>3. Stands(t, o, a)
  OBVIOUS
<1>4. \A p : skip_ws(t, p) = Past(t, p, W)
  BY DEF skip_ws
<1> HIDE DEF q, sp, a, W
<1>5. CASE blank
  <2>1. a = <<q, k, q, sp, ":", sp>> /\ Width = 6
    BY <1>1, <1>5 DEF Width
  <2>2. /\ Len(a) = 6 /\ a[1] = q /\ a[2] = k /\ a[3] = q /\ a[4] = sp /\ a[5] = ":" /\ a[6] = sp
    BY <2>1
  <2>3. /\ o + 6 <= Len(t) /\ t[o + 1] = q /\ t[o + 2] = k /\ t[o + 3] = q
        /\ t[o + 4] = sp /\ t[o + 5] = ":" /\ t[o + 6] = sp
    BY <1>3, <2>2 DEF Stands
  <2>4. o + 7 <= Len(t) /\ t[o + 7] \notin W
    <3>1. Stands(t, o + 6, v) /\ 1 \in 1..Len(v)
      BY <1>1, <2>1
    <3>2. (o + 6) + Len(v) <= Len(t) /\ t[(o + 6) + 1] = v[1]
      BY <3>1 DEF Stands
    <3> QED
      BY <1>1, <3>2
  <2>5. Past(t, o + 4, W) = o + 5
    <3>1. \A i \in (o + 4)..((o + 5) - 1) : i = o + 4
      OBVIOUS
    <3>2. o + 4 \in Nat \ {0} /\ o + 5 \in (o + 4)..(Len(t) + 1)
      BY SMTT(30), <1>1, <2>3
    <3> QED
      BY <1>2, <2>3, <3>1, <3>2, PastIs
  <2>6. Past(t, o + 6, W) = o + 7
    <3>1. \A i \in (o + 6)..((o + 7) - 1) : i = o + 6
      OBVIOUS
    <3>2. o + 6 \in Nat \ {0} /\ o + 7 \in (o + 6)..(Len(t) + 1)
      BY SMTT(30), <1>1, <2>3
    <3> QED
      BY <1>2, <2>3, <2>4, <3>1, <3>2, PastIs
  <2>7. (o + 5) + 1 = o + 6 /\ o + Width + 1 = o + 7 /\ o + 3 <= Len(t) /\ o + 5 \in Nat
        /\ o + 5 <= Len(t)
    BY SMTT(30), <1>1, <2>1, <2>3
  <2> QED
    BY <1>4, <2>3, <2>5, <2>6, <2>7 DEF At, q
<1>6. CASE ~blank
  <2>1. a = <<q, k, q, ":">> /\ Width = 4
    BY <1>1, <1>6 DEF Width
  <2>2. /\ Len(a) = 4 /\ a[1] = q /\ a[2] = k /\ a[3] = q /\ a[4] = ":"
    BY <2>1
  <2>3. /\ o + 4 <= Len(t) /\ t[o + 1] = q /\ t[o + 2] = k /\ t[o + 3] = q /\ t[o + 4] = ":"
    BY <1>3, <2>2 DEF Stands
  <2>4. o + 5 <= Len(t) /\ t[o + 5] \notin W
    <3>1. Stands(t, o + 4, v) /\ 1 \in 1..Len(v)
      BY <1>1, <2>1
    <3>2. (o + 4) + Len(v) <= Len(t) /\ t[(o + 4) + 1] = v[1]
      BY <3>1 DEF Stands
    <3> QED
      BY <1>1, <3>2
  <2>5. Past(t, o + 4, W) = o + 4
    <3>1. \A i \in (o + 4)..((o + 4) - 1) : FALSE
      OBVIOUS
    <3>2. o + 4 \in Nat \ {0} /\ o + 4 \in (o + 4)..(Len(t) + 1)
      BY <1>1, <2>3
    <3> QED
      BY <1>2, <2>3, <3>1, <3>2, PastIs
  <2>6. Past(t, o + 5, W) = o + 5
    <3>1. \A i \in (o + 5)..((o + 5) - 1) : FALSE
      OBVIOUS
    <3>2. o + 5 \in Nat \ {0} /\ o + 5 \in (o + 5)..(Len(t) + 1)
      BY <1>1, <2>3
    <3> QED
      BY <2>4, <3>1, <3>2, PastIs
  <2>7. (o + 4) + 1 = o + 5 /\ o + Width + 1 = o + 5 /\ o + 3 <= Len(t) /\ o + 4 \in Nat
    BY <1>1, <2>1, <2>3
  <2> QED
    BY <1>4, <2>3, <2>5, <2>6, <2>7 DEF At, q
<1> QED
  BY <1>5, <1>6

\* Where a key stands before a colon, the quote after it does not close a value.
LEMMA KeyIsNotValue ==
  ASSUME NEW t \in Texts, NEW k, NEW R, KeysAt(t, k, R), Len(t) >= 2, t[Len(t)] = Close,
         NEW q \in Occurrences(t, k), AsKey(t, q)
  PROVE  q \in Nat \ {0} /\ q + 2 \in R
<1>1. Len(t) \in Nat /\ q \in 1..(Len(t) - 2) /\ t[q + 1] = k /\ t[q + 2] = Quote
  BY DEF Texts, Occurrences
<1>2. q + 2 \in 2..(Len(t) - 1)
  <2>1. q + 2 # Len(t)
    BY <1>1, Characters
  <2> QED
    BY <1>1, <2>1
<1>3. t[q + 3] \notin After
  <2>1. SUFFICES ASSUME t[q + 3] \in After PROVE FALSE
    OBVIOUS
  <2>2. t[q + 3] \notin {Space, Newline, ":"}
    <3>1. \A c \in After : c \notin {Space, Newline, ":"}
      BY Characters DEF After
    <3> QED
      BY <2>1, <3>1
  <2>3. Past(t, q + 3, {Space, Newline}) = q + 3
    <3>1. q + 3 \in Nat \ {0} /\ q + 3 \in (q + 3)..(Len(t) + 1) /\ \A i \in (q + 3)..((q + 3) - 1) : FALSE
      BY <1>1, <1>2
    <3> QED
      BY <2>2, <3>1, PastIs
  <2>4. t[q + 3] = ":"
    BY <2>3 DEF AsKey, skip_ws, At
  <2> QED
    BY <2>2, <2>4
<1>4. (q + 2) - 1 = q + 1 /\ (q + 2) + 1 = q + 3
  BY <1>1
<1>5. q + 2 \in R
  BY <1>1, <1>2, <1>3, <1>4 DEF KeysAt
<1> QED
  BY <1>1, <1>5

\* The value v of k stands where it is looked for, and a comma or the end of the
\* object follows it.
FoundAt(t, k, v, o) ==
  /\ o \in Nat /\ value_of(t, k) = o + 1
  /\ Stands(t, o, v)
  /\ \E c \in {Comma, Close} : At(t, o + Len(v) + 1, c)

\* A key is found exactly where it was written.
LEMMA FindsKey ==
  ASSUME NEW names \in Seq(Keys), NEW texts \in Seq(Texts), Len(texts) = Len(names),
         NEW t, NEW O, IsObject(t, names, texts, O), NEW k \in Keys,
         \A i \in 1..Len(names) : KeysAt(texts[i], k, {}),
         \A i \in 1..Len(names) : Len(texts[i]) # 0 /\ texts[i][1] \notin {Space, Newline}
  PROVE  /\ (\A i \in 1..Len(names) : names[i] # k) => value_of(t, k) = 0
         /\ \A i \in 1..Len(names) :
              names[i] = k /\ (\A j \in 1..Len(names) : names[j] = k => j = i)
                => \E o : FoundAt(t, k, texts[i], o)
<1> DEFINE C == {q \in Occurrences(t, k) : AsKey(t, q)}
<1>1. t \in Texts /\ Len(t) >= 2 /\ t[Len(t)] = Close /\ Len(t) \in Nat
  BY DEF IsObject, Texts
<1>2. ASSUME \A i \in 1..Len(names) : names[i] # k PROVE value_of(t, k) = 0
  <2>1. KeysAt(t, k, {})
    BY <1>2 DEF IsObject
  <2>2. C = {}
    BY <1>1, <2>1, KeyIsNotValue
  <2> HIDE DEF C
  <2>3. Least(C) = 0
    BY <2>2 DEF Least
  <2> QED
    BY <2>3 DEF value_of, find_key, C
<1>3. ASSUME NEW i \in 1..Len(names), names[i] = k,
             \A j \in 1..Len(names) : names[j] = k => j = i
      PROVE  \E o : FoundAt(t, k, texts[i], o)
  <2> DEFINE o == O[i]
             v == texts[i]
             R == {o + 3}
  <2>1. /\ o \in Nat /\ v \in Texts /\ Len(v) # 0 /\ v[1] \notin {Space, Newline}
        /\ Stands(t, o, Label(k)) /\ Stands(t, o + Width, v)
        /\ \E c \in {Comma, Close} : At(t, o + Width + Len(v) + 1, c)
    BY <1>3 DEF IsObject
  <2>2. KeysAt(t, k, R)
    <3>1. \A j \in 1..Len(names) : KeysAt(texts[j], k, {}) /\ (names[j] = k => O[j] + 3 \in R)
      BY <1>3
    <3> HIDE DEF R
    <3> QED
      BY <3>1 DEF IsObject
  <2> HIDE DEF o, v
  <2>3. /\ o + 3 <= Len(t) /\ t[o + 1] = Quote /\ t[o + 2] = k /\ t[o + 3] = Quote
        /\ skip_ws(t, o + 4) \in Nat /\ At(t, skip_ws(t, o + 4), ":")
        /\ skip_ws(t, skip_ws(t, o + 4) + 1) = o + Width + 1
    BY <1>1, <2>1, ColonAt
  <2>4. o + 1 \in C
    <3>1. /\ o + 1 \in 1..(Len(t) - 2) /\ (o + 1) + 1 = o + 2 /\ (o + 1) + 2 = o + 3
          /\ (o + 1) + 3 = o + 4
      BY <1>1, <2>1, <2>3
    <3> QED
      BY <2>3, <3>1 DEF Occurrences, AsKey
  <2>5. ASSUME NEW q \in C PROVE q = o + 1 /\ q \in Nat
    <3>1. q \in Nat \ {0} /\ q + 2 \in R
      BY <1>1, <2>2, KeyIsNotValue
    <3> QED
      BY <2>1, <3>1
  <2>6. Least(C) = o + 1
    <3> HIDE DEF C
    <3>1. C \in SUBSET Nat /\ \A q \in C : o + 1 <= q
      BY <2>1, <2>5
    <3> QED
      BY <2>4, <3>1, LeastIs
  <2>7. value_of(t, k) = (o + Width) + 1
    <3>1. find_key(t, k) = skip_ws(t, (o + 1) + 3) + 1
      <4> HIDE DEF C
      <4>1. o + 1 # 0
        BY <2>1
      <4> QED
        BY <2>6, <4>1 DEF find_key, C
    <3>2. (o + 1) + 3 = o + 4
      BY <2>1
    <3>3. skip_ws(t, o + 4) + 1 # 0
      BY <2>3
    <3> QED
      BY <2>3, <3>1, <3>2, <3>3 DEF value_of
  <2>8. o + Width \in Nat /\ (o + Width) + Len(v) + 1 = o + Width + Len(v) + 1
    BY <2>1 DEF Width
  <2>9. FoundAt(t, k, v, o + Width)
    BY <2>1, <2>7, <2>8 DEF FoundAt
  <2> QED
    BY <2>9 DEF v
<1> QED
  BY <1>2, <1>3

-----------------------------------------------------------------------------
(* How a number is read *)

\* N[i] is the value of the first i digits of s.
IsValues(N, s) ==
  N = [i \in 0..Len(s) |-> IF i = 0 THEN 0 ELSE 10 * N[i - 1] + Numeral[s[i]]]

LEMMA NumeralIsNat ==
  ASSUME NEW d \in Digits
  PROVE  Numeral[d] \in Nat
<1>1. d = "0" \/ d = "1" \/ d = "8"
  BY DEF Digits
<1>2. Numeral[d] = CASE d = "0" -> 0 [] d = "1" -> 1 [] d = "8" -> 8
  BY DEF Numeral
<1> QED
  BY <1>1, <1>2

LEMMA ValuesExist ==
  ASSUME NEW s \in Seq(Digits)
  PROVE  \E N : IsValues(N, s)
<1> DEFINE f == [i \in 1..Len(s) |-> Numeral[s[i]]]
           g == [x \in Nat \X Nat |->
                   10 * x[2] + (IF x[1] + 1 \in 1..Len(s) THEN f[x[1] + 1] ELSE 0)]
<1>1. f \in [1..Len(s) -> Nat] /\ Len(s) \in Nat
  BY NumeralIsNat
<1>2. \A i \in 1..Len(s) : f[i] = Numeral[s[i]]
  OBVIOUS
<1> HIDE DEF f
<1>3. g \in [Nat \X Nat -> Nat]
  BY <1>1
<1>4. PICK h : IsRecursion(h, Nat, 0, g)
  <2>1. 0 \in Nat
    OBVIOUS
  <2> HIDE DEF g
  <2> QED
    BY <1>3, <2>1, NatRecursion
<1>5. ASSUME NEW k \in 1..Len(s) PROVE h[k] = 10 * h[k - 1] + f[k]
  <2>1. k - 1 \in Nat /\ (k - 1) + 1 = k
    OBVIOUS
  <2>2. h[k] = g[<<k - 1, h[k - 1]>>] /\ h[k - 1] \in Nat
    BY <1>4, <2>1 DEF IsRecursion
  <2> QED
    BY <2>1, <2>2
<1> HIDE DEF g
<1> DEFINE N == [i \in 0..Len(s) |-> h[i]]
<1>6. \A i \in 0..Len(s) : i # 0 => i \in 1..Len(s) /\ i - 1 \in 0..Len(s)
  OBVIOUS
<1>7. \A i \in 0..Len(s) : N[i] = IF i = 0 THEN 0 ELSE 10 * N[i - 1] + Numeral[s[i]]
  BY <1>2, <1>4, <1>5, <1>6 DEF IsRecursion
<1> QED
  BY <1>7 DEF IsValues

LEMMA NumberIsNat ==
  ASSUME NEW s \in Seq(Digits)
  PROVE  Number(s) \in Nat
<1> DEFINE N == CHOOSE N : IsValues(N, s)
<1>1. IsValues(N, s)
  BY ValuesExist
<1>2. Number(s) = N[Len(s)]
  BY DEF Number, IsValues
<1> HIDE DEF N
<1>3. /\ Len(s) \in Nat
      /\ N[0] = 0 /\ \A i \in 1..Len(s) : N[i] = 10 * N[i - 1] + Numeral[s[i]]
  BY <1>1 DEF IsValues
<1> DEFINE T == {n \in Nat : n <= Len(s) => N[n] \in Nat}
<1>4. Nat \subseteq T
  <2>1. 0 \in T
    BY <1>3
  <2>2. ASSUME NEW n \in Nat, n \in T PROVE n + 1 \in T
    <3>1. SUFFICES ASSUME n + 1 <= Len(s) PROVE N[n + 1] \in Nat
      OBVIOUS
    <3>2. n + 1 \in 1..Len(s) /\ (n + 1) - 1 = n /\ n <= Len(s)
      BY <1>3, <3>1
    <3>3. N[n + 1] = 10 * N[n] + Numeral[s[n + 1]] /\ N[n] \in Nat
      BY <1>3, <2>2, <3>2
    <3>4. Numeral[s[n + 1]] \in Nat
      BY <3>2, NumeralIsNat
    <3> QED
      BY <3>3, <3>4
  <2> HIDE DEF T
  <2> QED
    BY <2>1, <2>2, NatInductionOnSet
<1> QED
  BY <1>2, <1>3, <1>4

\* The digits of v, which may follow a sign.
DigitsOf(v) == IF v[1] = "-" THEN Tail(v) ELSE v

\* The number an integer stands for, and what reading it comes to: all of it.
LEMMA IntegerText ==
  ASSUME NEW v \in Texts, IsInteger(v)
  PROVE  LET f == AfterSign(v, 1)
         IN  /\ Len(v) \in Nat \ {0} /\ f \in 1..Len(v) /\ (f = 2 <=> v[1] = "-") /\ f \in {1, 2}
             /\ v[f] \in Digits
             /\ \A i \in f..Len(v) : v[i] \in Digits
             /\ SubSeq(v, f, Len(v)) = DigitsOf(v) /\ DigitsOf(v) \in Seq(Digits)
             /\ Number(DigitsOf(v)) \in Nat
             /\ ValueOf(v) = Signed(v[1] = "-", Number(DigitsOf(v)))
<1> DEFINE f == AfterSign(v, 1)
<1>1. Len(v) \in Nat /\ v \in Seq(Symbols)
  BY DEF Texts
<1>2. f \in {1, 2} /\ f <= Len(v) /\ (f = 2 <=> At(v, 1, "-"))
  BY DEF AfterSign, IsInteger
<1>3. Len(v) # 0 /\ (f = 2 <=> v[1] = "-")
  BY <1>1, <1>2 DEF At
<1>4. \A i \in f..Len(v) : v[i] \in Digits
  BY DEF IsInteger, AreDigits
<1> HIDE DEF f
<1>5. SubSeq(v, f, Len(v)) = DigitsOf(v)
  <2>1. CASE f = 2
    <3>1. SubSeq(v, 2, Len(v)) = Tail(v)
      BY <1>1, <1>3
    <3> QED
      BY <1>3, <2>1, <3>1 DEF DigitsOf
  <2>2. CASE f = 1
    <3>1. SubSeq(v, 1, Len(v)) = v
      BY <1>1, <1>3
    <3> QED
      BY <1>3, <2>2, <3>1 DEF DigitsOf
  <2> QED
    BY <1>2, <2>1, <2>2
<1>6. DigitsOf(v) \in Seq(Digits)
  <2>1. SubSeq(v, f, Len(v)) \in Seq(Digits)
    BY <1>1, <1>2, <1>4
  <2> QED
    BY <1>5, <2>1
<1>7. Number(DigitsOf(v)) \in Nat
  BY <1>6, NumberIsNat
<1>8. ValueOf(v) = Signed(v[1] = "-", Number(DigitsOf(v)))
  BY DEF ValueOf, Signed, DigitsOf
<1>9. f \in 1..Len(v) /\ v[f] \in Digits
  BY <1>1, <1>2, <1>4
<1> QED
  BY <1>1, <1>2, <1>3, <1>4, <1>5, <1>6, <1>7, <1>8, <1>9 DEF f

-----------------------------------------------------------------------------
(* What is read of a value that was found *)

LEMMA ValueStands ==
  ASSUME NEW t \in Texts, NEW k, NEW v \in Texts, NEW o, FoundAt(t, k, v, o), Len(v) # 0
  PROVE  /\ Len(t) \in Nat /\ Len(v) \in Nat \ {0} /\ o \in Nat /\ value_of(t, k) = o + 1
         /\ o + Len(v) + 1 <= Len(t) /\ t[o + Len(v) + 1] \in {Comma, Close}
         /\ \A i \in 1..Len(v) : t[o + i] = v[i]
         /\ \A c : At(t, o + 1, c) <=> v[1] = c
<1>1. Len(t) \in Nat /\ Len(v) \in Nat \ {0} /\ o \in Nat /\ value_of(t, k) = o + 1
  BY DEF FoundAt, Texts
<1>2. o + Len(v) + 1 <= Len(t) /\ t[o + Len(v) + 1] \in {Comma, Close}
  BY DEF FoundAt, At
<1>3. \A i \in 1..Len(v) : t[o + i] = v[i]
  BY DEF FoundAt, Stands
<1>4. 1 \in 1..Len(v) /\ o + 1 <= Len(t)
  BY <1>1, <1>2
<1> QED
  BY <1>1, <1>2, <1>3, <1>4 DEF At

\* What follows a value is no part of it.
LEMMA EndsAreNot ==
  ASSUME NEW c \in {Comma, Close}
  PROVE  c \notin Digits /\ c \notin Ink /\ c \notin {Quote, Space, Newline, "-", "+", ".", "e"}
<1>1. \A d \in Ink : c # d
  BY InkIsPlain
<1>2. Digits \subseteq Ink /\ {"-", "+", ".", "e"} \subseteq Ink
  BY DEF Digits, Ink
<1> QED
  BY <1>1, <1>2, Characters

\* Digits from f to the last symbol of v are passed over, and nothing else.
LEMMA PassesDigits ==
  ASSUME NEW t \in Texts, NEW o \in Nat, NEW f \in Nat \ {0}, NEW e \in Nat, f <= e + 1,
         o + e + 1 <= Len(t),
         \A i \in f..e : t[o + i] \in Digits, t[o + e + 1] \notin Digits
  PROVE  Past(t, o + f, Digits) = o + e + 1
<1>1. o + f \in Nat \ {0} /\ o + e + 1 \in (o + f)..(Len(t) + 1)
  BY DEF Texts
<1>2. ASSUME NEW i \in (o + f)..((o + e + 1) - 1) PROVE t[i] \in Digits
  <2>1. i - o \in f..e /\ o + (i - o) = i
    OBVIOUS
  <2> QED
    BY <2>1
<1> QED
  BY <1>1, <1>2, PastIs

LEMMA StringRead ==
  ASSUME NEW t \in Texts, NEW k, NEW v \in Texts, NEW o, FoundAt(t, k, v, o), Len(v) # 0
  PROVE  /\ v[1] # Quote => json_parse_string(t, k) = << >>
         /\ \A s \in Texts : v = Quoted(s) => json_parse_string(t, k) = s
<1>1. /\ Len(t) \in Nat /\ Len(v) \in Nat \ {0} /\ o \in Nat /\ value_of(t, k) = o + 1
      /\ \A i \in 1..Len(v) : t[o + i] = v[i]
      /\ o + Len(v) + 1 <= Len(t)
      /\ \A c : At(t, o + 1, c) <=> v[1] = c
  BY ValueStands
<1>2. json_parse_string(t, k) = parse_string_at(t, o + 1)
  BY <1>1 DEF json_parse_string
<1>3. ASSUME v[1] # Quote PROVE json_parse_string(t, k) = << >>
  BY <1>1, <1>2, <1>3 DEF parse_string_at
<1>4. ASSUME NEW s \in Texts, v = Quoted(s) PROVE json_parse_string(t, k) = s
  <2> DEFINE e == ClientEscape(s)
  <2>1. /\ e \in Texts /\ Len(v) = Len(e) + 2 /\ v[1] = Quote /\ v[Len(e) + 2] = Quote
        /\ Stands(v, 1, e)
    BY <1>4, QuotedText
  <2> HIDE DEF e
  <2>2. Len(e) \in Nat /\ Stands(t, o, v)
    BY <2>1 DEF Texts, FoundAt
  <2>3. Stands(t, o + 1, e)
    BY <1>1, <2>1, <2>2, StandsWithin DEF Texts
  <2>4. At(t, (o + 1) + Len(e) + 1, Quote)
    <3>1. Len(e) + 2 \in 1..Len(v) /\ (o + 1) + Len(e) + 1 = o + (Len(e) + 2)
      BY <1>1, <2>1, <2>2
    <3>2. t[o + (Len(e) + 2)] = Quote /\ o + (Len(e) + 2) <= Len(t)
      BY <1>1, <2>1, <2>2, <3>1
    <3> QED
      BY <3>1, <3>2 DEF At
  <2>5. Rest(t)[(o + 1) + 1] = [closed |-> TRUE, chars |-> s]
    <3>1. o + 1 \in Nat
      BY <1>1
    <3> QED
      BY <2>3, <2>4, <3>1, ReadsString DEF e
  <2> QED
    BY <1>1, <1>2, <2>1, <2>5 DEF parse_string_at
<1> QED
  BY <1>3, <1>4

\* The cases of json_parse_int when the key was found.
LEMMA IntCases ==
  ASSUME NEW p \in Nat \ {0}, NEW x \in Nat, NEW y \in Nat, NEW n \in Nat, NEW m \in Nat,
         NEW a, NEW b, NEW c, y >= x
  PROVE  (CASE p = 0 -> a
            [] p > 0 /\ y = x -> a
            [] p > 0 /\ y > x /\ n <= m -> b
            [] p > 0 /\ y > x /\ n > m -> c)
           = IF y = x THEN a ELSE IF n <= m THEN b ELSE c
OBVIOUS

LEMMA IntRead ==
  ASSUME NEW t \in Texts, NEW k, NEW v \in Texts, NEW o, FoundAt(t, k, v, o), Len(v) # 0, NEW d
  PROVE  /\ v[1] \notin Digits \cup {"-"} => json_parse_int(t, k, d) = {d}
         /\ IsInteger(v) =>
              json_parse_int(t, k, d) =
                IF Number(DigitsOf(v)) <= IntMax
                THEN {Signed(v[1] = "-", Number(DigitsOf(v)))} ELSE (-IntMax - 1)..IntMax
<1>1. /\ Len(t) \in Nat /\ Len(v) \in Nat \ {0} /\ o \in Nat /\ value_of(t, k) = o + 1
      /\ o + Len(v) + 1 <= Len(t) /\ t[o + Len(v) + 1] \notin Digits
      /\ \A i \in 1..Len(v) : t[o + i] = v[i]
      /\ \A c : At(t, o + 1, c) <=> v[1] = c
  BY SMTT(30), ValueStands, EndsAreNot
<1> DEFINE neg == At(t, o + 1, "-")
           first == IF neg THEN (o + 1) + 1 ELSE o + 1
           end == Past(t, first, Digits)
           n == Number(SubSeq(t, first, end - 1))
           p == value_of(t, k)
<1>2. json_parse_int(t, k, d) =
        CASE p = 0 -> {d}
          [] p > 0 /\ end = first -> {d}
          [] p > 0 /\ end > first /\ n <= IntMax -> {Signed(neg, n)}
          [] p > 0 /\ end > first /\ n > IntMax -> (-IntMax - 1)..IntMax
  BY <1>1 DEF json_parse_int
<1>3. neg <=> v[1] = "-"
  BY <1>1
<1>4. ASSUME v[1] \notin Digits \cup {"-"} PROVE json_parse_int(t, k, d) = {d}
  <2>1. first = o + 1
    BY <1>3, <1>4
  <2>2. Past(t, o + 1, Digits) = o + 1
    <3>1. /\ o + 1 \in Nat \ {0} /\ o + 1 \in (o + 1)..(Len(t) + 1)
          /\ \A i \in (o + 1)..((o + 1) - 1) : FALSE
      BY <1>1
    <3>2. t[o + 1] \notin Digits
      BY <1>1, <1>4
    <3> QED
      BY <3>1, <3>2, PastIs
  <2>3. end = first
    BY <2>1, <2>2
  <2>4. p \in Nat \ {0} /\ end \in Nat /\ first \in Nat /\ IntMax \in Nat
    BY <1>1, <2>1, <2>3, JsonConstants
  <2>5. n \in Nat
    <3>1. SubSeq(t, first, end - 1) = << >>
      <4>1. first \in Int /\ end - 1 \in Int /\ end - 1 < first
        BY <2>3, <2>4
      <4> HIDE DEF end, first
      <4> QED
        BY <4>1, SubSeqEmpty
    <3>2. << >> \in Seq(Digits)
      OBVIOUS
    <3> QED
      BY <3>1, <3>2, NumberIsNat
  <2> DEFINE a == {d}
             b == {Signed(neg, n)}
             c == (-IntMax - 1)..IntMax
  <2> HIDE DEF end, first, n, neg, p, a, b, c
  <2>6. json_parse_int(t, k, d) = IF end = first THEN a ELSE IF n <= IntMax THEN b ELSE c
    <3>1. json_parse_int(t, k, d) =
            CASE p = 0 -> a
              [] p > 0 /\ end = first -> a
              [] p > 0 /\ end > first /\ n <= IntMax -> b
              [] p > 0 /\ end > first /\ n > IntMax -> c
      BY <1>2 DEF a, b, c
    <3>2. end >= first
      BY <2>3, <2>4
    <3> QED
      BY <2>4, <2>5, <3>1, <3>2, IntCases
  <2> QED
    BY <2>3, <2>6 DEF a
<1>5. ASSUME IsInteger(v)
      PROVE  json_parse_int(t, k, d) =
               IF Number(DigitsOf(v)) <= IntMax
               THEN {Signed(v[1] = "-", Number(DigitsOf(v)))} ELSE (-IntMax - 1)..IntMax
  <2> DEFINE f == AfterSign(v, 1)
  <2>1. /\ f \in 1..Len(v) /\ (f = 2 <=> v[1] = "-") /\ f \in {1, 2}
        /\ \A i \in f..Len(v) : v[i] \in Digits
        /\ SubSeq(v, f, Len(v)) = DigitsOf(v) /\ Number(DigitsOf(v)) \in Nat
    BY <1>5, IntegerText
  <2> HIDE DEF f
  <2>2. first = o + f
    BY <1>1, <1>3, <2>1
  <2>3. Past(t, o + f, Digits) = o + Len(v) + 1
    <3>1. \A i \in f..Len(v) : t[o + i] \in Digits
      BY SMTT(30), <1>1, <2>1
    <3> DEFINE e == Len(v)
    <3>2. f \in Nat \ {0} /\ e \in Nat /\ f <= e + 1 /\ o \in Nat
      BY <1>1, <2>1
    <3>3. o + e + 1 <= Len(t) /\ t[o + e + 1] \notin Digits
      BY <1>1
    <3>4. \A i \in f..e : t[o + i] \in Digits
      BY <3>1
    <3> HIDE DEF e
    <3>5. Past(t, o + f, Digits) = o + e + 1
      BY ZenonT(30), <3>2, <3>3, <3>4, PassesDigits
    <3> QED
      BY <3>5 DEF e
  <2>4. end = o + Len(v) + 1
    BY <2>2, <2>3
  <2>5. SubSeq(t, o + f, o + Len(v)) = SubSeq(v, f, Len(v))
    <3> DEFINE a == SubSeq(t, o + f, o + Len(v))
               b == SubSeq(v, f, Len(v))
    <3>1. t \in Seq(Symbols) /\ v \in Seq(Symbols)
      BY DEF Texts
    <3>2. a \in Seq(Symbols) /\ Len(a) = Len(v) - f + 1
      BY <1>1, <2>1, <3>1
    <3>3. b \in Seq(Symbols) /\ Len(b) = Len(v) - f + 1
      <4>1. \A i \in f..Len(v) : v[i] \in Symbols
        BY <1>1, <2>1, <3>1
      <4>2. f <= Len(v) /\ f \in Nat /\ Len(v) \in Nat
        BY <1>1, <2>1
      <4> QED
        BY <3>1, <4>1, <4>2, SubSeqProperties
    <3>4. ASSUME NEW i \in 1..(Len(v) - f + 1) PROVE a[i] = b[i]
      <4>1. a[i] = t[(o + f) + i - 1]
        BY <1>1, <2>1, <3>1
      <4>2. b[i] = v[f + i - 1]
        BY <1>1, <2>1, <3>1
      <4>3. f + i - 1 \in 1..Len(v) /\ o + (f + i - 1) = (o + f) + i - 1
        BY <1>1, <2>1
      <4>4. t[o + (f + i - 1)] = v[f + i - 1]
        BY <1>1, <4>3
      <4> QED
        BY <4>1, <4>2, <4>3, <4>4
    <3> HIDE DEF a, b
    <3>5. a = b
      BY <3>2, <3>3, <3>4, SeqEqual
    <3> QED
      BY <3>5 DEF a, b
  <2>6. n = Number(DigitsOf(v))
    <3>1. end - 1 = o + Len(v)
      BY <1>1, <2>4
    <3> QED
      BY <2>1, <2>2, <2>5, <3>1
  <2>7. p \in Nat /\ p > 0 /\ end \in Nat /\ first \in Nat /\ end > first /\ end # first
    BY <1>1, <2>1, <2>2, <2>4
  <2>8. IntMax \in Nat /\ n \in Nat
    BY <2>1, <2>6, JsonConstants
  <2>9. json_parse_int(t, k, d) = IF n <= IntMax THEN {Signed(neg, n)} ELSE (-IntMax - 1)..IntMax
    <3> DEFINE a == {d}
               b == {Signed(neg, n)}
               c == (-IntMax - 1)..IntMax
    <3> HIDE DEF end, first, n, neg, p, a, b, c
    <3>1. json_parse_int(t, k, d) =
            CASE p = 0 -> a
              [] p > 0 /\ end = first -> a
              [] p > 0 /\ end > first /\ n <= IntMax -> b
              [] p > 0 /\ end > first /\ n > IntMax -> c
      BY <1>2 DEF a, b, c
    <3>2. p \in Nat \ {0} /\ end >= first
      BY <2>7
    <3>3. json_parse_int(t, k, d) = IF end = first THEN a ELSE IF n <= IntMax THEN b ELSE c
      BY <2>7, <2>8, <3>1, <3>2, IntCases
    <3> QED
      BY <2>7, <3>3 DEF b, c
  <2> DEFINE w == Number(DigitsOf(v))
             g == v[1] = "-"
  <2>10. n = w /\ (neg <=> g)
    BY <1>3, <2>6
  <2> HIDE DEF end, first, n, neg, p, w, g
  <2>11. json_parse_int(t, k, d) = IF w <= IntMax THEN {Signed(neg, w)} ELSE (-IntMax - 1)..IntMax
    BY <2>9, <2>10
  <2>12. Signed(neg, w) = Signed(g, w)
    BY <2>10 DEF Signed
  <2> QED
    BY <2>11, <2>12 DEF w, g
<1> QED
  BY <1>4, <1>5

LEMMA BoolRead ==
  ASSUME NEW t \in Texts, NEW k, NEW v \in Texts, NEW o, FoundAt(t, k, v, o), Len(v) # 0
  PROVE  json_parse_bool(t, k, FALSE) <=> v[1] = "true"
<1>1. o \in Nat /\ value_of(t, k) = o + 1 /\ \A c : At(t, o + 1, c) <=> v[1] = c
  BY ValueStands
<1>2. o + 1 # 0
  BY <1>1
<1> QED
  BY <1>1, <1>2 DEF json_parse_bool

\* Of a key that is not there the default is taken.
LEMMA NothingRead ==
  ASSUME NEW t, NEW k, value_of(t, k) = 0, NEW d
  PROVE  /\ json_parse_string(t, k) = << >> /\ json_parse_int(t, k, d) = {d}
         /\ json_parse_float(t, k) = << >> /\ json_parse_bool(t, k, FALSE) = FALSE
<1>1. json_parse_int(t, k, d) = {d}
  <2> DEFINE p == value_of(t, k)
             neg == At(t, p, "-")
             first == IF neg THEN p + 1 ELSE p
             end == Past(t, first, Digits)
             n == Number(SubSeq(t, first, end - 1))
  <2>1. json_parse_int(t, k, d) =
          CASE p = 0 -> {d}
            [] p > 0 /\ end = first -> {d}
            [] p > 0 /\ end > first /\ n <= IntMax -> {Signed(neg, n)}
            [] p > 0 /\ end > first /\ n > IntMax -> (-IntMax - 1)..IntMax
    BY DEF json_parse_int
  <2>2. p = 0
    OBVIOUS
  <2> HIDE DEF p, end, first, n, neg
  <2> QED
    BY <2>1, <2>2
<1> QED
  BY <1>1 DEF json_parse_string, json_parse_float, json_parse_bool

\* The parts of a number, and where they end.
LEMMA NumberParts ==
  ASSUME NEW v \in Texts, IsNumber(v)
  PROVE  \E whole, n \in 1..Len(v) :
           LET f == AfterSign(v, 1)
           IN  /\ f \in {1, 2} /\ f <= whole /\ (f = 2 <=> v[1] = "-")
               /\ \A i \in f..whole : v[i] \in Digits
               /\ n = whole \/ (/\ n > whole /\ v[whole + 1] = "."
                                /\ \A i \in (whole + 2)..n : v[i] \in Digits)
               /\ n = Len(v) \/ (/\ v[n + 1] = "e"
                                 /\ \E d \in {n + 2, n + 3} :
                                      /\ d <= Len(v) /\ \A i \in d..Len(v) : v[i] \in Digits
                                      /\ d = n + 3 => v[n + 2] \in {"-", "+"})
<1> DEFINE f == AfterSign(v, 1)
<1>1. PICK whole \in 1..Len(v), n \in 1..Len(v) :
        /\ f <= whole /\ AreDigits(v, f, whole)
        /\ n = whole \/ (n > whole /\ v[whole + 1] = "." /\ AreDigits(v, whole + 2, n))
        /\ IsExponent(v, n)
  BY DEF IsNumber
<1>2. f \in {1, 2} /\ (f = 2 <=> v[1] = "-")
  <2>1. 1 <= Len(v)
    BY <1>1 DEF Texts
  <2> QED
    BY <2>1 DEF AfterSign, At
<1> HIDE DEF f
<1> WITNESS whole \in 1..Len(v), n \in 1..Len(v)
<1> QED
  BY <1>1, <1>2 DEF AreDigits, IsExponent, f

\* A number starts with a digit or a sign.
LEMMA NumberStarts ==
  ASSUME NEW v \in Texts, IsNumber(v)
  PROVE  Len(v) # 0 /\ v[1] \in Digits \cup {"-"}
<1>1. PICK whole \in 1..Len(v), n \in 1..Len(v) :
        LET f == AfterSign(v, 1)
        IN  /\ f \in {1, 2} /\ f <= whole /\ (f = 2 <=> v[1] = "-")
            /\ \A i \in f..whole : v[i] \in Digits
  BY NumberParts
<1> DEFINE f == AfterSign(v, 1)
<1>2. /\ f \in {1, 2} /\ f <= whole /\ (f = 2 <=> v[1] = "-")
      /\ \A i \in f..whole : v[i] \in Digits
  BY <1>1
<1> HIDE DEF f
<1> QED
  BY <1>2

LEMMA FloatOf ==
  ASSUME NEW t, NEW k, NEW p, value_of(t, k) = p, p # 0, NEW a, NEW w, NEW m,
         a = IF At(t, p, "-") THEN p + 1 ELSE p, w = Past(t, a, Digits),
         m = IF At(t, w, ".") THEN Past(t, w + 1, Digits) ELSE w
  PROVE  json_parse_float(t, k) = SubSeq(t, p, Exponent(t, m) - 1)
BY DEF json_parse_float

LEMMA FloatRead ==
  ASSUME NEW t \in Texts, NEW k, NEW v \in Texts, NEW o, FoundAt(t, k, v, o), Len(v) # 0
  PROVE  /\ v[1] \notin Digits \cup {"-", ".", "e"} => json_parse_float(t, k) = << >>
         /\ IsNumber(v) => json_parse_float(t, k) = v
<1>1. /\ Len(t) \in Nat /\ Len(v) \in Nat \ {0} /\ o \in Nat /\ value_of(t, k) = o + 1
      /\ o + Len(v) + 1 <= Len(t) /\ t[o + Len(v) + 1] \notin Digits \cup {".", "e"}
      /\ \A i \in 1..Len(v) : t[o + i] = v[i]
      /\ \A c : At(t, o + 1, c) <=> v[1] = c
  <2>1. \A c \in {Comma, Close} : c \notin Digits \cup {".", "e"}
    BY EndsAreNot
  <2>2. t[o + Len(v) + 1] \in {Comma, Close}
    BY ValueStands
  <2>3. t[o + Len(v) + 1] \notin Digits \cup {".", "e"}
    BY <2>1, <2>2
  <2> QED
    BY <2>3, ValueStands
<1>2. ASSUME v[1] \notin Digits \cup {"-", ".", "e"} PROVE json_parse_float(t, k) = << >>
  <2> DEFINE p == o + 1
  <2>1. ~At(t, p, "-") /\ ~At(t, p, ".") /\ ~At(t, p, "e") /\ p \in Nat \ {0} /\ value_of(t, k) = p
    BY <1>1, <1>2
  <2>2. Past(t, p, Digits) = p
    <3>1. p \in p..(Len(t) + 1) /\ \A i \in p..(p - 1) : FALSE
      BY <1>1
    <3>2. t[p] \notin Digits
      BY <1>1, <1>2
    <3> HIDE DEF p
    <3> QED
      BY <2>1, <3>1, <3>2, PastIs
  <2> HIDE DEF p
  <2>3. Exponent(t, p) = p
    BY <2>1 DEF Exponent
  <2>4. json_parse_float(t, k) = SubSeq(t, p, Exponent(t, p) - 1)
    BY <2>1, <2>2, FloatOf
  <2>5. p \in Int /\ p - 1 \in Int /\ p - 1 < p
    BY <2>1
  <2> QED
    BY <2>3, <2>4, <2>5, SubSeqEmpty
<1>3. ASSUME IsNumber(v) PROVE json_parse_float(t, k) = v
  <2> DEFINE f == AfterSign(v, 1)
             L == Len(v)
  <2>1. PICK whole \in 1..L, n \in 1..L :
           /\ f \in {1, 2} /\ f <= whole /\ (f = 2 <=> v[1] = "-")
           /\ \A i \in f..whole : v[i] \in Digits
           /\ n = whole \/ (/\ n > whole /\ v[whole + 1] = "."
                            /\ \A i \in (whole + 2)..n : v[i] \in Digits)
           /\ n = L \/ (/\ v[n + 1] = "e"
                        /\ \E d \in {n + 2, n + 3} :
                             /\ d <= L /\ \A i \in d..L : v[i] \in Digits
                             /\ d = n + 3 => v[n + 2] \in {"-", "+"})
    BY <1>3, NumberParts
  <2>2. /\ L \in Nat \ {0} /\ whole \in Nat /\ n \in Nat /\ f \in Nat \ {0} /\ whole <= n
        /\ o \in Nat /\ o + L + 1 <= Len(t) /\ t[o + L + 1] \notin Digits \cup {".", "e"}
        /\ \A i \in 1..L : t[o + i] = v[i]
    BY <1>1, <2>1
  <2>3. "." \notin Digits /\ "e" \notin Digits /\ "." # "e" /\ "-" \notin Digits /\ "+" \notin Digits
    BY DEF Digits
  <2> HIDE DEF f, L
  <2>4. t[o + n + 1] \notin Digits /\ t[o + n + 1] # "." /\ (t[o + n + 1] = "e" <=> n # L)
    <3>1. CASE n = L
      BY <2>2, <3>1
    <3>2. CASE n # L
      <4>1. n + 1 \in 1..L /\ o + (n + 1) = o + n + 1
        BY <2>1, <2>2, <3>2
      <4>2. v[n + 1] = "e"
        BY <2>1, <3>2
      <4>3. t[o + n + 1] = "e"
        BY <2>2, <4>1, <4>2
      <4> QED
        BY <2>3, <3>2, <4>3
    <3> QED
      BY <3>1, <3>2
  <2>5. t[o + whole + 1] \notin Digits /\ (t[o + whole + 1] = "." <=> n # whole)
    <3>1. CASE n = whole
      BY <2>4, <3>1
    <3>2. CASE n # whole
      <4>1. whole + 1 \in 1..L /\ o + (whole + 1) = o + whole + 1
        BY <2>1, <2>2, <3>2
      <4>2. v[whole + 1] = "."
        BY <2>1, <3>2
      <4>3. t[o + whole + 1] = "."
        BY <2>2, <4>1, <4>2
      <4> QED
        BY <2>3, <3>2, <4>3
    <3> QED
      BY <3>1, <3>2
  <2>6. Past(t, o + f, Digits) = o + whole + 1
    <3>1. f <= whole + 1 /\ o + whole + 1 <= Len(t)
      BY <2>1, <2>2
    <3>2. \A i \in f..whole : t[o + i] \in Digits
      <4>1. \A i \in f..whole : i \in 1..L
        BY <2>1, <2>2
      <4> QED
        BY <2>1, <2>2, <4>1
    <3>3. o \in Nat /\ whole \in Nat /\ f \in Nat \ {0} /\ t[o + whole + 1] \notin Digits
      BY <2>2, <2>5
    <3> QED
      BY ZenonT(30), <3>1, <3>2, <3>3, PassesDigits
  <2>7. n # whole => Past(t, o + (whole + 2), Digits) = o + n + 1
    <3>1. SUFFICES ASSUME n # whole PROVE Past(t, o + (whole + 2), Digits) = o + n + 1
      OBVIOUS
    <3>2. whole + 2 \in Nat \ {0} /\ whole + 2 <= n + 1 /\ o + n + 1 <= Len(t)
      BY <2>1, <2>2, <3>1
    <3>3. \A i \in (whole + 2)..n : t[o + i] \in Digits
      <4>1. \A i \in (whole + 2)..n : i \in 1..L
        BY <2>1, <2>2
      <4> QED
        BY <2>1, <2>2, <3>1, <4>1
    <3> DEFINE g == whole + 2
    <3> HIDE DEF g
    <3>4. /\ g \in Nat \ {0} /\ g <= n + 1 /\ o + n + 1 <= Len(t) /\ o \in Nat /\ n \in Nat
          /\ t[o + n + 1] \notin Digits /\ \A i \in g..n : t[o + i] \in Digits
      BY <2>2, <2>4, <3>2, <3>3 DEF g
    <3>5. Past(t, o + g, Digits) = o + n + 1
      BY ZenonT(30), <3>4, PassesDigits
    <3> QED
      BY <3>5 DEF g
  <2>8. Exponent(t, o + n + 1) = o + L + 1
    <3>1. CASE n = L
      BY <2>4, <3>1 DEF Exponent, At
    <3>2. CASE n # L
      <4>1. PICK d \in {n + 2, n + 3} :
              /\ d <= L /\ \A i \in d..L : v[i] \in Digits
              /\ d = n + 3 => v[n + 2] \in {"-", "+"}
        BY <2>1, <3>2
      <4>2. n + 2 \in 1..L /\ o + (n + 2) = o + n + 2 /\ o + n + 2 <= Len(t) /\ o + n + 1 <= Len(t)
        BY <2>1, <2>2, <4>1
      <4>3. t[o + n + 2] = v[n + 2]
        BY <2>2, <4>2
      <4>4. Past(t, o + d, Digits) = o + L + 1
        <5>1. d \in Nat \ {0} /\ d <= L + 1
          BY <2>2, <4>1
        <5>2. \A i \in d..L : t[o + i] \in Digits
          <6>1. \A i \in d..L : i \in 1..L
            BY <2>2, <5>1
          <6> QED
            BY <2>2, <4>1, <6>1
        <5>3. L \in Nat /\ o \in Nat /\ o + L + 1 <= Len(t) /\ t[o + L + 1] \notin Digits
          BY <2>2
        <5> QED
          BY ZenonT(30), <5>1, <5>2, <5>3, PassesDigits
      <4>5. At(t, o + n + 1, "e")
        BY <2>4, <3>2, <4>2 DEF At
      <4>6. (o + n + 1) + 1 = o + n + 2 /\ (o + n + 1) + 2 = o + n + 3
        BY <2>2
      <4>7. CASE d = n + 2
        <5>1. v[n + 2] \in Digits
          BY <4>1, <4>2, <4>7
        <5>2. ~At(t, o + n + 2, "-") /\ ~At(t, o + n + 2, "+")
          BY <2>3, <4>3, <5>1 DEF At
        <5>3. o + d = o + n + 2
          BY <2>2, <4>7
        <5>4. Past(t, o + n + 2, Digits) = o + L + 1
          BY <4>4, <5>3
        <5>5. Exponent(t, o + n + 1) = Past(t, o + n + 2, Digits)
          BY <4>5, <4>6, <5>2 DEF Exponent
        <5> QED
          BY <5>4, <5>5
      <4>8. CASE d # n + 2
        <5>1. d = n + 3 /\ v[n + 2] \in {"-", "+"}
          BY <2>2, <4>1, <4>8
        <5>2. At(t, o + n + 2, "-") \/ At(t, o + n + 2, "+")
          BY <4>2, <4>3, <5>1 DEF At
        <5>3. o + d = o + n + 3
          BY <2>2, <5>1
        <5>4. Past(t, o + n + 3, Digits) = o + L + 1
          BY <4>4, <5>3
        <5>5. Exponent(t, o + n + 1) = Past(t, o + n + 3, Digits)
          BY <4>5, <4>6, <5>2 DEF Exponent
        <5> QED
          BY <5>4, <5>5
      <4> QED
        BY <4>7, <4>8
    <3> QED
      BY <3>1, <3>2
  <2>9. json_parse_float(t, k) = SubSeq(t, o + 1, Exponent(t, o + n + 1) - 1)
    <3> DEFINE p == o + 1
               a == o + f
               w == o + whole + 1
               m == o + n + 1
    <3>1. a = IF At(t, p, "-") THEN p + 1 ELSE p
      BY <1>1, <2>1
    <3>2. w = Past(t, a, Digits)
      BY <2>6
    <3>3. m = IF At(t, w, ".") THEN Past(t, w + 1, Digits) ELSE w
      <4>1. At(t, w, ".") <=> n # whole
        <5>1. w <= Len(t)
          BY <2>2
        <5> QED
          BY <2>5, <5>1 DEF At
      <4>2. w + 1 = o + (whole + 2)
        BY <2>2
      <4>3. n # whole => m = Past(t, w + 1, Digits)
        BY <2>7, <4>2
      <4>4. n = whole => m = w
        OBVIOUS
      <4> HIDE DEF m, w
      <4> QED
        BY <4>1, <4>3, <4>4
    <3>4. value_of(t, k) = p /\ p # 0
      BY <1>1
    <3> HIDE DEF p, a, w, m
    <3>5. json_parse_float(t, k) = SubSeq(t, p, Exponent(t, m) - 1)
      BY <3>1, <3>2, <3>3, <3>4, FloatOf
    <3> QED
      BY <3>5 DEF p, m
  <2>10. (o + L + 1) - 1 = o + L
    BY <2>2
  <2>11. SubSeq(t, o + 1, o + L) = v
    BY <2>2, PieceIs DEF L, FoundAt
  <2> QED
    BY <2>8, <2>9, <2>10, <2>11
<1> QED
  BY <1>2, <1>3

-----------------------------------------------------------------------------
(* What is written, and where it is found *)

\* The members are some that may be written, and no two have one key.
MembersTyped ==
  /\ kind \in DOMAIN Members
  /\ members \in Seq(Members[kind])
  /\ \A i, j \in 1..Len(members) : members[i].key = members[j].key => i = j

\* The text of a value by the kind of the member.
LEMMA ValueShapes ==
  ASSUME NEW m, IsMember(m)
  PROVE  /\ ValueText(m) \in Texts /\ Len(ValueText(m)) # 0
         /\ ValueText(m)[1] \notin {Space, Newline}
         /\ \/ /\ m.kind = "string" /\ m.chars \in Texts
               /\ ValueText(m) = Quoted(m.chars) /\ ValueText(m)[1] = Quote
            \/ /\ m.kind = "plain" /\ m.chars \in Texts /\ IsPlain(m.key, m.chars)
               /\ ValueText(m) = m.chars /\ ValueText(m)[1] \in Ink
               /\ \A i \in 1..Len(m.chars) : m.chars[i] \in Ink
            \/ m.kind = "list" /\ m.key # "model_type" /\ ValueText(m)[1] = "["
<1> DEFINE v == ValueText(m)
<1>1. v \in Texts /\ Len(v) # 0 /\ v[1] \in {Quote, "["} \cup Ink
  BY ValueTexts
<1>2. v[1] \notin {Space, Newline}
  <2>1. \A c \in Ink : c \notin {Space, Newline}
    BY InkIsPlain
  <2>2. \A c \in {Quote, "["} : c \notin {Space, Newline}
    BY Characters
  <2> HIDE DEF v
  <2> QED
    BY <1>1, <2>1, <2>2
<1>3. CASE m.kind = "string"
  <2>1. m.chars \in Texts /\ v = Quoted(m.chars)
    BY <1>3 DEF IsMember, ValueText, Texts
  <2>2. Quoted(m.chars)[1] = Quote
    BY <2>1, QuotedText
  <2> HIDE DEF v
  <2> QED
    BY <1>1, <1>2, <1>3, <2>1, <2>2 DEF v
<1>4. CASE m.kind = "plain"
  <2>1. m.chars \in Texts /\ IsPlain(m.key, m.chars) /\ v = m.chars
    BY <1>4 DEF IsMember, ValueText, Texts
  <2>2. Len(m.chars) \in Nat \ {0} /\ \A i \in 1..Len(m.chars) : m.chars[i] \in Ink
    BY <2>1, PlainSymbols
  <2>3. m.chars[1] \in Ink
    BY <2>2
  <2> HIDE DEF v
  <2> QED
    BY <1>1, <1>2, <1>4, <2>1, <2>2, <2>3 DEF v
<1>5. CASE m.kind = "list"
  <2>1. m.list \in Seq(Seq(Nested)) /\ m.key # "model_type"
    BY <1>5 DEF IsMember, Nested, Texts
  <2>2. v = <<"[">> \o Separated([i \in DOMAIN m.list |-> MessageText(m.list[i])]) \o <<"]">>
    BY <1>5 DEF ValueText
  <2>3. v[1] = "["
    BY <2>1, <2>2, ListKeys
  <2> HIDE DEF v
  <2> QED
    BY <1>1, <1>2, <1>5, <2>1, <2>3 DEF v
<1> QED
  BY <1>3, <1>4, <1>5 DEF IsMember

\* No member has the key k, and it is not found.
Absent(k) == value_of(Body, k) = 0 /\ \A sort : Written(k, sort) = {}

\* m is the member that has the key, and its value is found.
Present(k, m) ==
  /\ IsMember(m) /\ m.key = k
  /\ \E o : FoundAt(Body, k, ValueText(m), o)
  /\ \A sort : Written(k, sort) = IF m.kind = sort THEN {m} ELSE {}

LEMMA FieldIsFound ==
  ASSUME MembersTyped, NEW k \in Fields
  PROVE  Body \in Texts /\ (Absent(k) \/ \E m : Present(k, m))
<1> DEFINE n == Len(members)
           names == [i \in DOMAIN members |-> members[i].key]
           texts == [i \in DOMAIN members |-> ValueText(members[i])]
<1>1. n \in Nat /\ DOMAIN members = 1..n /\ \A i \in 1..n : members[i] \in Members[kind]
  BY DEF MembersTyped
<1>2. \A i \in 1..n : IsMember(members[i])
  BY <1>1, MembersAssumption DEF MembersTyped
<1>3. names \in Seq(Keys) /\ Len(names) = n /\ \A i \in 1..n : names[i] = members[i].key
  <2>1. \A i \in 1..n : members[i].key \in Keys
    BY <1>2 DEF IsMember
  <2>2. names = [i \in 1..n |-> members[i].key]
    BY <1>1
  <2> HIDE DEF names
  <2> QED
    BY <1>1, <2>1, <2>2
<1>4. /\ texts \in Seq(Texts) /\ Len(texts) = n
      /\ \A i \in 1..n : texts[i] = ValueText(members[i])
  <2>1. \A i \in 1..n : ValueText(members[i]) \in Texts
    BY <1>2, ValueShapes
  <2>2. texts = [i \in 1..n |-> ValueText(members[i])]
    BY <1>1
  <2> HIDE DEF texts
  <2> QED
    BY <1>1, <2>1, <2>2
<1>5. Body = Object(names, texts)
  BY DEF Body
<1> HIDE DEF names, texts
<1>6. PICK O : IsObject(Body, names, texts, O)
  BY <1>3, <1>4, <1>5, ObjectText
<1>7. Body \in Texts
  BY <1>6 DEF IsObject
<1>8. \A sort : Written(k, sort) = {m \in {members[i] : i \in 1..n} : m.key = k /\ m.kind = sort}
  BY <1>1 DEF Written, ToSet
<1>9. \A i \in 1..n : Len(texts[i]) # 0 /\ texts[i][1] \notin {Space, Newline}
  BY <1>2, <1>4, ValueShapes
<1>10. k \in Keys => \A i \in 1..n : KeysAt(texts[i], k, {})
  BY <1>2, <1>4, ValueTexts
<1>11. CASE \A i \in 1..n : members[i].key # k
  <2>1. value_of(Body, k) = 0
    <3>1. CASE k \in Keys
      <4>1. \A i \in 1..Len(names) : KeysAt(texts[i], k, {})
        BY <1>3, <1>10, <3>1
      <4>2. \A i \in 1..Len(names) : Len(texts[i]) # 0 /\ texts[i][1] \notin {Space, Newline}
        BY <1>3, <1>9
      <4>3. \A i \in 1..Len(names) : names[i] # k
        BY <1>3, <1>11
      <4>4. Len(texts) = Len(names)
        BY <1>3, <1>4
      <4> QED
        BY <1>3, <1>4, <1>6, <3>1, <4>1, <4>2, <4>3, <4>4, FindsKey
    <3>2. CASE k \notin Keys
      <4>1. k \notin Symbols
        BY <3>2, FieldIsPlain
      <4>2. Occurrences(Body, k) = {}
        <5>1. ASSUME NEW p \in 1..(Len(Body) - 2) PROVE Body[p + 1] # k
          <6>1. Len(Body) \in Nat /\ \A i \in 1..Len(Body) : Body[i] \in Symbols
            BY <1>7 DEF Texts
          <6>2. p + 1 \in 1..Len(Body)
            BY <6>1
          <6> QED
            BY <4>1, <6>1, <6>2
        <5> QED
          BY <5>1 DEF Occurrences
      <4>3. {q \in Occurrences(Body, k) : AsKey(Body, q)} = {}
        BY <4>2
      <4> QED
        BY <4>3 DEF value_of, find_key, Least
    <3> QED
      BY <3>1, <3>2
  <2>2. \A sort : Written(k, sort) = {}
    BY <1>8, <1>11
  <2> QED
    BY <1>7, <2>1, <2>2 DEF Absent
<1>12. CASE \E i \in 1..n : members[i].key = k
  <2>1. PICK i \in 1..n : members[i].key = k
    BY <1>12
  <2> DEFINE m == members[i]
  <2>2. \A j \in 1..n : members[j].key = k => j = i
    BY <2>1 DEF MembersTyped
  <2>3. k \in Keys
    BY <1>2, <2>1 DEF IsMember
  <2>4. \E o : FoundAt(Body, k, texts[i], o)
    <3>1. \A j \in 1..Len(names) : KeysAt(texts[j], k, {})
      BY <1>3, <1>10, <2>3
    <3>2. \A j \in 1..Len(names) : Len(texts[j]) # 0 /\ texts[j][1] \notin {Space, Newline}
      BY <1>3, <1>9
    <3>3. i \in 1..Len(names) /\ names[i] = k /\ \A j \in 1..Len(names) : names[j] = k => j = i
      BY <1>3, <2>1, <2>2
    <3>4. Len(texts) = Len(names)
      BY <1>3, <1>4
    <3> QED
      BY <1>3, <1>4, <1>6, <2>3, <3>1, <3>2, <3>3, <3>4, FindsKey
  <2>5. \A sort : Written(k, sort) = IF m.kind = sort THEN {m} ELSE {}
    <3>1. \A x \in {members[j] : j \in 1..n} : x.key = k => x = m
      BY <2>2
    <3>2. m \in {members[j] : j \in 1..n} /\ m.key = k
      BY <2>1
    <3> HIDE DEF m
    <3> QED
      BY <1>8, <3>1, <3>2
  <2>6. Present(k, m)
    <3>1. IsMember(m) /\ m.key = k /\ texts[i] = ValueText(m)
      BY <1>2, <1>4, <2>1
    <3> HIDE DEF m
    <3> QED
      BY <2>4, <2>5, <3>1 DEF Present
  <2> QED
    BY <1>7, <2>6
<1> QED
  BY <1>11, <1>12

-----------------------------------------------------------------------------
(* The fields of a request *)

LEMMA ModelIsRead ==
  ASSUME MembersTyped
  PROVE  json_parse_string(Body, "model") \in
           IF Written("model", "string") = {} THEN {<< >>}
           ELSE {m.chars : m \in Written("model", "string")}
<1> DEFINE t == Body
           k == "model"
<1>1. t \in Texts /\ (Absent(k) \/ \E m : Present(k, m))
  BY FieldIsFound DEF Fields
<1>2. CASE Absent(k)
  <2>1. json_parse_string(t, k) = << >> /\ Written(k, "string") = {}
    BY <1>2, NothingRead DEF Absent
  <2> QED
    BY <2>1
<1>3. CASE \E m : Present(k, m)
  <2>1. PICK m : Present(k, m)
    BY <1>3
  <2>2. PICK o : FoundAt(t, k, ValueText(m), o)
    BY <2>1 DEF Present
  <2> DEFINE v == ValueText(m)
  <2>3. IsMember(m) /\ Written(k, "string") = IF m.kind = "string" THEN {m} ELSE {}
    BY <2>1 DEF Present
  <2>4. v \in Texts /\ Len(v) # 0
    BY <2>3, ValueShapes
  <2> HIDE DEF t
  <2>5. CASE m.kind = "string"
    <3>1. m.chars \in Texts /\ v = Quoted(m.chars)
      BY <2>3, <2>5, ValueShapes
    <3>2. json_parse_string(t, k) = m.chars
      BY <1>1, <2>2, <2>4, <3>1, StringRead
    <3> QED
      BY <2>3, <2>5, <3>2 DEF t
  <2>6. CASE m.kind # "string"
    <3>1. v[1] \in Ink \cup {"["}
      BY <2>3, <2>6, ValueShapes
    <3>2. v[1] # Quote
      BY <3>1, InkIsPlain, Characters
    <3>3. json_parse_string(t, k) = << >>
      BY <1>1, <2>2, <2>4, <3>2, StringRead
    <3> QED
      BY <2>3, <2>6, <3>3 DEF t
  <2> QED
    BY <2>5, <2>6
<1> QED
  BY <1>1, <1>2, <1>3

\* A value of any kind but an integer is no number to the code.
LEMMA NotAnInteger ==
  ASSUME NEW m, IsMember(m), m.key \in Integers32,
         m.kind # "plain" \/ ~IsInteger(m.chars)
  PROVE  ValueText(m)[1] \notin Digits \cup {"-"}
<1> DEFINE v == ValueText(m)
<1>1. Digits \cup {"-"} \subseteq {"0", "1", "8", "-"} /\ Digits \cup {"-"} \subseteq Ink
  BY DEF Digits, Ink
<1>2. CASE m.kind = "plain"
  <2>1. IsPlain(m.key, m.chars) /\ v = m.chars
    BY <1>2, ValueShapes
  <2>2. m.chars = <<"true">> \/ m.chars = <<"false">> \/ m.chars = <<"null">>
    BY <1>2, <2>1 DEF IsPlain
  <2>3. m.chars[1] \in {"true", "false", "null"}
    BY <2>2
  <2>4. \A c \in {"true", "false", "null"} : c \notin {"0", "1", "8", "-"}
    OBVIOUS
  <2> HIDE DEF v
  <2> QED
    BY <1>1, <2>1, <2>3, <2>4 DEF v
<1>3. CASE m.kind # "plain"
  <2>1. v[1] = Quote \/ v[1] = "["
    BY <1>3, ValueShapes
  <2>2. Quote \notin Ink /\ "[" \notin Ink
    BY InkIsPlain
  <2> HIDE DEF v
  <2> QED
    BY <1>1, <2>1, <2>2 DEF v
<1> QED
  BY <1>2, <1>3

\* What MaxTokens makes of an int that was read.
LEMMA Clamped ==
  /\ {Clamp(n) : n \in {DefaultTokens}} = {DefaultTokens}
  /\ \A x \in Int : {Clamp(n) : n \in {x}} = {IF x <= 0 THEN DefaultTokens ELSE x}
  /\ {Clamp(n) : n \in (-IntMax - 1)..IntMax} \subseteq 1..IntMax
  /\ IntMax \in Nat /\ DefaultTokens \in 1..IntMax
<1>1. IntMax \in Nat /\ DefaultTokens \in 1..IntMax
  BY JsonConstants
<1>2. \A x \in Int : Clamp(x) = IF x <= 0 THEN DefaultTokens ELSE x
  BY DEF Clamp
<1>3. Clamp(DefaultTokens) = DefaultTokens
  BY <1>1, <1>2
<1>4. \A n \in (-IntMax - 1)..IntMax : Clamp(n) \in 1..IntMax
  BY <1>1, <1>2
<1> QED
  BY <1>1, <1>2, <1>3, <1>4

\* The integers among the members of a key.
IntsOf(k) == {m \in Written(k, "plain") : IsInteger(m.chars)}

LEMMA TokensAreRead ==
  ASSUME MembersTyped
  PROVE  LET tokens == MaxTokens(Body)
             ints == IntsOf("max_tokens")
         IN  /\ tokens \subseteq 1..IntMax
             /\ \A m \in ints : ValueOf(m.chars) \in 1..IntMax => tokens = {ValueOf(m.chars)}
             /\ (\A m \in ints : ValueOf(m.chars) \in (-IntMax)..0) => tokens = {DefaultTokens}
<1> DEFINE t == Body
           k == "max_tokens"
           d == DefaultTokens
           tokens == MaxTokens(t)
           ints == IntsOf(k)
           S == json_parse_int(t, k, d)
<1>1. t \in Texts /\ (Absent(k) \/ \E m : Present(k, m))
  BY FieldIsFound DEF Fields
<1>2. tokens = {Clamp(n) : n \in S}
  BY DEF MaxTokens
<1>3. IntMax \in Nat /\ d \in 1..IntMax
  BY Clamped
<1> DEFINE Good == /\ tokens \subseteq 1..IntMax
                   /\ \A m \in ints : ValueOf(m.chars) \in 1..IntMax => tokens = {ValueOf(m.chars)}
                   /\ (\A m \in ints : ValueOf(m.chars) \in (-IntMax)..0) => tokens = {d}
<1> HIDE DEF t, tokens, ints, S
<1>4. ASSUME S = {d}, ints = {} PROVE Good
  <2>1. tokens = {d}
    BY <1>2, <1>4, Clamped
  <2> QED
    BY <1>3, <1>4, <2>1
<1>5. CASE Absent(k)
  <2>1. S = {d} /\ ints = {}
    BY <1>5, NothingRead DEF Absent, S, ints, t, IntsOf
  <2> QED
    BY <1>4, <2>1 DEF t, tokens, ints
<1>6. CASE \E m : Present(k, m)
  <2>1. PICK m : Present(k, m)
    BY <1>6
  <2>2. PICK o : FoundAt(t, k, ValueText(m), o)
    BY <2>1 DEF Present, t
  <2> DEFINE v == ValueText(m)
  <2>3. /\ IsMember(m) /\ m.key = k
        /\ Written(k, "plain") = IF m.kind = "plain" THEN {m} ELSE {}
    BY <2>1 DEF Present
  <2>4. v \in Texts /\ Len(v) # 0
    BY <2>3, ValueShapes
  <2>5. CASE m.kind = "plain" /\ IsInteger(m.chars)
    <3>1. ints = {m} /\ v = m.chars
      BY <2>3, <2>5, ValueShapes DEF ints, IntsOf
    <3> DEFINE n == Number(DigitsOf(v))
               neg == v[1] = "-"
    <3>2. IsInteger(v) /\ v \in Texts
      BY <2>4, <2>5, <3>1
    <3>3. n \in Nat /\ ValueOf(v) = Signed(neg, n)
      BY <3>2, IntegerText
    <3>4. S = IF n <= IntMax THEN {Signed(neg, n)} ELSE (-IntMax - 1)..IntMax
      BY <1>1, <2>2, <2>4, <3>2, IntRead DEF S
    <3> DEFINE x == Signed(neg, n)
    <3>5. x = (IF neg THEN -n ELSE n) /\ ValueOf(m.chars) = x
      BY <3>1, <3>3 DEF Signed
    <3> HIDE DEF n, neg, x, v
    <3>6. x \in Int
      BY <3>3, <3>5
    <3>7. CASE n <= IntMax
      <4>1. S = {x} /\ x <= IntMax /\ x >= -IntMax
        BY <1>3, <3>3, <3>4, <3>5, <3>7 DEF x
      <4>2. tokens = {IF x <= 0 THEN d ELSE x}
        BY <1>2, <3>6, <4>1, Clamped
      <4> QED
        BY <1>3, <3>1, <3>5, <3>6, <4>1, <4>2 DEF t, tokens, ints
    <3>8. CASE ~(n <= IntMax)
      <4>1. S = (-IntMax - 1)..IntMax
        BY <3>4, <3>8
      <4>2. tokens \subseteq 1..IntMax
        BY <1>2, <4>1, Clamped
      <4>3. x \notin 1..IntMax /\ x \notin (-IntMax)..0
        BY <1>3, <3>3, <3>5, <3>8
      <4> QED
        BY <3>1, <3>5, <4>2, <4>3 DEF t, tokens, ints
    <3> QED
      BY <3>7, <3>8
  <2>6. CASE ~(m.kind = "plain" /\ IsInteger(m.chars))
    <3>1. ints = {}
      BY <2>3, <2>6 DEF ints, IntsOf
    <3>2. v[1] \notin Digits \cup {"-"}
      BY <2>3, <2>6, NotAnInteger DEF Integers32
    <3>3. S = {d}
      BY <1>1, <2>2, <2>4, <3>2, IntRead DEF S
    <3> QED
      BY <1>4, <3>1, <3>3 DEF t, tokens, ints
  <2> QED
    BY <2>5, <2>6
<1> QED
  BY <1>1, <1>5, <1>6 DEF t, tokens, ints

LEMMA TemperatureIsRead ==
  ASSUME MembersTyped
  PROVE  LET floats == {m \in Written("temperature", "plain") : IsNumber(m.chars)}
         IN  json_parse_float(Body, "temperature") \in
               IF floats = {} THEN {<< >>} ELSE {m.chars : m \in floats}
<1> DEFINE t == Body
           k == "temperature"
           floats == {m \in Written(k, "plain") : IsNumber(m.chars)}
<1>1. t \in Texts /\ (Absent(k) \/ \E m : Present(k, m))
  BY FieldIsFound DEF Fields
<1>2. CASE Absent(k)
  <2>1. json_parse_float(t, k) = << >> /\ floats = {}
    BY <1>2, NothingRead DEF Absent
  <2> QED
    BY <2>1
<1>3. CASE \E m : Present(k, m)
  <2>1. PICK m : Present(k, m)
    BY <1>3
  <2>2. PICK o : FoundAt(t, k, ValueText(m), o)
    BY <2>1 DEF Present
  <2> DEFINE v == ValueText(m)
  <2>3. IsMember(m) /\ Written(k, "plain") = IF m.kind = "plain" THEN {m} ELSE {}
    BY <2>1 DEF Present
  <2>4. v \in Texts /\ Len(v) # 0
    BY <2>3, ValueShapes
  <2> HIDE DEF t
  <2>5. CASE m.kind = "plain" /\ IsNumber(m.chars)
    <3>1. floats = {m} /\ v = m.chars
      BY <2>3, <2>5, ValueShapes
    <3>2. IsNumber(v)
      BY <2>5, <3>1
    <3>3. json_parse_float(t, k) = v
      BY <1>1, <2>2, <2>4, <3>2, FloatRead
    <3> HIDE DEF floats, v
    <3> QED
      BY <3>1, <3>3 DEF t, floats
  <2>6. CASE ~(m.kind = "plain" /\ IsNumber(m.chars))
    <3>1. floats = {}
      BY <2>3, <2>6
    <3>2. v[1] \notin Digits \cup {"-", ".", "e"}
      <4>1. Digits \cup {"-", ".", "e"} \subseteq {"0", "1", "8", "-", ".", "e"}
        BY DEF Digits
      <4>2. Digits \cup {"-", ".", "e"} \subseteq Ink
        BY DEF Digits, Ink
      <4>3. CASE m.kind = "plain"
        <5>1. IsPlain(m.key, m.chars) /\ v = m.chars
          BY <2>3, <4>3, ValueShapes
        <5>2. m.chars = <<"true">> \/ m.chars = <<"false">> \/ m.chars = <<"null">>
          BY <2>6, <4>3, <5>1 DEF IsPlain
        <5>3. m.chars[1] \in {"true", "false", "null"}
          BY <5>2
        <5>4. \A c \in {"true", "false", "null"} : c \notin {"0", "1", "8", "-", ".", "e"}
          OBVIOUS
        <5> HIDE DEF v
        <5> QED
          BY <4>1, <5>1, <5>3, <5>4
      <4>4. CASE m.kind # "plain"
        <5>1. v[1] = Quote \/ v[1] = "["
          BY <2>3, <4>4, ValueShapes
        <5>2. Quote \notin Ink /\ "[" \notin Ink
          BY InkIsPlain
        <5> HIDE DEF v
        <5> QED
          BY <4>2, <5>1, <5>2
      <4> QED
        BY <4>3, <4>4
    <3>3. json_parse_float(t, k) = << >>
      BY <1>1, <2>2, <2>4, <3>2, FloatRead
    <3> HIDE DEF floats, v
    <3> QED
      BY <3>1, <3>3 DEF t, floats
  <2> QED
    BY <2>5, <2>6
<1> QED
  BY <1>1, <1>2, <1>3

LEMMA StreamIsRead ==
  ASSUME MembersTyped
  PROVE  json_parse_bool(Body, "stream", FALSE) <=>
           \E m \in Written("stream", "plain") : m.chars = <<"true">>
<1> DEFINE t == Body
           k == "stream"
<1>1. t \in Texts /\ (Absent(k) \/ \E m : Present(k, m))
  BY FieldIsFound DEF Fields
<1>2. CASE Absent(k)
  <2>1. json_parse_bool(t, k, FALSE) = FALSE /\ Written(k, "plain") = {}
    BY <1>2, NothingRead DEF Absent
  <2> QED
    BY <2>1
<1>3. CASE \E m : Present(k, m)
  <2>1. PICK m : Present(k, m)
    BY <1>3
  <2>2. PICK o : FoundAt(t, k, ValueText(m), o)
    BY <2>1 DEF Present
  <2> DEFINE v == ValueText(m)
  <2>3. IsMember(m) /\ Written(k, "plain") = IF m.kind = "plain" THEN {m} ELSE {}
    BY <2>1 DEF Present
  <2>4. v \in Texts /\ Len(v) # 0
    BY <2>3, ValueShapes
  <2>5. json_parse_bool(t, k, FALSE) <=> v[1] = "true"
    <3> HIDE DEF t
    <3> QED
      BY <1>1, <2>2, <2>4, BoolRead
  <2>6. v[1] = "true" <=> m.kind = "plain" /\ m.chars = <<"true">>
    <3>1. CASE m.kind = "plain"
      <4>1. IsPlain(m.key, m.chars) /\ v = m.chars
        BY <2>3, <3>1, ValueShapes
      <4>2. CASE IsNumber(m.chars)
        <5>1. m.chars[1] \in Digits \cup {"-"}
          BY <2>4, <4>1, <4>2, NumberStarts
        <5>2. m.chars[1] # "true"
          BY <5>1 DEF Digits
        <5>3. m.chars # <<"true">>
          BY <5>2
        <5> HIDE DEF v
        <5> QED
          BY <4>1, <5>2, <5>3
      <4>3. CASE m.chars = <<"true">> \/ m.chars = <<"false">> \/ m.chars = <<"null">>
        <5>1. <<"true">>[1] = "true" /\ <<"false">>[1] # "true" /\ <<"null">>[1] # "true"
          OBVIOUS
        <5> HIDE DEF v
        <5> QED
          BY <3>1, <4>1, <4>3, <5>1
      <4> QED
        BY <4>1, <4>2, <4>3 DEF IsPlain
    <3>2. CASE m.kind # "plain"
      <4>1. v[1] = Quote \/ v[1] = "["
        BY <2>3, <3>2, ValueShapes
      <4>2. "true" # Quote /\ "true" # "["
        BY Letters
      <4> HIDE DEF v
      <4> QED
        BY <3>2, <4>1, <4>2
    <3> QED
      BY <3>1, <3>2
  <2> HIDE DEF t, v
  <2> QED
    BY <2>3, <2>5, <2>6 DEF t
<1> QED
  BY <1>1, <1>2, <1>3

\* Only members that may be written are, and never one with a key that is there.
LEMMA MembersInductive ==
  ASSUME MembersTyped, [Next]_vars
  PROVE  MembersTyped'
<1>1. CASE UNCHANGED vars
  BY <1>1 DEF MembersTyped, vars
<1>2. CASE Write
  <2>1. PICK m \in Members[kind] :
          (\A i \in DOMAIN members : members[i].key # m.key) /\ members' = Append(members, m)
    BY <1>2 DEF Write
  <2>2. kind' = kind
    BY <1>2 DEF Write
  <2>3. members \in Seq(Members[kind]) /\ DOMAIN members = 1..Len(members) /\ Len(members) \in Nat
    BY DEF MembersTyped
  <2>4. /\ members' \in Seq(Members[kind]) /\ Len(members') = Len(members) + 1
        /\ members'[Len(members) + 1] = m /\ \A i \in 1..Len(members) : members'[i] = members[i]
    BY <2>1, <2>3, AppendProperties
  <2>5. ASSUME NEW i \in 1..Len(members'), NEW j \in 1..Len(members'),
               members'[i].key = members'[j].key
        PROVE  i = j
    <3>1. /\ i \in 1..Len(members) \/ i = Len(members) + 1
          /\ j \in 1..Len(members) \/ j = Len(members) + 1
      BY <2>3, <2>4
    <3>2. \A a \in 1..Len(members) : members[a].key # m.key
      BY <2>1, <2>3
    <3>3. \A a, b \in 1..Len(members) : members[a].key = members[b].key => a = b
      BY DEF MembersTyped
    <3> QED
      BY <2>4, <2>5, <3>1, <3>2, <3>3
  <2> QED
    BY <2>2, <2>4, <2>5 DEF MembersTyped
<1> QED
  BY <1>1, <1>2 DEF Next

\* The members of a text are JSON, each with a key of its own.
THEOREM MembersAreTyped == Spec => []MembersTyped
<1>1. Init => MembersTyped
  BY DEF Init, MembersTyped
<1> QED
  BY <1>1, MembersInductive, PTL DEF Spec

\* Whatever JSON the members of a request are, however many, in whatever order
\* and form: handle_chat reads the model, max_tokens, temperature and stream that
\* were written, and nothing for them that was not.
THEOREM FieldsRead == Spec => []FieldsAreRead
<1>1. MembersTyped => FieldsAreRead
  <2> SUFFICES ASSUME MembersTyped PROVE FieldsAreRead
    OBVIOUS
  <2> QED
    BY ModelIsRead, TokensAreRead, TemperatureIsRead, StreamIsRead DEF FieldsAreRead, IntsOf
<1> QED
  BY <1>1, MembersAreTyped, PTL

-----------------------------------------------------------------------------
(* The least and the greatest of some positions *)

LEMMA MinExists ==
  ASSUME NEW S \in SUBSET Nat, S # {}
  PROVE  Min(S) \in S /\ \A y \in S : Min(S) <= y
<1> DEFINE None == {n \in Nat : \A x \in S : x > n}
<1>1. SUFFICES ASSUME ~(\E x \in S : \A y \in S : x <= y) PROVE FALSE
  BY DEF Min
<1>2. 0 \in None
  <2>1. 0 \notin S
    BY <1>1
  <2> QED
    BY <2>1
<1>3. ASSUME NEW n \in Nat, n \in None PROVE n + 1 \in None
  <2>1. \A x \in S : x >= n + 1
    BY <1>3
  <2>2. n + 1 \notin S
    BY <1>1, <2>1
  <2> QED
    BY <2>1, <2>2
<1>4. Nat \subseteq None
  <2> HIDE DEF None
  <2> QED
    BY <1>2, <1>3, NatInductionOnSet
<1>5. PICK x \in S : TRUE
  OBVIOUS
<1> QED
  BY <1>4, <1>5

LEMMA MaxExists ==
  ASSUME NEW n \in Nat, NEW S \in SUBSET (1..n), S # {}
  PROVE  Max(S) \in S /\ \A y \in S : Max(S) >= y
<1> DEFINE R == {n - x : x \in S}
<1>1. R \in SUBSET Nat /\ R # {}
  <2>1. \A x \in S : n - x \in Nat
    OBVIOUS
  <2>2. PICK x \in S : TRUE
    OBVIOUS
  <2>3. n - x \in R
    OBVIOUS
  <2> QED
    BY <2>1, <2>3
<1>2. Min(R) \in R /\ \A y \in R : Min(R) <= y
  <2> HIDE DEF R
  <2> QED
    BY <1>1, MinExists
<1>3. PICK x \in S : Min(R) = n - x
  BY <1>2
<1>4. ASSUME NEW y \in S PROVE x >= y
  <2>1. n - y \in R /\ n - x <= n - y
    BY <1>2, <1>3
  <2> QED
    BY <2>1
<1> QED
  BY <1>4 DEF Max

\* A search ends after the symbols it passes, at the latest after the last one.
LEMMA PastExists ==
  ASSUME NEW t \in Texts, NEW p \in 1..Len(t), NEW S
  PROVE  Past(t, p, S) \in p..(Len(t) + 1) /\ (t[p] \in S => Past(t, p, S) # p)
<1> DEFINE M == {q \in p..Len(t) : t[q] \notin S} \cup {IF p > Len(t) THEN p ELSE Len(t) + 1}
<1>1. Len(t) \in Nat /\ M \in SUBSET (p..(Len(t) + 1)) /\ M # {} /\ (t[p] \in S => p \notin M)
  BY DEF Texts
<1>2. Past(t, p, S) = Min(M)
  BY DEF Past
<1> HIDE DEF M
<1>3. M \in SUBSET Nat
  BY <1>1
<1>4. Min(M) \in M
  BY <1>1, <1>3, MinExists
<1> QED
  BY <1>1, <1>2, <1>4

-----------------------------------------------------------------------------
(* What is read of a configuration *)

\* A text without white space at its ends is left as it is, and one that does
\* not begin with any keeps its first symbol.
LEMMA Trimmed ==
  ASSUME NEW s \in Texts, Len(s) # 0, s[1] \notin Whitespace
  PROVE  /\ trim(s) \in Texts /\ Len(trim(s)) # 0 /\ trim(s)[1] = s[1]
         /\ s[Len(s)] \notin Whitespace => trim(s) = s
<1> DEFINE ink == {i \in DOMAIN s : s[i] \notin Whitespace}
           last == Max(ink)
<1>1. Len(s) \in Nat \ {0} /\ DOMAIN s = 1..Len(s) /\ s \in Seq(Symbols)
  BY DEF Texts
<1>2. ink \in SUBSET (1..Len(s)) /\ 1 \in ink
  BY <1>1
<1>3. trim(s) = SubSeq(s, Min(ink), Max(ink))
  BY <1>2 DEF trim
<1>4. s[Len(s)] \notin Whitespace => Len(s) \in ink
  BY <1>1
<1> HIDE DEF ink
<1>5. Min(ink) = 1
  <2>1. ink \in SUBSET Nat /\ ink # {}
    BY <1>2
  <2> DEFINE m == Min(ink)
  <2>2. m \in ink /\ m <= 1
    BY <1>2, <2>1, MinExists
  <2> HIDE DEF m
  <2>3. m \in 1..Len(s)
    BY <1>2, <2>2
  <2>4. m = 1
    BY <1>1, <2>2, <2>3
  <2> QED
    BY <2>4 DEF m
<1>6. last \in 1..Len(s) /\ \A y \in ink : last >= y
  <2>1. ink # {} /\ Len(s) \in Nat
    BY <1>1, <1>2
  <2>2. Max(ink) \in ink /\ \A y \in ink : Max(ink) >= y
    BY <1>2, <2>1, MaxExists
  <2> QED
    BY <1>2, <2>2
<1>7. trim(s) = SubSeq(s, 1, last)
  BY <1>3, <1>5
<1> HIDE DEF last
<1>8. /\ SubSeq(s, 1, last) \in Seq(Symbols) /\ Len(SubSeq(s, 1, last)) = last
      /\ SubSeq(s, 1, last)[1] = s[1]
  BY <1>1, <1>6
<1>9. ASSUME s[Len(s)] \notin Whitespace PROVE trim(s) = s
  <2>1. last = Len(s)
    <3> DEFINE L == Len(s)
    <3>1. L \in ink /\ L \in Nat /\ last \in 1..L
      BY <1>1, <1>4, <1>6, <1>9
    <3>2. last >= L
      BY <1>6, <3>1
    <3> HIDE DEF L
    <3>3. last = L
      BY <3>1, <3>2
    <3> QED
      BY <3>3 DEF L
  <2> QED
    BY <1>1, <1>7, <2>1, SubSeqFull
<1> QED
  BY <1>6, <1>7, <1>8, <1>9 DEF Texts

LEMMA MissingValue ==
  ASSUME NEW t, NEW k, value_of(t, k) = 0
  PROVE  find_json_value(t, k) = << >>
BY DEF find_json_value

\* The cases of find_json_value when the key was found.
LEMMA ValueCases ==
  ASSUME NEW t \in Texts, NEW k, NEW p \in 1..Len(t), value_of(t, k) = p, NEW e,
         e = Past(t, p, ToSet(t) \ Delimiters)
  PROVE  find_json_value(t, k) =
           IF At(t, p, Quote) THEN SubSeq(t, p, Min({StringEnd(t, p + 1) - 1, Len(t)}))
           ELSE trim(SubSeq(t, p, e - 1))
<1>1. p # 0 /\ ~(p > Len(t))
  BY DEF Texts
<1>2. CASE At(t, p, Quote)
  BY <1>1, <1>2 DEF find_json_value
<1>3. CASE ~At(t, p, Quote)
  BY <1>1, <1>3 DEF find_json_value
<1> QED
  BY <1>2, <1>3

LEMMA SmallerOfTwo ==
  ASSUME NEW a \in Nat, NEW b \in Nat, a <= b
  PROVE  Min({a, b}) = a
<1>1. {a, b} \in SUBSET Nat /\ {a, b} # {}
  OBVIOUS
<1>2. Min({a, b}) \in {a, b} /\ Min({a, b}) <= a
  BY <1>1, MinExists
<1> QED
  BY <1>2

\* Strings, numbers and literals are found as they were written; of a list the
\* beginning is.
LEMMA ValueIsFound ==
  ASSUME NEW t \in Texts, NEW k, NEW v \in Texts, NEW o, FoundAt(t, k, v, o), Len(v) # 0
  PROVE  /\ \A s \in Texts : v = Quoted(s) => find_json_value(t, k) = v
         /\ (\A i \in 1..Len(v) : v[i] \in Ink) => find_json_value(t, k) = v
         /\ v[1] = "[" => LET r == find_json_value(t, k)
                          IN  r \in Texts /\ Len(r) # 0 /\ r[1] = "["
<1> DEFINE p == o + 1
           e == Past(t, p, ToSet(t) \ Delimiters)
<1>1. /\ Len(t) \in Nat /\ Len(v) \in Nat \ {0} /\ o \in Nat /\ value_of(t, k) = p
      /\ o + Len(v) + 1 <= Len(t) /\ t[o + Len(v) + 1] \in {Comma, Close}
      /\ \A i \in 1..Len(v) : t[o + i] = v[i]
      /\ \A c : At(t, p, c) <=> v[1] = c
  BY ValueStands
<1>2. p \in 1..Len(t) /\ p \in Nat
  BY <1>1
<1>3. find_json_value(t, k) =
        IF At(t, p, Quote) THEN SubSeq(t, p, Min({StringEnd(t, p + 1) - 1, Len(t)}))
        ELSE trim(SubSeq(t, p, e - 1))
  BY ZenonT(30), <1>1, <1>2, ValueCases
<1>4. SubSeq(t, o + 1, o + Len(v)) = v
  BY <1>1, PieceIs DEF FoundAt
<1>5. \A i \in 1..Len(t) : t[i] \in ToSet(t)
  BY DEF ToSet, Texts
<1>6. ASSUME NEW s \in Texts, v = Quoted(s) PROVE find_json_value(t, k) = v
  <2> DEFINE x == ClientEscape(s)
             L == Len(v)
  <2>1. /\ x \in Texts /\ L = Len(x) + 2 /\ v[1] = Quote /\ v[Len(x) + 2] = Quote
        /\ Stands(v, 1, x)
    BY <1>6, QuotedText
  <2>2. Len(x) \in Nat /\ Stands(t, o, v)
    BY <2>1 DEF Texts, FoundAt
  <2> HIDE DEF x
  <2>3. Stands(t, o + 1, x)
    BY <1>1, <2>1, <2>2, StandsWithin DEF Texts
  <2>4. At(t, (o + 1) + Len(x) + 1, Quote)
    <3>1. Len(x) + 2 \in 1..Len(v) /\ (o + 1) + Len(x) + 1 = o + (Len(x) + 2)
      BY <1>1, <2>1, <2>2
    <3>2. t[o + (Len(x) + 2)] = Quote /\ o + (Len(x) + 2) <= Len(t)
      BY <1>1, <2>1, <2>2, <3>1
    <3> QED
      BY <3>1, <3>2 DEF At
  <2>5. StringEnd(t, p + 1) = (o + 1) + Len(x) + 2
    <3>1. o + 1 \in Nat
      BY <1>1
    <3> QED
      BY <2>3, <2>4, <3>1, EndsString DEF x
  <2>6. StringEnd(t, p + 1) - 1 = o + L /\ o + L \in Nat /\ o + L <= Len(t)
    BY <1>1, <2>1, <2>2, <2>5
  <2>7. At(t, p, Quote)
    BY <1>1, <2>1
  <2> HIDE DEF L, p, e
  <2>8. Min({StringEnd(t, p + 1) - 1, Len(t)}) = o + L
    BY <1>1, <2>6, SmallerOfTwo
  <2>9. find_json_value(t, k) = SubSeq(t, p, o + L)
    BY <1>3, <2>7, <2>8
  <2> QED
    BY <1>4, <2>9 DEF p, L
<1>7. ASSUME \A i \in 1..Len(v) : v[i] \in Ink PROVE find_json_value(t, k) = v
  <2>1. v[1] # Quote /\ v[1] \notin Whitespace /\ v[Len(v)] \notin Whitespace
    <3>1. v[1] \in Ink /\ v[Len(v)] \in Ink
      BY <1>1, <1>7
    <3> QED
      BY <3>1, InkIsPlain DEF Whitespace
  <2>2. e = o + Len(v) + 1
    <3> DEFINE S == ToSet(t) \ Delimiters
               q == o + Len(v) + 1
    <3>1. ASSUME NEW i \in p..(q - 1) PROVE t[i] \in S
      <4>1. i - o \in 1..Len(v) /\ o + (i - o) = i /\ i \in 1..Len(t)
        BY <1>1
      <4>2. t[i] \in Ink
        BY <1>1, <1>7, <4>1
      <4>3. t[i] \notin Delimiters
        BY <4>2, InkIsPlain DEF Delimiters
      <4> QED
        BY <1>5, <4>1, <4>3
    <3>2. t[q] \notin S
      BY <1>1 DEF Delimiters
    <3>3. q \in p..(Len(t) + 1) /\ p \in Nat \ {0}
      BY <1>1
    <3> HIDE DEF S, p, q
    <3>4. Past(t, p, S) = q
      BY <3>1, <3>2, <3>3, PastIs
    <3> QED
      BY <3>4 DEF S, p, q
  <2>3. e - 1 = o + Len(v) /\ ~At(t, p, Quote)
    BY <1>1, <2>1, <2>2
  <2>4. find_json_value(t, k) = trim(SubSeq(t, o + 1, o + Len(v)))
    <3> HIDE DEF e
    <3> QED
      BY <1>3, <2>3
  <2> QED
    BY <1>4, <2>1, <2>4, Trimmed
<1>8. ASSUME v[1] = "[" PROVE LET r == find_json_value(t, k)
                              IN  r \in Texts /\ Len(r) # 0 /\ r[1] = "["
  <2>1. "[" # Quote /\ "[" \notin Whitespace /\ "[" \notin Delimiters
    BY Characters DEF Whitespace, Delimiters
  <2>2. ~At(t, p, Quote) /\ t[p] = "["
    <3>1. At(t, p, "[")
      BY <1>1, <1>8
    <3> QED
      BY <1>1, <1>8, <2>1, <3>1 DEF At
  <2>3. e \in p..(Len(t) + 1) /\ e # p
    <3>1. t[p] \in ToSet(t) \ Delimiters
      BY <1>2, <1>5, <2>1, <2>2
    <3> HIDE DEF p
    <3> QED
      BY <1>2, <3>1, PastExists
  <2> DEFINE x == SubSeq(t, p, e - 1)
  <2>4. x \in Texts /\ Len(x) # 0 /\ x[1] = "["
    <3> HIDE DEF e, p
    <3>1. e - 1 \in p..Len(t)
      BY <1>1, <1>2, <2>3
    <3>2. \A i \in p..(e - 1) : t[i] \in Symbols
      <4>1. \A i \in p..(e - 1) : i \in 1..Len(t)
        BY <1>2, <3>1
      <4> QED
        BY <4>1 DEF Texts
    <3>3. /\ x \in Seq(Symbols) /\ Len(x) = IF p <= e - 1 THEN (e - 1) - p + 1 ELSE 0
          /\ \A i \in 1..((e - 1) - p + 1) : x[i] = t[p + i - 1]
      <4>1. p \in Int /\ e - 1 \in Int
        BY <1>2, <3>1
      <4> QED
        BY <3>2, <4>1, SubSeqProperties
    <3>4. 1 \in 1..((e - 1) - p + 1) /\ p + 1 - 1 = p /\ Len(x) # 0
      BY <1>2, <3>1, <3>3
    <3>5. x[1] = t[p]
      BY <3>3, <3>4
    <3> QED
      BY <2>2, <3>3, <3>4, <3>5 DEF Texts
  <2>5. find_json_value(t, k) = trim(x)
    BY <1>3, <2>2
  <2> HIDE DEF x
  <2> QED
    BY <2>1, <2>4, <2>5, Trimmed
<1> QED
  BY <1>6, <1>7, <1>8

\* What parse_int makes of a text by its first symbol.
LEMMA IntParsed ==
  ASSUME NEW v \in Texts
  PROVE  /\ Len(v) = 0 \/ v[1] \notin Digits \cup {"-"} => parse_int(v) = Unset
         /\ IsInteger(v) => parse_int(v) = IF ValueOf(v) \in (-IntMax - 1)..IntMax
                                           THEN ValueOf(v) ELSE Unset
<1>1. Len(v) \in Nat
  BY DEF Texts
<1> DEFINE neg == At(v, 1, "-")
           first == IF neg THEN 2 ELSE 1
           end == Past(v, first, Digits)
           n == Number(SubSeq(v, first, end - 1))
<1>2. parse_int(v) = IF end = first \/ Signed(neg, n) \notin (-IntMax - 1)..IntMax
                     THEN Unset ELSE Signed(neg, n)
  BY DEF parse_int
<1>3. ASSUME Len(v) = 0 \/ v[1] \notin Digits \cup {"-"} PROVE parse_int(v) = Unset
  <2>1. ~neg
    BY <1>3 DEF At
  <2>2. Past(v, 1, Digits) = 1
    <3>1. 1 \in 1..(Len(v) + 1) /\ 1 \in Nat \ {0} /\ \A i \in 1..(1 - 1) : FALSE
      BY <1>1
    <3>2. 1 <= Len(v) => v[1] \notin Digits
      BY <1>3
    <3> QED
      BY <3>1, <3>2, PastIs
  <2>3. end = first
    BY <2>1, <2>2
  <2> HIDE DEF end, first, n, neg
  <2> QED
    BY <1>2, <2>3
<1>4. ASSUME IsInteger(v)
      PROVE  parse_int(v) = IF ValueOf(v) \in (-IntMax - 1)..IntMax THEN ValueOf(v) ELSE Unset
  <2> DEFINE f == AfterSign(v, 1)
  <2>1. /\ Len(v) \in Nat \ {0} /\ f \in 1..Len(v) /\ (f = 2 <=> v[1] = "-") /\ f \in {1, 2}
        /\ \A i \in f..Len(v) : v[i] \in Digits
        /\ SubSeq(v, f, Len(v)) = DigitsOf(v)
        /\ ValueOf(v) = Signed(v[1] = "-", Number(DigitsOf(v)))
    BY <1>4, IntegerText
  <2> HIDE DEF f
  <2>2. neg <=> v[1] = "-"
    BY <2>1 DEF At
  <2>3. first = f
    BY <2>1, <2>2
  <2>4. Past(v, f, Digits) = Len(v) + 1
    <3> DEFINE q == Len(v) + 1
    <3>1. f \in Nat \ {0} /\ q \in f..(Len(v) + 1) /\ ~(q <= Len(v)) /\ q - 1 = Len(v)
      BY <2>1
    <3>2. \A i \in f..(q - 1) : v[i] \in Digits
      BY <2>1, <3>1
    <3> HIDE DEF q
    <3>3. Past(v, f, Digits) = q
      BY <3>1, <3>2, PastIs
    <3> QED
      BY <3>3 DEF q
  <2>5. end = Len(v) + 1
    BY <2>3, <2>4
  <2>6. end # first /\ end - 1 = Len(v)
    BY <2>1, <2>3, <2>5
  <2> DEFINE w == Number(DigitsOf(v))
             g == v[1] = "-"
  <2>7. n = w
    <3> HIDE DEF end, first
    <3> QED
      BY <2>1, <2>3, <2>6
  <2>8. ValueOf(v) = Signed(g, w) /\ (neg <=> g)
    BY <2>1, <2>2
  <2> HIDE DEF end, first, n, neg, w, g
  <2>9. Signed(neg, n) = ValueOf(v)
    BY <2>7, <2>8 DEF Signed
  <2> QED
    BY <1>2, <2>6, <2>9
<1> QED
  BY <1>3, <1>4

LEMMA IntIsRead ==
  ASSUME MembersTyped, NEW k \in {"num_key_value_heads", "context_length"}
  PROVE  parse_int(find_json_value(Body, k)) = IntWritten(k)
<1> DEFINE t == Body
           fitting == {m \in Written(k, "plain") :
                         IsInteger(m.chars) /\ ValueOf(m.chars) \in (-IntMax - 1)..IntMax}
           r == find_json_value(t, k)
<1>1. t \in Texts /\ (Absent(k) \/ \E m : Present(k, m)) /\ k \in Integers32
  BY FieldIsFound DEF Fields, Integers32
<1>2. IntWritten(k) = IF fitting = {} THEN Unset ELSE ValueOf((CHOOSE m \in fitting : TRUE).chars)
  BY DEF IntWritten
<1>3. ASSUME fitting = {}, r \in Texts, Len(r) = 0 \/ r[1] \notin Digits \cup {"-"}
      PROVE  parse_int(r) = IntWritten(k)
  <2> HIDE DEF r, fitting
  <2> QED
    BY <1>2, <1>3, IntParsed
<1>4. CASE Absent(k)
  <2>1. r = << >> /\ fitting = {}
    BY <1>4, MissingValue DEF Absent
  <2>2. r \in Texts /\ Len(r) = 0
    BY <2>1 DEF Texts
  <2> QED
    BY <1>3, <2>1, <2>2
<1>5. CASE \E m : Present(k, m)
  <2>1. PICK m : Present(k, m)
    BY <1>5
  <2>2. PICK o : FoundAt(t, k, ValueText(m), o)
    BY <2>1 DEF Present
  <2> DEFINE v == ValueText(m)
  <2>3. /\ IsMember(m) /\ m.key = k
        /\ Written(k, "plain") = IF m.kind = "plain" THEN {m} ELSE {}
    BY <2>1 DEF Present
  <2>4. v \in Texts /\ Len(v) # 0
    BY <2>3, ValueShapes
  <2>5. CASE m.kind = "plain" /\ IsInteger(m.chars)
    <3>1. v = m.chars /\ \A i \in 1..Len(v) : v[i] \in Ink
      BY <2>3, <2>5, ValueShapes
    <3>2. r = v
      <4> HIDE DEF t, v
      <4> QED
        BY <1>1, <2>2, <2>4, <3>1, ValueIsFound DEF v
    <3>3. parse_int(v) = IF ValueOf(v) \in (-IntMax - 1)..IntMax THEN ValueOf(v) ELSE Unset
      BY <2>4, <2>5, <3>1, IntParsed
    <3>4. fitting = IF ValueOf(v) \in (-IntMax - 1)..IntMax THEN {m} ELSE {}
      BY <2>3, <2>5, <3>1
    <3>5. (CHOOSE x \in {m} : TRUE) = m
      OBVIOUS
    <3> HIDE DEF r, fitting, v, t
    <3>6. IntWritten(k) = IF ValueOf(v) \in (-IntMax - 1)..IntMax THEN ValueOf(v) ELSE Unset
      <4>1. CASE ValueOf(v) \in (-IntMax - 1)..IntMax
        <5>1. fitting = {m} /\ fitting # {}
          BY <3>4, <4>1
        <5>2. (CHOOSE x \in fitting : TRUE) = m
          BY <3>5, <5>1
        <5> QED
          BY <1>2, <3>1, <4>1, <5>1, <5>2
      <4>2. CASE ValueOf(v) \notin (-IntMax - 1)..IntMax
        BY <1>2, <3>4, <4>2
      <4> QED
        BY <4>1, <4>2
    <3> QED
      BY <3>2, <3>3, <3>6 DEF r, t
  <2>6. CASE ~(m.kind = "plain" /\ IsInteger(m.chars))
    <3>1. fitting = {}
      BY <2>3, <2>6
    <3>2. v[1] \notin Digits \cup {"-"}
      BY <1>1, <2>3, <2>6, NotAnInteger
    <3>3. r \in Texts /\ Len(r) # 0 /\ r[1] = v[1]
      <4>1. CASE m.kind = "list"
        <5>1. v[1] = "["
          BY <2>3, <4>1, ValueShapes
        <5> HIDE DEF t, v
        <5> QED
          BY <1>1, <2>2, <2>4, <5>1, ValueIsFound DEF v
      <4>2. CASE m.kind = "string"
        <5>1. m.chars \in Texts /\ v = Quoted(m.chars)
          BY <2>3, <4>2, ValueShapes
        <5> HIDE DEF t, v
        <5>2. r = v
          BY <1>1, <2>2, <2>4, <5>1, ValueIsFound DEF v
        <5> QED
          BY <2>4, <5>2
      <4>3. CASE m.kind = "plain"
        <5>1. \A i \in 1..Len(v) : v[i] \in Ink
          BY <2>3, <4>3, ValueShapes
        <5> HIDE DEF t, v
        <5>2. r = v
          BY <1>1, <2>2, <2>4, <5>1, ValueIsFound DEF v
        <5> QED
          BY <2>4, <5>2
      <4> QED
        BY <2>3, <4>1, <4>2, <4>3, ValueShapes
    <3> QED
      <4> HIDE DEF r, fitting, v
      <4>1. parse_int(r) = IntWritten(k)
        BY <1>3, <3>1, <3>2, <3>3
      <4> QED
        BY <4>1 DEF r
  <2> QED
    BY <2>5, <2>6
<1> QED
  BY <1>1, <1>4, <1>5

LEMMA TypeIsRead ==
  ASSUME MembersTyped
  PROVE  LET types == {ClientEscape(m.chars) : m \in Written("model_type", "string")}
                      \cup {m.chars : m \in Written("model_type", "plain")}
         IN  unquote(find_json_value(Body, "model_type")) \in
               IF types = {} THEN {<< >>} ELSE types
<1> DEFINE t == Body
           k == "model_type"
           types == {ClientEscape(m.chars) : m \in Written(k, "string")}
                    \cup {m.chars : m \in Written(k, "plain")}
           r == find_json_value(t, k)
<1>1. t \in Texts /\ (Absent(k) \/ \E m : Present(k, m))
  BY FieldIsFound DEF Fields
<1>2. CASE Absent(k)
  <2>1. r = << >> /\ Written(k, "string") = {} /\ Written(k, "plain") = {}
    BY <1>2, MissingValue DEF Absent
  <2>2. types = {}
    BY <2>1
  <2>3. unquote(<< >>) = << >>
    BY DEF unquote
  <2> HIDE DEF types, r
  <2> QED
    BY <2>1, <2>2, <2>3 DEF types, r
<1>3. CASE \E m : Present(k, m)
  <2>1. PICK m : Present(k, m)
    BY <1>3
  <2>2. PICK o : FoundAt(t, k, ValueText(m), o)
    BY <2>1 DEF Present
  <2> DEFINE v == ValueText(m)
  <2>3. /\ IsMember(m) /\ m.key = k
        /\ Written(k, "string") = (IF m.kind = "string" THEN {m} ELSE {})
        /\ Written(k, "plain") = (IF m.kind = "plain" THEN {m} ELSE {})
    BY <2>1 DEF Present
  <2>4. v \in Texts /\ Len(v) # 0
    BY <2>3, ValueShapes
  <2>5. CASE m.kind = "string"
    <3> DEFINE e == ClientEscape(m.chars)
    <3>1. m.chars \in Texts /\ v = Quoted(m.chars)
      BY <2>3, <2>5, ValueShapes
    <3>2. r = v
      <4> HIDE DEF t, v
      <4> QED
        BY <1>1, <2>2, <2>4, <3>1, ValueIsFound DEF v
    <3>3. /\ e \in Texts /\ Len(v) = Len(e) + 2 /\ v[1] = Quote /\ v[Len(e) + 2] = Quote
          /\ Stands(v, 1, e)
      BY <3>1, QuotedText
    <3>4. unquote(v) = e
      <4> HIDE DEF e, v
      <4>1. Len(e) \in Nat /\ Len(v) >= 2 /\ v[Len(v)] = Quote /\ Len(v) - 1 = 1 + Len(e)
        BY <3>3 DEF Texts
      <4>2. SubSeq(v, 1 + 1, 1 + Len(e)) = e
        BY <2>4, <3>3, PieceIs
      <4>3. unquote(v) = SubSeq(v, 2, 1 + Len(e))
        BY <3>3, <4>1 DEF unquote
      <4> QED
        BY <4>2, <4>3
    <3>5. e \in types /\ types # {}
      BY <2>3, <2>5
    <3> HIDE DEF e, v, r, types
    <3> QED
      BY <3>2, <3>4, <3>5 DEF r, types
  <2>6. CASE m.kind = "plain"
    <3>1. v = m.chars /\ (\A i \in 1..Len(v) : v[i] \in Ink) /\ v[1] \in Ink
      BY <2>3, <2>6, ValueShapes
    <3>2. r = v
      <4> HIDE DEF t, v
      <4> QED
        BY <1>1, <2>2, <2>4, <3>1, ValueIsFound DEF v
    <3>3. v[1] # Quote
      BY <3>1, InkIsPlain
    <3>4. unquote(v) = v
      <4> HIDE DEF v
      <4> QED
        BY <3>3 DEF unquote
    <3>5. v \in types /\ types # {}
      BY <2>3, <2>6, <3>1
    <3> HIDE DEF v, r, types
    <3> QED
      BY <3>2, <3>4, <3>5 DEF r, types
  <2> QED
    BY <2>3, <2>5, <2>6, ValueShapes
<1> QED
  BY <1>1, <1>2, <1>3

\* Whatever JSON a configuration is that has the fields at its top level and in no
\* nested object: the engine reads of it the model's type and the numbers that were
\* written, and leaves unset what is absent, no number or none that fits.
THEOREM ConfigRead == Spec => []ConfigIsRead
<1>1. MembersTyped => ConfigIsRead
  <2> SUFFICES ASSUME MembersTyped PROVE ConfigIsRead
    OBVIOUS
  <2>1. /\ parse_int(find_json_value(Body, "num_key_value_heads")) = IntWritten("num_key_value_heads")
        /\ parse_int(find_json_value(Body, "context_length")) = IntWritten("context_length")
    BY IntIsRead
  <2> QED
    BY <2>1, TypeIsRead DEF ConfigIsRead, parse_genai_config
<1> QED
  BY <1>1, MembersAreTyped, PTL

-----------------------------------------------------------------------------
(* Where an object ends *)

\* The end of a string is after where it was looked for.
LEMMA StringEndAfter ==
  ASSUME NEW t \in Texts, NEW p \in 1..(Len(t) + 2)
  PROVE  StringEnd(t, p) \in p..(Len(t) + 2) /\ (p <= Len(t) => StringEnd(t, p) > p)
<1> DEFINE N == Len(t)
           Good(q) == StringEnd(t, q) \in q..(N + 2) /\ (q <= N => StringEnd(t, q) > q)
           G == {n \in Nat : \A q \in 1..(N + 2) : q + n > N => Good(q)}
<1>1. N \in Nat
  BY DEF Texts
<1>2. 0 \in G
  <2>1. ASSUME NEW q \in 1..(N + 2), q > N PROVE StringEnd(t, q) = q
    <3> DEFINE E == CHOOSE E : IsEnds(E, t)
    <3>1. IsEnds(E, t)
      BY EndsExist
    <3>2. StringEnd(t, q) = E[q]
      BY DEF StringEnd, IsEnds, EndAt
    <3> HIDE DEF E
    <3>3. E[q] = EndAt(t, E, q)
      BY <3>1 DEF IsEnds
    <3> QED
      BY <2>1, <3>2, <3>3 DEF EndAt
  <2>2. ASSUME NEW q \in 1..(N + 2), q + 0 > N PROVE Good(q)
    <3>1. q > N /\ ~(q <= N) /\ q \in q..(N + 2)
      BY <1>1, <2>2
    <3> QED
      BY <2>1, <3>1
  <2> HIDE DEF Good
  <2> QED
    BY <2>2
<1>3. ASSUME NEW n \in Nat, n \in G PROVE n + 1 \in G
  <2>1. SUFFICES ASSUME NEW q \in 1..(N + 2), q + (n + 1) > N PROVE Good(q)
    BY DEF G
  <2>2. CASE q + n > N
    <3> HIDE DEF Good
    <3> QED
      BY <1>3, <2>2
  <2>3. CASE ~(q + n > N)
    <3>1. /\ q \in 1..N /\ q + 1 \in 1..(N + 2) /\ q + 2 \in 1..(N + 2)
          /\ (q + 1) + n > N /\ (q + 2) + n > N
      BY <1>1, <2>1, <2>3
    <3>2. Good(q + 1) /\ Good(q + 2)
      <4> HIDE DEF Good
      <4> QED
        BY <1>3, <3>1
    <3> DEFINE e == StringEnd(t, q)
    <3>3. e = q + 1 \/ e = StringEnd(t, q + 2) \/ e = StringEnd(t, q + 1)
      BY <3>1, StringEndAt
    <3>4. e \in (q + 1)..(N + 2)
      <4>1. CASE e = q + 1
        BY <1>1, <3>1, <4>1
      <4>2. CASE e = StringEnd(t, q + 1)
        BY <1>1, <3>1, <3>2, <4>2
      <4>3. CASE e = StringEnd(t, q + 2)
        BY <1>1, <3>1, <3>2, <4>3
      <4> QED
        BY <3>3, <4>1, <4>2, <4>3
    <3> HIDE DEF e
    <3>5. e \in q..(N + 2) /\ e > q
      BY <1>1, <3>1, <3>4
    <3> QED
      BY <3>5 DEF e
  <2> QED
    BY <2>2, <2>3
<1>4. Nat \subseteq G
  <2> HIDE DEF G
  <2> QED
    BY <1>2, <1>3, NatInductionOnSet
<1>5. p + N > N
  BY <1>1
<1>6. N \in G
  BY <1>1, <1>4
<1> QED
  BY <1>5, <1>6

\* What the scan for the end of an object does at q.
WalkAt(t, E, q, depth) ==
  IF q > Len(t) THEN q
  ELSE IF t[q] = Open THEN E[q + 1][depth + 1]
  ELSE IF t[q] = Close THEN IF depth = 1 THEN q + 1 ELSE E[q + 1][depth - 1]
  ELSE IF t[q] = Quote THEN E[StringEnd(t, q + 1)][depth]
  ELSE E[q + 1][depth]

IsWalk(E, t) == E = [q \in 1..(Len(t) + 2) |-> [depth \in Int |-> WalkAt(t, E, q, depth)]]

\* The function that LET defines in ObjectEnd exists, hence CHOOSE finds it.
LEMMA WalkExists ==
  ASSUME NEW t \in Texts
  PROVE  \E E : IsWalk(E, t)
<1> DEFINE N == Len(t) + 2
           S == [Int -> Nat]
           g == [x \in (1..N) \X [1..N -> S] |-> [depth \in Int |-> WalkAt(t, x[2], x[1], depth)]]
<1>1. N \in Nat /\ Len(t) \in Nat /\ [depth \in Int |-> 0] \in S
  BY DEF Texts
<1>2. ASSUME NEW q \in 1..N, q <= Len(t)
      PROVE  q + 1 \in (q + 1)..N /\ StringEnd(t, q + 1) \in (q + 1)..N
  <2>1. q + 1 \in 1..(Len(t) + 2)
    BY <1>1, <1>2
  <2> QED
    BY <1>1, <2>1, StringEndAfter
<1>3. ASSUME NEW q \in 1..N, NEW E \in [1..N -> S], NEW depth \in Int
      PROVE  WalkAt(t, E, q, depth) \in Nat
  <2>1. CASE q > Len(t)
    BY <2>1 DEF WalkAt
  <2>2. CASE q <= Len(t)
    <3> DEFINE e == StringEnd(t, q + 1)
    <3>1. q + 1 \in 1..N /\ e \in 1..N
      BY <1>1, <1>2, <2>2
    <3>2. E[q + 1] \in S /\ E[e] \in S
      BY <3>1
    <3> HIDE DEF e, N
    <3>3. /\ E[q + 1][depth + 1] \in Nat /\ E[q + 1][depth - 1] \in Nat
          /\ E[q + 1][depth] \in Nat /\ E[e][depth] \in Nat
      <4>1. depth + 1 \in Int /\ depth - 1 \in Int
        OBVIOUS
      <4> QED
        BY <3>2, <4>1
    <3>4. q + 1 \in Nat
      BY <2>2, <3>1 DEF N
    <3> QED
      BY <2>2, <3>3, <3>4 DEF WalkAt, e
  <2> QED
    BY <1>1, <2>1, <2>2
<1>4. g \in [(1..N) \X [1..N -> S] -> S]
  <2>1. ASSUME NEW x \in (1..N) \X [1..N -> S]
        PROVE  [depth \in Int |-> WalkAt(t, x[2], x[1], depth)] \in S
    <3>1. x[1] \in 1..N /\ x[2] \in [1..N -> S]
      OBVIOUS
    <3> HIDE DEF N
    <3> QED
      BY <1>3, <3>1
  <2> HIDE DEF N, S
  <2> QED
    BY <2>1
<1>5. ASSUME NEW q \in 1..N, NEW f \in [1..N -> S], NEW h \in [1..N -> S],
             \A p \in (q + 1)..N : f[p] = h[p], NEW depth \in Int
      PROVE  WalkAt(t, f, q, depth) = WalkAt(t, h, q, depth)
  <2>1. CASE q > Len(t)
    BY <2>1 DEF WalkAt
  <2>2. CASE q <= Len(t)
    <3>1. f[q + 1] = h[q + 1] /\ f[StringEnd(t, q + 1)] = h[StringEnd(t, q + 1)]
      BY <1>2, <1>5, <2>2
    <3> QED
      BY <3>1 DEF WalkAt
  <2> QED
    BY <1>1, <2>1, <2>2
<1>6. LooksAhead(g, N, S)
  <2>1. SUFFICES ASSUME NEW q \in 1..N, NEW f \in [1..N -> S], NEW h \in [1..N -> S],
                        \A p \in (q + 1)..N : f[p] = h[p]
                 PROVE  g[<<q, f>>] = g[<<q, h>>]
    BY DEF LooksAhead
  <2>2. \A depth \in Int : WalkAt(t, f, q, depth) = WalkAt(t, h, q, depth)
    <3> HIDE DEF N, S
    <3> QED
      BY <1>5, <2>1
  <2>3. /\ g[<<q, f>>] = [depth \in Int |-> WalkAt(t, f, q, depth)]
        /\ g[<<q, h>>] = [depth \in Int |-> WalkAt(t, h, q, depth)]
    <3> HIDE DEF N, S
    <3> QED
      OBVIOUS
  <2> HIDE DEF g
  <2> QED
    BY <2>2, <2>3
<1>7. PICK E : IsBackward(E, N, S, g)
  <2> HIDE DEF g, N, S
  <2> QED
    BY <1>1, <1>4, <1>6, BackwardRecursion
<1>8. E \in [1..N -> S] /\ \A q \in 1..N : E[q] = g[<<q, E>>]
  BY <1>7 DEF IsBackward
<1>9. \A q \in 1..N : E[q] = [depth \in Int |-> WalkAt(t, E, q, depth)]
  <2> HIDE DEF N, S
  <2> QED
    BY <1>8
<1>10. E = [q \in 1..N |-> [depth \in Int |-> WalkAt(t, E, q, depth)]]
  <2> HIDE DEF S, g
  <2> QED
    BY <1>8, <1>9
<1> QED
  BY <1>10 DEF IsWalk

\* The end that is found from q on, at a depth.
Walk(t, q, depth) == (CHOOSE E : IsWalk(E, t))[q][depth]

\* One step of the scan of ObjectEnd.
LEMMA WalkIs ==
  ASSUME NEW t \in Texts
  PROVE  /\ \A q : ObjectEnd(t, q) = Walk(t, q, 0)
         /\ \A q \in 1..Len(t), depth \in Int :
              Walk(t, q, depth) =
                IF t[q] = Open THEN Walk(t, q + 1, depth + 1)
                ELSE IF t[q] = Close THEN IF depth = 1 THEN q + 1 ELSE Walk(t, q + 1, depth - 1)
                ELSE IF t[q] = Quote THEN Walk(t, StringEnd(t, q + 1), depth)
                ELSE Walk(t, q + 1, depth)
         /\ \A q \in (Len(t) + 1)..(Len(t) + 2), depth \in Int : Walk(t, q, depth) = q
<1> DEFINE E == CHOOSE E : IsWalk(E, t)
<1>1. IsWalk(E, t)
  BY WalkExists
<1>2. \A q, depth : Walk(t, q, depth) = E[q][depth]
  BY DEF Walk
<1>3. \A q : ObjectEnd(t, q) = E[q][0]
  BY DEF ObjectEnd, IsWalk, WalkAt
<1> HIDE DEF E
<1>4. Len(t) \in Nat
  BY DEF Texts
<1>5. ASSUME NEW q \in 1..(Len(t) + 2), NEW depth \in Int
      PROVE  E[q][depth] = WalkAt(t, E, q, depth)
  <2>1. E[q] = [d \in Int |-> WalkAt(t, E, q, d)]
    BY <1>1 DEF IsWalk
  <2> QED
    BY <2>1
<1>6. ASSUME NEW q \in 1..Len(t), NEW depth \in Int
      PROVE  E[q][depth] = IF t[q] = Open THEN E[q + 1][depth + 1]
                ELSE IF t[q] = Close THEN IF depth = 1 THEN q + 1 ELSE E[q + 1][depth - 1]
                ELSE IF t[q] = Quote THEN E[StringEnd(t, q + 1)][depth]
                ELSE E[q + 1][depth]
  <2>1. q \in 1..(Len(t) + 2) /\ ~(q > Len(t))
    BY <1>4
  <2>2. E[q][depth] = WalkAt(t, E, q, depth)
    BY <1>5, <2>1
  <2> QED
    BY <2>1, <2>2 DEF WalkAt
<1>7. ASSUME NEW q \in (Len(t) + 1)..(Len(t) + 2), NEW depth \in Int
      PROVE  E[q][depth] = q
  <2>1. q \in 1..(Len(t) + 2) /\ q > Len(t)
    BY <1>4
  <2>2. E[q][depth] = WalkAt(t, E, q, depth)
    BY <1>5, <2>1
  <2> QED
    BY <2>1, <2>2 DEF WalkAt
<1>8. ASSUME NEW q \in 1..Len(t), NEW depth \in Int
      PROVE  Walk(t, q, depth) =
                IF t[q] = Open THEN Walk(t, q + 1, depth + 1)
                ELSE IF t[q] = Close THEN IF depth = 1 THEN q + 1 ELSE Walk(t, q + 1, depth - 1)
                ELSE IF t[q] = Quote THEN Walk(t, StringEnd(t, q + 1), depth)
                ELSE Walk(t, q + 1, depth)
  <2>1. /\ Walk(t, q, depth) = E[q][depth] /\ Walk(t, q + 1, depth) = E[q + 1][depth]
        /\ Walk(t, q + 1, depth + 1) = E[q + 1][depth + 1]
        /\ Walk(t, q + 1, depth - 1) = E[q + 1][depth - 1]
        /\ Walk(t, StringEnd(t, q + 1), depth) = E[StringEnd(t, q + 1)][depth]
    BY <1>2
  <2> QED
    BY <1>6, <2>1
<1>9. \A q : ObjectEnd(t, q) = Walk(t, q, 0)
  BY <1>2, <1>3
<1>10. \A q \in (Len(t) + 1)..(Len(t) + 2), depth \in Int : Walk(t, q, depth) = q
  BY <1>2, <1>7
<1> QED
  BY <1>8, <1>9, <1>10

\* It is after where it was looked for.
LEMMA WalkAfter ==
  ASSUME NEW t \in Texts, NEW p \in 1..Len(t), NEW depth \in Int
  PROVE  Walk(t, p, depth) \in (p + 1)..(Len(t) + 2)
<1> DEFINE N == Len(t)
           Good(q, d) == Walk(t, q, d) \in q..(N + 2) /\ (q <= N => Walk(t, q, d) \in (q + 1)..(N + 2))
           G == {n \in Nat : \A q \in 1..(N + 2), d \in Int : q + n > N => Good(q, d)}
<1>1. N \in Nat
  BY DEF Texts
<1>2. 0 \in G
  <2>1. ASSUME NEW q \in 1..(N + 2), NEW d \in Int, q + 0 > N PROVE Good(q, d)
    <3>1. q \in (N + 1)..(N + 2) /\ ~(q <= N) /\ q \in q..(N + 2)
      BY <1>1, <2>1
    <3>2. Walk(t, q, d) = q
      BY <3>1, WalkIs
    <3> QED
      BY <3>1, <3>2
  <2> HIDE DEF Good
  <2> QED
    BY <2>1
<1>3. ASSUME NEW n \in Nat, n \in G PROVE n + 1 \in G
  <2>1. SUFFICES ASSUME NEW q \in 1..(N + 2), NEW d \in Int, q + (n + 1) > N PROVE Good(q, d)
    BY DEF G
  <2>2. CASE q + n > N
    <3> HIDE DEF Good
    <3> QED
      BY <1>3, <2>2
  <2>3. CASE ~(q + n > N)
    <3> DEFINE e == StringEnd(t, q + 1)
               w == Walk(t, q, d)
    <3>1. /\ q \in 1..N /\ q + 1 \in 1..(N + 2) /\ (q + 1) + n > N
      BY <1>1, <2>1, <2>3
    <3>2. e \in (q + 1)..(N + 2)
      BY <3>1, StringEndAfter
    <3> HIDE DEF e
    <3>3. e \in 1..(N + 2) /\ e + n > N
      BY <1>1, <3>1, <3>2
    <3>4. Good(q + 1, d) /\ Good(q + 1, d + 1) /\ Good(q + 1, d - 1) /\ Good(e, d)
      <4>1. d + 1 \in Int /\ d - 1 \in Int
        OBVIOUS
      <4> HIDE DEF Good
      <4> QED
        BY <1>3, <3>1, <3>3, <4>1
    <3>5. w \in {Walk(t, q + 1, d + 1), q + 1, Walk(t, q + 1, d - 1), Walk(t, e, d), Walk(t, q + 1, d)}
      BY <3>1, WalkIs DEF e
    <3>6. \A x \in {Walk(t, q + 1, d + 1), q + 1, Walk(t, q + 1, d - 1), Walk(t, e, d), Walk(t, q + 1, d)} :
            x \in (q + 1)..(N + 2)
      <4>1. Walk(t, e, d) \in (q + 1)..(N + 2)
        BY <1>1, <3>1, <3>2, <3>4
      <4>2. q + 1 \in (q + 1)..(N + 2)
        BY <1>1, <3>1
      <4> QED
        BY <3>4, <4>1, <4>2
    <3> HIDE DEF w
    <3>7. w \in (q + 1)..(N + 2)
      BY <3>5, <3>6
    <3>8. w \in q..(N + 2)
      BY <1>1, <3>1, <3>7
    <3> QED
      BY <3>7, <3>8 DEF w
  <2> QED
    BY <2>2, <2>3
<1>4. Nat \subseteq G
  <2> HIDE DEF G
  <2> QED
    BY <1>2, <1>3, NatInductionOnSet
<1>5. p + N > N /\ p \in 1..(N + 2) /\ p <= N
  BY <1>1
<1>6. N \in G
  BY <1>1, <1>4
<1> QED
  BY <1>5, <1>6

-----------------------------------------------------------------------------
(* What the scan for the end of an object passes over *)

\* The scan for the closing brace goes on after x as it came to it, at any depth.
Skips(x) ==
  \A t \in Texts, o \in Nat : Stands(t, o, x) =>
    \A depth \in Int : Walk(t, o + 1, depth) = Walk(t, o + Len(x) + 1, depth)

\* The scan passes over two texts when it passes over each.
LEMMA SkipsConcat ==
  ASSUME NEW x \in Texts, NEW y \in Texts, Skips(x), Skips(y)
  PROVE  Skips(x \o y)
<1> DEFINE z == x \o y
<1>1. z \in Texts /\ Len(z) = Len(x) + Len(y) /\ Len(x) \in Nat /\ Len(y) \in Nat
  BY TextConcat DEF Texts
<1> HIDE DEF z
<1>2. SUFFICES ASSUME NEW t \in Texts, NEW o \in Nat, Stands(t, o, z), NEW depth \in Int
               PROVE  Walk(t, o + 1, depth) = Walk(t, o + Len(z) + 1, depth)
  BY DEF Skips, z
<1>3. Stands(t, o, x) /\ Stands(t, o + Len(x), y)
  BY <1>2, StandsBoth DEF z, Texts
<1>4. Walk(t, o + 1, depth) = Walk(t, o + Len(x) + 1, depth)
  BY <1>2, <1>3 DEF Skips
<1>5. Walk(t, (o + Len(x)) + 1, depth) = Walk(t, (o + Len(x)) + Len(y) + 1, depth)
  <2>1. o + Len(x) \in Nat
    BY <1>1
  <2> QED
    BY <1>2, <1>3, <2>1 DEF Skips
<1>6. (o + Len(x)) + Len(y) + 1 = o + Len(z) + 1
  BY <1>1
<1> QED
  BY <1>4, <1>5, <1>6

\* It passes over a symbol that is no brace and no quote.
LEMMA SkipsSymbol ==
  ASSUME NEW c \in Symbols, c \notin {Open, Close, Quote}
  PROVE  <<c>> \in Texts /\ Len(<<c>>) = 1 /\ Skips(<<c>>)
<1> DEFINE x == <<c>>
<1>1. x \in Texts /\ Len(x) = 1 /\ x[1] = c
  BY DEF Texts
<1> HIDE DEF x
<1>2. ASSUME NEW t \in Texts, NEW o \in Nat, Stands(t, o, x), NEW depth \in Int
      PROVE  Walk(t, o + 1, depth) = Walk(t, o + Len(x) + 1, depth)
  <2>1. o + 1 \in 1..Len(t) /\ t[o + 1] = c
    <3>1. Len(t) \in Nat /\ o + 1 <= Len(t) /\ \A j \in 1..1 : t[o + j] = x[j]
      BY <1>1, <1>2 DEF Stands, Texts
    <3> QED
      BY <1>1, <3>1
  <2>2. Walk(t, o + 1, depth) = Walk(t, (o + 1) + 1, depth)
    BY <2>1, WalkIs
  <2> QED
    BY <1>1, <2>2
<1> QED
  BY <1>1, <1>2 DEF x, Skips

\* It passes over a whole string, braces and escaped quotes in it included.
LEMMA SkipsQuoted ==
  ASSUME NEW s \in Texts
  PROVE  Skips(Quoted(s))
<1> DEFINE z == Quoted(s)
           e == ClientEscape(s)
<1>1. /\ z \in Texts /\ Len(z) = Len(e) + 2 /\ e \in Texts /\ Len(e) \in Nat
      /\ z[1] = Quote /\ z[Len(e) + 2] = Quote /\ Stands(z, 1, e)
  BY QuotedText DEF Texts
<1> HIDE DEF z
<1>2. ASSUME NEW t \in Texts, NEW o \in Nat, Stands(t, o, z), NEW depth \in Int
      PROVE  Walk(t, o + 1, depth) = Walk(t, o + Len(z) + 1, depth)
  <2> DEFINE n == Len(e)
  <2>1. n \in Nat /\ Len(z) = n + 2 /\ Len(t) \in Nat
    BY <1>1 DEF Texts
  <2>2. o + (n + 2) <= Len(t) /\ \A j \in 1..(n + 2) : t[o + j] = z[j]
    BY <1>2, <2>1 DEF Stands
  <2>3. Stands(t, o + 1, e)
    <3>1. 1 \in Nat
      OBVIOUS
    <3> HIDE DEF e
    <3> QED
      BY <1>1, <1>2, <3>1, StandsWithin DEF Texts
  <2> HIDE DEF n
  <2>4. 1 \in 1..(n + 2) /\ n + 2 \in 1..(n + 2)
    BY <2>1
  <2>5. o + 1 \in 1..Len(t) /\ t[o + 1] = Quote
    BY <1>1, <2>1, <2>2, <2>4
  <2>6. t[o + (n + 2)] = Quote
    BY <1>1, <2>2, <2>4 DEF n
  <2>7. At(t, (o + 1) + n + 1, Quote)
    <3>1. (o + 1) + n + 1 = o + (n + 2)
      BY <2>1
    <3> QED
      BY <2>2, <2>6, <3>1 DEF At
  <2>8. StringEnd(t, (o + 1) + 1) = (o + 1) + n + 2
    <3>1. o + 1 \in Nat
      OBVIOUS
    <3> QED
      BY <2>3, <2>7, <3>1, EndsString DEF n
  <2>9. Walk(t, o + 1, depth) = Walk(t, StringEnd(t, (o + 1) + 1), depth)
    <3>1. Quote # Open /\ Quote # Close
      BY Characters
    <3> QED
      BY <2>5, <3>1, WalkIs
  <2>10. (o + 1) + n + 2 = o + Len(z) + 1
    BY <2>1
  <2> QED
    BY <2>8, <2>9, <2>10
<1> QED
  BY <1>2 DEF Skips, z

LEMMA SkipsBlank ==
  Blank \in Texts /\ Skips(Blank)
<1>1. Blank \in Texts /\ Blank = IF blank THEN <<Space>> ELSE << >>
  BY BlankText
<1>2. CASE blank
  <2>1. Space \in Symbols /\ Space \notin {Open, Close, Quote}
    BY SymbolsHold, Characters
  <2>2. Skips(<<Space>>)
    BY <2>1, SkipsSymbol
  <2> QED
    BY <1>1, <1>2, <2>2
<1>3. CASE ~blank
  <2>1. Skips(<< >>)
    BY DEF Skips
  <2> QED
    BY <1>1, <1>3, <2>1
<1> QED
  BY <1>2, <1>3

LEMMA SkipsLead ==
  Lead \in Texts /\ Skips(Lead)
<1> DEFINE a == <<Comma>>
<1>1. Comma \in Symbols /\ Comma \notin {Open, Close, Quote}
  BY SymbolsHold, Characters
<1>2. a \in Texts /\ Skips(a)
  BY <1>1, SkipsSymbol
<1> HIDE DEF a
<1>3. Skips(a \o Blank) /\ a \o Blank \in Texts
  BY <1>2, SkipsBlank, SkipsConcat, TextConcat
<1> QED
  BY <1>3 DEF a, Lead

\* It passes over the key of a member.
LEMMA SkipsLabel ==
  ASSUME NEW name \in Keys
  PROVE  Label(name) \in Texts /\ Skips(Label(name))
<1> DEFINE a == Quoted(<<name>>)
           b == <<":">>
           c == a \o Blank
           d == c \o b
<1>1. a \in Texts /\ Skips(a)
  <2>1. <<name>> \in Texts
    BY KeyIsPlain DEF Texts
  <2> QED
    BY <2>1, QuotedText, SkipsQuoted
<1>2. b \in Texts /\ Skips(b)
  <2>1. ":" \in Symbols /\ ":" \notin {Open, Close, Quote}
    BY SymbolsHold, Characters
  <2> QED
    BY <2>1, SkipsSymbol
<1>3. Label(name) = d \o Blank
  BY DEF Label
<1> HIDE DEF a, b, d
<1>4. c \in Texts /\ Skips(c)
  BY <1>1, SkipsBlank, SkipsConcat, TextConcat
<1> HIDE DEF c
<1>5. d \in Texts /\ Skips(d)
  BY <1>2, <1>4, SkipsConcat, TextConcat DEF d
<1> QED
  BY <1>3, <1>5, SkipsBlank, SkipsConcat, TextConcat

\* A list is passed over when its parts are.
LEMMA SkipsSeparated ==
  ASSUME NEW parts \in Seq(Texts), \A i \in 1..Len(parts) : Skips(parts[i])
  PROVE  Separated(parts) \in Texts /\ Skips(Separated(parts))
<1> DEFINE n == Len(parts)
           u == Separated(parts)
<1>1. PICK O : IsSeparated(u, parts, O) /\ Row(u, 0, parts, O) /\ RowEnd(0, parts, O) = Len(u)
  BY SeparatedText
<1>2. u \in Texts /\ n \in Nat /\ Len(u) \in Nat
  BY <1>1 DEF IsSeparated, Texts
<1> HIDE DEF u
<1>3. ASSUME NEW t \in Texts, NEW o \in Nat, Stands(t, o, u), NEW depth \in Int
      PROVE  Walk(t, o + 1, depth) = Walk(t, o + Len(u) + 1, depth)
  <2> DEFINE A == [i \in 1..n |-> o + O[i]]
             End(i) == A[i] + Len(parts[i])
             G == {k \in Nat : k + 1 <= n => Walk(t, o + 1, depth) = Walk(t, End(k + 1) + 1, depth)}
  <2>1. Row(t, o + 0, parts, A) /\ RowEnd(o + 0, parts, A) = o + Len(u)
    <3>1. /\ 0 \in Nat /\ parts \in Seq(Texts) /\ Row(u, 0, parts, O)
          /\ A = [i \in 1..n |-> o + O[i]]
      BY <1>1
    <3> HIDE DEF A
    <3>2. Row(t, o + 0, parts, A) /\ RowEnd(o + 0, parts, A) = o + RowEnd(0, parts, O)
      BY <1>2, <1>3, <3>1, RowShift
    <3> QED
      BY <1>1, <3>2
  <2>2. o + 0 = o
    OBVIOUS
  <2> HIDE DEF A
  <2>3. /\ (n > 0 => A[1] = o)
        /\ \A i \in 1..n : A[i] \in Nat /\ Stands(t, A[i], parts[i]) /\ Len(parts[i]) \in Nat
        /\ \A i \in 1..n : i < n =>
             A[i + 1] = End(i) + Len(Lead) /\ Stands(t, End(i), Lead)
    <3>1. \A i \in 1..n : Len(parts[i]) \in Nat
      BY DEF Texts
    <3>2. Row(t, o, parts, A)
      BY <2>1, <2>2
    <3> QED
      BY <3>1, <3>2 DEF Row
  <2>4. \A i \in 1..n : Walk(t, A[i] + 1, depth) = Walk(t, End(i) + 1, depth) /\ End(i) \in Nat
    <3>1. SUFFICES ASSUME NEW i \in 1..n
                   PROVE  Walk(t, A[i] + 1, depth) = Walk(t, End(i) + 1, depth) /\ End(i) \in Nat
      OBVIOUS
    <3>2. A[i] \in Nat /\ Stands(t, A[i], parts[i]) /\ Skips(parts[i]) /\ Len(parts[i]) \in Nat
      BY <2>3
    <3> QED
      BY <3>2 DEF Skips
  <2> HIDE DEF End
  <2>5. 0 \in G
    <3>1. SUFFICES ASSUME 0 + 1 <= n PROVE Walk(t, o + 1, depth) = Walk(t, End(0 + 1) + 1, depth)
      OBVIOUS
    <3>2. 1 \in 1..n /\ 0 + 1 = 1 /\ n > 0
      BY <1>2, <3>1
    <3> QED
      BY <2>3, <2>4, <3>2
  <2>6. ASSUME NEW k \in Nat, k \in G PROVE k + 1 \in G
    <3>1. SUFFICES ASSUME (k + 1) + 1 <= n
                   PROVE  Walk(t, o + 1, depth) = Walk(t, End((k + 1) + 1) + 1, depth)
      OBVIOUS
    <3> DEFINE j == k + 1
    <3>2. j \in 1..n /\ j < n /\ j + 1 \in 1..n /\ k + 1 <= n
      BY <1>2, <3>1
    <3>3. Walk(t, o + 1, depth) = Walk(t, End(j) + 1, depth)
      BY <2>6, <3>2
    <3> HIDE DEF j, G
    <3>4. /\ A[j + 1] = End(j) + Len(Lead) /\ Stands(t, End(j), Lead) /\ End(j) \in Nat
          /\ Walk(t, A[j + 1] + 1, depth) = Walk(t, End(j + 1) + 1, depth)
      BY <2>3, <2>4, <3>2
    <3>5. Walk(t, End(j) + 1, depth) = Walk(t, End(j) + Len(Lead) + 1, depth)
      BY <3>4, SkipsLead DEF Skips
    <3>6. Walk(t, o + 1, depth) = Walk(t, End(j + 1) + 1, depth)
      BY <3>3, <3>4, <3>5
    <3> QED
      BY <3>6 DEF j
  <2>7. Nat \subseteq G
    <3> HIDE DEF G
    <3> QED
      BY <2>5, <2>6, NatInductionOnSet
  <2>8. CASE n = 0
    <3>1. o + Len(u) = o
      BY <2>1, <2>2, <2>8 DEF RowEnd
    <3> QED
      BY <3>1
  <2>9. CASE n # 0
    <3>1. n - 1 \in Nat /\ (n - 1) + 1 = n /\ (n - 1) + 1 <= n
      BY <1>2, <2>9
    <3>2. Walk(t, o + 1, depth) = Walk(t, End(n) + 1, depth)
      BY <2>7, <3>1
    <3>3. End(n) = o + Len(u)
      BY <2>1, <2>2, <2>9 DEF RowEnd, End
    <3> QED
      BY <3>2, <3>3
  <2> QED
    BY <2>8, <2>9
<1> QED
  BY <1>2, <1>3 DEF Skips, u

\* So the end of an object of such values is found.
LEMMA ObjectEndIs ==
  ASSUME NEW names \in Seq(Keys), NEW texts \in Seq(Texts), Len(texts) = Len(names),
         \A i \in 1..Len(names) : Skips(texts[i]),
         NEW t \in Texts, NEW o \in Nat, Stands(t, o, Object(names, texts))
  PROVE  /\ Object(names, texts) \in Texts /\ At(t, o + 1, Open)
         /\ ObjectEnd(t, o + 1) = o + Len(Object(names, texts)) + 1
<1> DEFINE n == Len(names)
           parts == [i \in DOMAIN names |->
                       Quoted(<<names[i]>>) \o Blank \o <<":">> \o Blank \o texts[i]]
           u == Separated(parts)
           z == Object(names, texts)
<1>1. n \in Nat /\ DOMAIN names = 1..n /\ \A i \in 1..n : names[i] \in Keys /\ texts[i] \in Texts
  OBVIOUS
<1>2. \A i \in 1..n : parts[i] = Label(names[i]) \o texts[i]
  BY <1>1 DEF Label
<1>3. parts = [i \in 1..n |-> parts[i]]
  BY <1>1
<1>4. z = <<Open>> \o u \o <<Close>>
  BY DEF Object
<1> HIDE DEF parts, u, z
<1>5. ASSUME NEW i \in 1..n PROVE parts[i] \in Texts /\ Skips(parts[i])
  <2> DEFINE a == Label(names[i])
             b == texts[i]
  <2>1. a \in Texts /\ b \in Texts /\ Skips(a) /\ Skips(b) /\ parts[i] = a \o b
    BY <1>1, <1>2, SkipsLabel
  <2> HIDE DEF a, b
  <2> QED
    BY <2>1, SkipsConcat, TextConcat
<1>6. parts \in Seq(Texts) /\ Len(parts) = n
  BY <1>1, <1>3, <1>5
<1>7. u \in Texts /\ Skips(u) /\ Len(u) \in Nat
  BY <1>5, <1>6, SkipsSeparated DEF u, Texts
<1>8. /\ z \in Texts /\ Len(z) = Len(u) + 2 /\ z[1] = Open /\ z[Len(u) + 2] = Close
      /\ Stands(z, 1, u)
  BY <1>4, <1>7, Enclosed
<1>9. Stands(t, o, z)
  BY DEF z
<1>10. o + Len(z) <= Len(t) /\ Len(t) \in Nat /\ \A j \in 1..Len(z) : t[o + j] = z[j]
  BY <1>9 DEF Stands, Texts
<1>11. t[o + 1] = Open /\ t[o + (Len(u) + 2)] = Close
  <2>1. 1 \in 1..Len(z) /\ Len(u) + 2 \in 1..Len(z)
    BY <1>7, <1>8
  <2> QED
    BY <1>8, <1>10, <2>1
<1>12. Stands(t, o + 1, u)
  <2>1. 1 \in Nat
    OBVIOUS
  <2> QED
    BY <1>7, <1>8, <1>9, <2>1, StandsWithin DEF Texts
<1>13. o + 1 \in 1..Len(t) /\ o + (Len(u) + 2) \in 1..Len(t) /\ o + 1 \in Nat
  BY <1>7, <1>8, <1>10
<1>14. Walk(t, o + 1, 0) = Walk(t, (o + 1) + 1, 1)
  <2>1. 0 \in Int /\ 0 + 1 = 1
    OBVIOUS
  <2> QED
    BY <1>11, <1>13, <2>1, WalkIs
<1>15. Walk(t, (o + 1) + 1, 1) = Walk(t, (o + 1) + Len(u) + 1, 1)
  <2>1. 1 \in Int
    OBVIOUS
  <2> QED
    BY <1>7, <1>12, <1>13, <2>1 DEF Skips
<1>16. Walk(t, o + (Len(u) + 2), 1) = o + (Len(u) + 2) + 1
  <2>1. 1 \in Int /\ Close # Open
    BY DEF Open, Close
  <2> QED
    BY <1>11, <1>13, <2>1, WalkIs
<1>17. (o + 1) + Len(u) + 1 = o + (Len(u) + 2) /\ o + (Len(u) + 2) + 1 = o + Len(z) + 1
  BY <1>7, <1>8
<1>18. ObjectEnd(t, o + 1) = o + Len(z) + 1
  BY <1>14, <1>15, <1>16, <1>17, WalkIs
<1>19. At(t, o + 1, Open)
  BY <1>11, <1>13 DEF At
<1> QED
  BY <1>8, <1>18, <1>19 DEF z

-----------------------------------------------------------------------------
(* What is read of a message *)

\* These names are keys, unless no text has them at all.
LEMMA NameIsPlain ==
  ASSUME NEW k \in {"role", "content", "messages"}
  PROVE  k \in Keys \/ k \notin Symbols
<1>1. k \notin {Quote, Backslash, Comma, Open, Close}
  BY DEF Quote, Backslash, Comma, Open, Close
<1>2. k \notin {"[", "]", ":"}
  OBVIOUS
<1>3. k \notin {Space, Newline, Control}
  BY DEF Space, Newline, Control
<1> QED
  BY <1>1, <1>2, <1>3 DEF Special, Keys

\* What is not a symbol of a text is not found there.
LEMMA NotASymbol ==
  ASSUME NEW t \in Texts, NEW k, k \notin Symbols
  PROVE  Occurrences(t, k) = {} /\ value_of(t, k) = 0
<1>1. Occurrences(t, k) = {}
  <2>1. ASSUME NEW p \in 1..(Len(t) - 2) PROVE t[p + 1] # k
    <3>1. Len(t) \in Nat /\ \A i \in 1..Len(t) : t[i] \in Symbols
      BY DEF Texts
    <3>2. p + 1 \in 1..Len(t)
      BY <3>1
    <3> QED
      BY <3>1, <3>2
  <2> QED
    BY <2>1 DEF Occurrences
<1>2. {q \in Occurrences(t, k) : AsKey(t, q)} = {}
  BY <1>1
<1> QED
  BY <1>1, <1>2 DEF value_of, find_key, Least

\* The keys of the members of an object differ.
Distinct(m) == \A i, j \in 1..Len(m) : m[i][1] = m[j][1] => i = j

NamesOf(m) == [i \in DOMAIN m |-> m[i][1]]
StringsOf(m) == [i \in DOMAIN m |-> Quoted(m[i][2])]

\* The text of a message is that of an object.
LEMMA MessageIsObject ==
  ASSUME NEW m \in Seq(Nested)
  PROVE  /\ MessageText(m) = Object(NamesOf(m), StringsOf(m))
         /\ NamesOf(m) \in Seq(Keys) /\ Len(NamesOf(m)) = Len(m)
         /\ StringsOf(m) \in Seq(Texts) /\ Len(StringsOf(m)) = Len(m)
         /\ \A i \in 1..Len(m) :
              /\ m[i][1] \in Keys /\ m[i][2] \in Texts
              /\ NamesOf(m)[i] = m[i][1] /\ StringsOf(m)[i] = Quoted(m[i][2])
<1> DEFINE names == NamesOf(m)
           texts == StringsOf(m)
<1>1. DOMAIN m = 1..Len(m) /\ Len(m) \in Nat
  OBVIOUS
<1>2. \A i \in 1..Len(m) : m[i][1] \in Keys /\ m[i][2] \in Texts
  <2>1. \A i \in 1..Len(m) : m[i] \in (Keys \ Fields) \X Texts
    BY DEF Nested
  <2> QED
    BY <2>1
<1>3. /\ names = [i \in 1..Len(m) |-> names[i]] /\ texts = [i \in 1..Len(m) |-> texts[i]]
      /\ \A i \in 1..Len(m) : names[i] = m[i][1] /\ texts[i] = Quoted(m[i][2])
  BY <1>1 DEF NamesOf, StringsOf
<1>4. MessageText(m) = Object(names, texts)
  BY DEF MessageText, NamesOf, StringsOf
<1>5. \A i \in 1..Len(m) : texts[i] \in Texts
  BY <1>2, <1>3, QuotedText
<1> HIDE DEF names, texts
<1>6. names \in Seq(Keys) /\ Len(names) = Len(m) /\ texts \in Seq(Texts) /\ Len(texts) = Len(m)
  BY <1>1, <1>2, <1>3, <1>5
<1> QED
  BY <1>2, <1>3, <1>4, <1>6 DEF names, texts

\* What is found by its key in the text of a message is what was written.
LEMMA FieldStands ==
  ASSUME NEW m \in Seq(Nested), Distinct(m), NEW k \in {"role", "content"}
  PROVE  /\ MessageText(m) \in Texts /\ Field(m, k) \in Texts
         /\ \/ value_of(MessageText(m), k) = 0 /\ Field(m, k) = << >>
            \/ \E o : FoundAt(MessageText(m), k, Quoted(Field(m, k)), o)
<1> DEFINE names == NamesOf(m)
           texts == StringsOf(m)
           t == Object(names, texts)
           S == {i \in DOMAIN m : m[i][1] = k}
<1>1. /\ MessageText(m) = t /\ names \in Seq(Keys) /\ Len(names) = Len(m)
      /\ texts \in Seq(Texts) /\ Len(texts) = Len(m)
      /\ \A i \in 1..Len(m) :
           /\ m[i][1] \in Keys /\ m[i][2] \in Texts
           /\ names[i] = m[i][1] /\ texts[i] = Quoted(m[i][2])
  BY MessageIsObject
<1>2. DOMAIN m = 1..Len(m) /\ Len(m) \in Nat
  OBVIOUS
<1> HIDE DEF names, texts
<1>3. PICK O : IsObject(t, names, texts, O)
  BY <1>1, ObjectText
<1>4. t \in Texts
  BY <1>3 DEF IsObject
<1> HIDE DEF t
<1>5. \A i \in 1..Len(names) : Len(texts[i]) # 0 /\ texts[i][1] \notin {Space, Newline}
  <2>1. SUFFICES ASSUME NEW i \in 1..Len(m)
                 PROVE  Len(texts[i]) # 0 /\ texts[i][1] \notin {Space, Newline}
    BY <1>1
  <2>2. m[i][2] \in Texts /\ texts[i] = Quoted(m[i][2])
    BY <1>1
  <2>3. Len(texts[i]) = Len(ClientEscape(m[i][2])) + 2 /\ texts[i][1] = Quote
        /\ Len(ClientEscape(m[i][2])) \in Nat
    BY <2>2, QuotedText DEF Texts
  <2> QED
    BY <2>3, Characters
<1>6. << >> \in Texts
  BY DEF Texts
<1>7. CASE k \in Keys
  <2>1. \A i \in 1..Len(names) : KeysAt(texts[i], k, {})
    <3>1. k # Quote /\ k # Backslash
      BY <1>7, KeyIsPlain
    <3> QED
      BY <1>1, <3>1, QuotedKeys
  <2>2. Len(texts) = Len(names)
    BY <1>1
  <2>3. /\ (\A i \in 1..Len(names) : names[i] # k) => value_of(t, k) = 0
        /\ \A i \in 1..Len(names) :
             names[i] = k /\ (\A j \in 1..Len(names) : names[j] = k => j = i)
               => \E o : FoundAt(t, k, texts[i], o)
    BY <1>1, <1>3, <1>5, <1>7, <2>1, <2>2, FindsKey, SMTT(30)
  <2>4. CASE S = {}
    <3>1. \A i \in 1..Len(names) : names[i] # k
      BY <1>1, <1>2, <2>4
    <3>2. value_of(t, k) = 0
      BY <2>3, <3>1
    <3> QED
      BY <1>1, <1>4, <1>6, <2>4, <3>2 DEF Field
  <2>5. CASE S # {}
    <3> DEFINE i == CHOOSE i \in S : TRUE
    <3>1. i \in S
      BY <2>5
    <3>2. Field(m, k) = m[i][2]
      BY <2>5 DEF Field
    <3> HIDE DEF i
    <3>3. i \in 1..Len(m) /\ m[i][1] = k
      BY <1>2, <3>1
    <3>4. \A j \in 1..Len(names) : names[j] = k => j = i
      BY <1>1, <3>3 DEF Distinct
    <3>5. PICK o : FoundAt(t, k, texts[i], o)
      BY <1>1, <2>3, <3>3, <3>4
    <3>6. m[i][2] \in Texts /\ texts[i] = Quoted(m[i][2])
      BY <1>1, <3>3
    <3> QED
      BY <1>1, <1>4, <3>2, <3>5, <3>6
  <2> QED
    BY <2>4, <2>5
<1>8. CASE k \notin Keys
  <2>1. k \notin Symbols
    BY <1>8, NameIsPlain
  <2>2. value_of(t, k) = 0
    BY <1>4, <2>1, NotASymbol
  <2>3. S = {}
    BY <1>1, <1>2, <1>8
  <2> QED
    BY <1>1, <1>4, <1>6, <2>2, <2>3 DEF Field
<1> QED
  BY <1>7, <1>8

\* A field of a message is read as it was written.
LEMMA FieldIsRead ==
  ASSUME NEW m \in Seq(Nested), Distinct(m), NEW k \in {"role", "content"}
  PROVE  json_parse_string(MessageText(m), k) = Field(m, k)
<1> DEFINE t == MessageText(m)
           s == Field(m, k)
           v == Quoted(s)
<1>1. /\ t \in Texts /\ s \in Texts
      /\ (value_of(t, k) = 0 /\ s = << >>) \/ \E o : FoundAt(t, k, v, o)
  BY FieldStands
<1> HIDE DEF t, s
<1>2. CASE value_of(t, k) = 0 /\ s = << >>
  BY <1>2 DEF json_parse_string, t, s
<1>3. CASE \E o : FoundAt(t, k, v, o)
  <2>1. v \in Texts /\ Len(v) # 0
    <3>1. v \in Texts /\ Len(v) = Len(ClientEscape(s)) + 2 /\ Len(ClientEscape(s)) \in Nat
      BY <1>1, QuotedText DEF Texts
    <3> QED
      BY <3>1
  <2>2. json_parse_string(t, k) = s
    BY <1>1, <1>3, <2>1, StringRead
  <2> QED
    BY <2>2 DEF t, s
<1> QED
  BY <1>1, <1>2, <1>3

\* A message is read as its role and its content.
LEMMA MessageIs ==
  ASSUME NEW m \in Seq(Nested), Distinct(m)
  PROVE  Message(MessageText(m)) = [role |-> Field(m, "role"), content |-> Field(m, "content")]
BY FieldIsRead DEF Message

-----------------------------------------------------------------------------
(* The elements of an array *)

\* Where white space ends that is looked for at p.
LEMMA SkipsSpace ==
  ASSUME NEW t \in Texts, NEW p \in 1..(Len(t) + 2)
  PROVE  skip_ws(t, p) \in p..(Len(t) + 2)
<1>1. Len(t) \in Nat
  BY DEF Texts
<1>2. CASE p <= Len(t)
  <2>1. p \in 1..Len(t)
    BY <1>1, <1>2
  <2>2. skip_ws(t, p) \in p..(Len(t) + 1)
    BY <2>1, PastExists DEF skip_ws
  <2> QED
    BY <1>1, <2>2
<1>3. CASE p > Len(t)
  <2> DEFINE M == {q \in p..Len(t) : t[q] \notin {Space, Newline}}
                  \cup {IF p > Len(t) THEN p ELSE Len(t) + 1}
  <2>1. M = {p}
    BY <1>1, <1>3
  <2>2. skip_ws(t, p) = Min(M)
    BY DEF skip_ws, Past
  <2> HIDE DEF M
  <2>3. M \in SUBSET Nat /\ M # {}
    BY <1>1, <2>1
  <2>4. Min(M) \in M
    BY <2>3, MinExists
  <2>5. skip_ws(t, p) = p
    BY <2>1, <2>2, <2>4
  <2> QED
    BY <1>1, <2>5
<1> QED
  BY <1>1, <1>2, <1>3

\* The object that opens at q.
ObjectAt(t, q) == SubSeq(t, q, Min({ObjectEnd(t, q) - 1, Len(t)}))

Pushed(obj) == IF Message(obj).role = << >> THEN << >> ELSE <<Message(obj)>>

\* The messages from q on, where no white space is.
ElementAt(t, M, q) ==
  IF At(t, q, Comma) THEN M[q + 1]
  ELSE IF ~At(t, q, Open) THEN << >>
  ELSE Pushed(ObjectAt(t, q))
       \o (IF ObjectEnd(t, q) > Len(t) THEN << >> ELSE M[ObjectEnd(t, q)])

IsElements(M, t) == M = [p \in 1..(Len(t) + 2) |-> ElementAt(t, M, skip_ws(t, p))]

\* The function that LET defines in Elements exists.
LEMMA ElementsExist ==
  ASSUME NEW t \in Texts
  PROVE  \E M : IsElements(M, t)
<1> DEFINE N == Len(t) + 2
           X == {Message(SubSeq(t, a, b)) : a \in Int, b \in Int}
           S == Seq(X)
           g == [x \in (1..N) \X [1..N -> S] |-> ElementAt(t, x[2], skip_ws(t, x[1]))]
<1>1. N \in Nat /\ Len(t) \in Nat /\ << >> \in S
  BY DEF Texts
<1>2. ASSUME NEW p \in 1..N
      PROVE  /\ skip_ws(t, p) \in p..N
             /\ skip_ws(t, p) <= Len(t) =>
                  /\ skip_ws(t, p) + 1 \in (p + 1)..N
                  /\ ObjectEnd(t, skip_ws(t, p)) \in (p + 1)..N
  <2> DEFINE q == skip_ws(t, p)
  <2>1. q \in p..N
    BY SkipsSpace
  <2> HIDE DEF q
  <2>2. ASSUME q <= Len(t) PROVE ObjectEnd(t, q) \in (p + 1)..N
    <3>1. q \in 1..Len(t) /\ 0 \in Int
      BY <1>1, <2>1, <2>2
    <3>2. Walk(t, q, 0) \in (q + 1)..N
      BY <3>1, WalkAfter
    <3>3. ObjectEnd(t, q) = Walk(t, q, 0)
      BY WalkIs
    <3> QED
      BY <1>1, <2>1, <3>2, <3>3
  <2>3. q <= Len(t) => q + 1 \in (p + 1)..N
    BY <1>1, <2>1
  <2> QED
    BY <2>1, <2>2, <2>3 DEF q
<1>3. \A q, c : At(t, q, c) => q <= Len(t)
  BY DEF At
<1>4. ASSUME NEW p \in 1..N, NEW M \in [1..N -> S]
      PROVE  ElementAt(t, M, skip_ws(t, p)) \in S
  <2> DEFINE q == skip_ws(t, p)
             e == ObjectEnd(t, q)
  <2>1. CASE At(t, q, Comma)
    <3>1. q + 1 \in 1..N
      BY <1>1, <1>2, <1>3, <2>1
    <3>2. M[q + 1] \in S
      BY <3>1
    <3> QED
      BY <2>1, <3>2 DEF ElementAt
  <2>2. CASE ~At(t, q, Comma) /\ ~At(t, q, Open)
    BY <1>1, <2>2 DEF ElementAt
  <2>3. CASE ~At(t, q, Comma) /\ At(t, q, Open)
    <3>1. q \in Int /\ e \in 1..N
      BY <1>1, <1>2, <1>3, <2>3
    <3> DEFINE rest == IF e > Len(t) THEN << >> ELSE M[e]
               b == Min({e - 1, Len(t)})
               m == Message(SubSeq(t, q, b))
    <3>2. rest \in S
      BY <1>1, <3>1
    <3>3. b \in Int
      <4> DEFINE R == {e - 1, Len(t)}
      <4>1. R \in SUBSET Nat /\ R # {}
        BY <1>1, <3>1
      <4> HIDE DEF R
      <4> DEFINE least == Min(R)
      <4>2. least \in R
        BY <4>1, MinExists
      <4> HIDE DEF least
      <4>3. least \in Int
        BY <4>1, <4>2
      <4> QED
        BY <4>3 DEF R, least
    <3>4. m \in X
      <4> HIDE DEF q, b
      <4> QED
        BY <3>1, <3>3
    <3> DEFINE a == IF m.role = << >> THEN << >> ELSE <<m>>
    <3>5. ElementAt(t, M, q) = a \o rest
      <4>1. Pushed(ObjectAt(t, q)) = a
        <5> HIDE DEF q
        <5> QED
          BY DEF Pushed, ObjectAt
      <4> HIDE DEF q, a
      <4>2. ElementAt(t, M, q) = Pushed(ObjectAt(t, q)) \o rest
        BY <2>3 DEF ElementAt
      <4> QED
        BY <4>1, <4>2
    <3> HIDE DEF rest, m, X
    <3>6. a \in Seq(X)
      BY <3>4
    <3> HIDE DEF a
    <3>7. a \o rest \in Seq(X)
      BY <3>2, <3>6, ConcatProperties
    <3> QED
      BY <3>5, <3>7
  <2> QED
    BY <2>1, <2>2, <2>3
<1>5. g \in [(1..N) \X [1..N -> S] -> S]
  <2>1. ASSUME NEW x \in (1..N) \X [1..N -> S]
        PROVE  ElementAt(t, x[2], skip_ws(t, x[1])) \in S
    <3>1. x[1] \in 1..N /\ x[2] \in [1..N -> S]
      OBVIOUS
    <3> HIDE DEF N, S
    <3> QED
      BY <1>4, <3>1
  <2> HIDE DEF N, S
  <2> QED
    BY <2>1
<1>6. LooksAhead(g, N, S)
  <2>1. SUFFICES ASSUME NEW p \in 1..N, NEW f \in [1..N -> S], NEW h \in [1..N -> S],
                        \A q \in (p + 1)..N : f[q] = h[q]
                 PROVE  g[<<p, f>>] = g[<<p, h>>]
    <3> HIDE DEF g, N, S
    <3> QED
      BY DEF LooksAhead
  <2>2. /\ g[<<p, f>>] = ElementAt(t, f, skip_ws(t, p))
        /\ g[<<p, h>>] = ElementAt(t, h, skip_ws(t, p))
    <3> HIDE DEF N, S
    <3> QED
      OBVIOUS
  <2> DEFINE q == skip_ws(t, p)
  <2>3. CASE q <= Len(t)
    <3>1. f[q + 1] = h[q + 1] /\ f[ObjectEnd(t, q)] = h[ObjectEnd(t, q)]
      BY <1>2, <2>1, <2>3, SMTT(30)
    <3> HIDE DEF q
    <3>2. ElementAt(t, f, q) = ElementAt(t, h, q)
      BY <3>1 DEF ElementAt
    <3> HIDE DEF g
    <3> QED
      BY <2>2, <3>2 DEF q
  <2>4. CASE ~(q <= Len(t))
    <3>1. ~At(t, q, Comma) /\ ~At(t, q, Open)
      BY <1>3, <2>4
    <3> HIDE DEF q
    <3>2. ElementAt(t, f, q) = ElementAt(t, h, q)
      BY <3>1 DEF ElementAt
    <3> HIDE DEF g
    <3> QED
      BY <2>2, <3>2 DEF q
  <2> HIDE DEF q, g
  <2> QED
    BY <2>3, <2>4
<1>7. PICK M : IsBackward(M, N, S, g)
  <2> HIDE DEF g, N, S
  <2> QED
    BY <1>1, <1>5, <1>6, BackwardRecursion
<1>8. M \in [1..N -> S] /\ \A p \in 1..N : M[p] = g[<<p, M>>]
  <2> HIDE DEF g, N, S
  <2> QED
    BY <1>7 DEF IsBackward
<1>9. \A p \in 1..N : M[p] = ElementAt(t, M, skip_ws(t, p))
  <2> HIDE DEF N, S
  <2> QED
    BY <1>8
<1>10. M = [p \in 1..N |-> ElementAt(t, M, skip_ws(t, p))]
  <2> HIDE DEF S, g
  <2> QED
    BY <1>8, <1>9
<1> QED
  BY <1>10 DEF IsElements

\* One step of the loop over the elements.
LEMMA ElementsAt ==
  ASSUME NEW t \in Texts, NEW p \in 1..(Len(t) + 2)
  PROVE  Elements(t)[p] = ElementAt(t, Elements(t), skip_ws(t, p))
<1> DEFINE M == CHOOSE M : IsElements(M, t)
<1>1. IsElements(M, t)
  BY ElementsExist
<1>2. Elements(t) = M
  BY DEF Elements, IsElements, ElementAt, Pushed, ObjectAt
<1> HIDE DEF M
<1>3. M = [r \in 1..(Len(t) + 2) |-> ElementAt(t, M, skip_ws(t, r))]
  BY <1>1 DEF IsElements
<1>4. M[p] = ElementAt(t, M, skip_ws(t, p))
  BY <1>3, Zenon
<1> QED
  BY <1>2, <1>4

\* Between two parts there are spaces only after the comma.
LEMMA LeadText ==
  /\ Lead \in Texts /\ Len(Lead) \in Nat \ {0} /\ Lead[1] = Comma
  /\ \A j \in 2..Len(Lead) : Lead[j] = Space
<1> DEFINE a == Comma
           b == Space
<1>1. a \in Symbols /\ b \in Symbols
  BY SymbolsHold
<1>2. CASE blank
  <2>1. Lead = <<a>> \o <<b>>
    BY <1>2 DEF Lead, Blank
  <2> HIDE DEF a, b
  <2>2. <<a>> \o <<b>> \in Seq(Symbols) /\ Len(<<a>> \o <<b>>) = 2
        /\ (<<a>> \o <<b>>)[1] = a /\ (<<a>> \o <<b>>)[2] = b
    BY <1>1
  <2>3. Lead \in Texts /\ Len(Lead) = 2 /\ Lead[1] = a /\ Lead[2] = b
    BY <2>1, <2>2 DEF Texts
  <2>4. \A j \in 2..2 : j = 2
    OBVIOUS
  <2> QED
    BY <2>3, <2>4 DEF a, b
<1>3. CASE ~blank
  <2>1. Lead = <<a>> \o << >>
    BY <1>3 DEF Lead, Blank
  <2> HIDE DEF a, b
  <2>2. Lead = <<a>>
    BY <1>1, <2>1, ConcatEmptySeq
  <2>3. Lead \in Texts /\ Len(Lead) = 1 /\ Lead[1] = a
    BY <1>1, <2>2 DEF Texts
  <2> QED
    BY <2>3 DEF a
<1> QED
  BY <1>2, <1>3

\* Commas are passed over, and the bracket ends the array.
LEMMA ElementsPass ==
  ASSUME NEW t \in Texts, NEW p \in 1..Len(t)
  PROVE  /\ t[p] = Comma => Elements(t)[p] = Elements(t)[p + 1]
         /\ t[p] = "]" => Elements(t)[p] = << >>
<1>1. SUFFICES ASSUME t[p] \in {Comma, "]"}
               PROVE  /\ t[p] = Comma => Elements(t)[p] = Elements(t)[p + 1]
                      /\ t[p] = "]" => Elements(t)[p] = << >>
  OBVIOUS
<1>2. Len(t) \in Nat /\ p \in 1..(Len(t) + 2) /\ p \in p..(Len(t) + 1) /\ p \in Nat \ {0}
  BY DEF Texts
<1>3. t[p] \notin {Space, Newline}
  BY <1>1, Characters
<1>4. skip_ws(t, p) = p
  <2>1. \A i \in p..(p - 1) : t[i] \in {Space, Newline}
    OBVIOUS
  <2> QED
    BY <1>2, <1>3, <2>1, PastIs DEF skip_ws
<1>5. Elements(t)[p] = ElementAt(t, Elements(t), p)
  BY <1>2, <1>4, ElementsAt
<1>6. \A c : At(t, p, c) <=> t[p] = c
  BY <1>2 DEF At
<1>7. "]" # Comma /\ "]" # Open
  BY DEF Comma, Open
<1> QED
  BY <1>5, <1>6, <1>7 DEF ElementAt

\* What arrives of a message.
Arrives(m) ==
  IF Field(m, "role") = << >> THEN << >>
  ELSE <<[role |-> Field(m, "role"), content |-> Field(m, "content")]>>

\* Where the object of a message that stands in a text ends.
LEMMA MessageEnds ==
  ASSUME NEW t \in Texts, NEW m \in Seq(Nested), NEW o \in Nat, Stands(t, o, MessageText(m))
  PROVE  /\ MessageText(m) \in Texts /\ At(t, o + 1, Open)
         /\ ObjectEnd(t, o + 1) = o + Len(MessageText(m)) + 1
<1> DEFINE z == MessageText(m)
           names == NamesOf(m)
           texts == StringsOf(m)
           w == Object(names, texts)
<1>1. /\ z = w /\ names \in Seq(Keys) /\ texts \in Seq(Texts)
      /\ Len(names) = Len(m) /\ Len(texts) = Len(m)
      /\ \A i \in 1..Len(m) : m[i][2] \in Texts /\ texts[i] = Quoted(m[i][2])
  BY MessageIsObject
<1> HIDE DEF names, texts
<1>2. ASSUME NEW i \in 1..Len(names) PROVE Skips(texts[i])
  <2>1. m[i][2] \in Texts /\ texts[i] = Quoted(m[i][2])
    BY <1>1, <1>2
  <2> QED
    BY <2>1, SkipsQuoted
<1>3. Stands(t, o, w)
  BY <1>1
<1>4. w \in Texts /\ At(t, o + 1, Open) /\ ObjectEnd(t, o + 1) = o + Len(w) + 1
  BY <1>1, <1>2, <1>3, ObjectEndIs
<1> HIDE DEF w
<1> QED
  BY <1>1, <1>4

\* A message that stands in an array, after spaces, arrives, and the rest follows.
LEMMA MessagePushed ==
  ASSUME NEW t \in Texts, NEW m \in Seq(Nested), Distinct(m), NEW o \in Nat,
         Stands(t, o, MessageText(m)), o + Len(MessageText(m)) < Len(t),
         NEW p \in 1..(o + 1), \A i \in p..o : t[i] = Space
  PROVE  Elements(t)[p] = Arrives(m) \o Elements(t)[o + Len(MessageText(m)) + 1]
<1> DEFINE z == MessageText(m)
           L == Len(z)
<1>1. Stands(t, o, z) /\ o + L < Len(t)
  OBVIOUS
<1>2. Message(z) = [role |-> Field(m, "role"), content |-> Field(m, "content")]
  BY MessageIs
<1>3. Message(z).role = Field(m, "role")
  BY <1>2
<1>4. z \in Texts /\ At(t, o + 1, Open) /\ ObjectEnd(t, o + 1) = o + L + 1
  BY MessageEnds
<1> HIDE DEF z
<1>5. L \in Nat /\ Len(t) \in Nat
  BY <1>4 DEF Texts
<1> HIDE DEF L
<1>6. o + 1 <= Len(t) /\ t[o + 1] = Open
  BY <1>4 DEF At
<1>7. skip_ws(t, p) = o + 1
  <2>1. \A i \in p..((o + 1) - 1) : t[i] \in {Space, Newline}
    OBVIOUS
  <2>2. Open \notin {Space, Newline}
    BY Characters
  <2>3. p \in Nat \ {0} /\ o + 1 \in p..(Len(t) + 1)
    BY <1>5, <1>6
  <2> QED
    BY <1>6, <2>1, <2>2, <2>3, PastIs DEF skip_ws
<1>8. ObjectAt(t, o + 1) = z
  <2>1. (o + L + 1) - 1 = o + L /\ o + L \in Nat /\ o + L <= Len(t)
    BY <1>1, <1>5
  <2>2. Min({o + L, Len(t)}) = o + L
    BY <1>5, <2>1, SmallerOfTwo
  <2>3. ObjectAt(t, o + 1) = SubSeq(t, o + 1, o + L)
    BY <1>4, <2>1, <2>2 DEF ObjectAt
  <2> QED
    BY <1>1, <1>4, <2>3, PieceIs DEF L
<1>9. Pushed(z) = Arrives(m)
  BY <1>2, <1>3 DEF Pushed, Arrives
<1>10. Elements(t)[p] = ElementAt(t, Elements(t), o + 1)
  <2>1. p \in 1..(Len(t) + 2)
    BY <1>5, <1>6
  <2> QED
    BY <1>7, <2>1, ElementsAt
<1>11. ~At(t, o + 1, Comma) /\ ~(o + L + 1 > Len(t))
  BY <1>1, <1>5, <1>6, Characters DEF At
<1>12. Elements(t)[p] = Arrives(m) \o Elements(t)[o + L + 1]
  BY <1>4, <1>8, <1>9, <1>10, <1>11 DEF ElementAt
<1> QED
  BY <1>12 DEF L, z

\* The parts of a list stand in a row where the list stands.
LEMMA SeparatedStands ==
  ASSUME NEW parts \in Seq(Texts), NEW t \in Texts, NEW o \in Nat,
         Stands(t, o, Separated(parts))
  PROVE  /\ Separated(parts) \in Texts
         /\ \E A : Row(t, o, parts, A) /\ RowEnd(o, parts, A) = o + Len(Separated(parts))
<1> DEFINE u == Separated(parts)
<1>1. PICK O : IsSeparated(u, parts, O) /\ Row(u, 0, parts, O) /\ RowEnd(0, parts, O) = Len(u)
  BY SeparatedText
<1>2. u \in Texts
  BY <1>1 DEF IsSeparated
<1>3. Stands(t, o, u) /\ 0 \in Nat /\ o + 0 = o
  OBVIOUS
<1> HIDE DEF u
<1> DEFINE A == [i \in 1..Len(parts) |-> o + O[i]]
<1>4. Row(t, o + 0, parts, A) /\ RowEnd(o + 0, parts, A) = o + RowEnd(0, parts, O)
  <2>1. Row(u, 0, parts, O) /\ A = [i \in 1..Len(parts) |-> o + O[i]]
    BY <1>1
  <2> HIDE DEF A
  <2> QED
    BY <1>2, <1>3, <2>1, RowShift
<1> HIDE DEF A
<1>5. Row(t, o, parts, A) /\ RowEnd(o, parts, A) = o + Len(u)
  BY <1>1, <1>3, <1>4
<1> QED
  BY <1>2, <1>5 DEF u

TextsOf(l) == [i \in DOMAIN l |-> MessageText(l[i])]

\* The texts of the messages of a list.
LEMMA TextsOfMessages ==
  ASSUME NEW l \in Seq(Seq(Nested))
  PROVE  /\ TextsOf(l) \in Seq(Texts) /\ Len(TextsOf(l)) = Len(l)
         /\ \A i \in 1..Len(l) : TextsOf(l)[i] = MessageText(l[i]) /\ l[i] \in Seq(Nested)
<1>1. DOMAIN l = 1..Len(l) /\ Len(l) \in Nat /\ \A i \in 1..Len(l) : l[i] \in Seq(Nested)
  OBVIOUS
<1>2. TextsOf(l) = [i \in 1..Len(l) |-> MessageText(l[i])]
  BY <1>1 DEF TextsOf
<1>3. \A i \in 1..Len(l) : MessageText(l[i]) \in Texts
  BY <1>1, MessageKeys
<1> QED
  BY <1>1, <1>2, <1>3

\* Where the parts of a row stand, and where it ends.
LEMMA RowEnds ==
  ASSUME NEW parts \in Seq(Texts), NEW t, NEW o \in Nat, NEW A,
         NEW d \in Nat, Row(t, o, parts, A), RowEnd(o, parts, A) = o + d
  PROVE  /\ Len(parts) > 0 => A[1] = o /\ A[Len(parts)] + Len(parts[Len(parts)]) = o + d
         /\ Len(parts) = 0 => d = 0
         /\ \A i \in 1..Len(parts) : /\ A[i] \in Nat /\ Stands(t, A[i], parts[i])
                                     /\ Len(parts[i]) \in Nat /\ A[i] + Len(parts[i]) \in Nat
         /\ \A i \in 1..Len(parts) : i < Len(parts) =>
              /\ A[i + 1] = (A[i] + Len(parts[i])) + Len(Lead)
              /\ Stands(t, A[i] + Len(parts[i]), Lead)
<1> DEFINE n == Len(parts)
<1>1. n \in Nat /\ \A i \in 1..n : Len(parts[i]) \in Nat
  BY DEF Texts
<1>2. n > 0 => n # 0
  OBVIOUS
<1>3. n = 0 => o + d = o
  BY DEF RowEnd
<1>4. n > 0 => A[n] + Len(parts[n]) = o + d
  BY <1>2 DEF RowEnd
<1>5. \A i \in 1..n : A[i] \in Nat
  BY DEF Row
<1>6. (n > 0 => A[1] = o) /\ \A i \in 1..n : Stands(t, A[i], parts[i])
  BY DEF Row
<1>7. \A i \in 1..n : i < n => /\ A[i + 1] = (A[i] + Len(parts[i])) + Len(Lead)
                              /\ Stands(t, A[i] + Len(parts[i]), Lead)
  BY DEF Row
<1>8. \A i \in 1..n : A[i] + Len(parts[i]) \in Nat
  BY <1>1, <1>5
<1>9. n = 0 => d = 0
  BY <1>3
<1> QED
  BY <1>1, <1>4, <1>5, <1>6, <1>7, <1>8, <1>9

\* The messages of an array are read from where its first one stands.
LEMMA ListElements ==
  ASSUME NEW l \in Seq(Seq(Nested)), \A i \in 1..Len(l) : Distinct(l[i]),
         NEW t \in Texts, NEW o \in Nat, Stands(t, o, Separated(TextsOf(l))),
         At(t, o + Len(Separated(TextsOf(l))) + 1, "]")
  PROVE  Elements(t)[o + 1] = AsMessages(l)
<1> DEFINE n == Len(l)
           parts == TextsOf(l)
           u == Separated(parts)
           M == Elements(t)
           S == {[role |-> Field(l[i], "role"), content |-> Field(l[i], "content")] : i \in 1..n}
           y == [i \in DOMAIN l |-> Arrives(l[i])]
<1>1. /\ n \in Nat /\ parts \in Seq(Texts) /\ Len(parts) = n /\ DOMAIN l = 1..n
      /\ \A i \in 1..n : parts[i] = MessageText(l[i]) /\ l[i] \in Seq(Nested) /\ Distinct(l[i])
  BY TextsOfMessages
<1>2. AsMessages(l) = FlattenSeq(y)
  BY DEF AsMessages, Arrives
<1>3. y \in Seq(Seq(S)) /\ Len(y) = n /\ \A i \in 1..n : y[i] = Arrives(l[i]) /\ Arrives(l[i]) \in Seq(S)
  <2>1. ASSUME NEW i \in 1..n PROVE Arrives(l[i]) \in Seq(S)
    <3> DEFINE r == [role |-> Field(l[i], "role"), content |-> Field(l[i], "content")]
    <3>1. r \in S
      OBVIOUS
    <3> HIDE DEF S
    <3>2. Arrives(l[i]) = << >> \/ Arrives(l[i]) = <<r>>
      BY DEF Arrives
    <3> HIDE DEF r
    <3>3. << >> \in Seq(S) /\ <<r>> \in Seq(S)
      BY <3>1
    <3> QED
      BY <3>2, <3>3
  <2>2. y = [i \in 1..n |-> Arrives(l[i])]
    BY <1>1
  <2> HIDE DEF S
  <2> QED
    BY <1>1, <2>1, <2>2
<1> HIDE DEF S, y
<1>4. PICK F : Flattens(F, y, S) /\ FlattenSeq(y) = F[Len(y)]
  BY <1>3, Flattening
<1>5. /\ F[0] = << >> /\ AsMessages(l) = F[n] /\ \A i \in 0..n : F[i] \in Seq(S)
      /\ \A i \in 1..n : F[i] = F[i - 1] \o y[i]
  BY <1>2, <1>3, <1>4 DEF Flattens
<1>6. PICK A : u \in Texts /\ Row(t, o, parts, A) /\ RowEnd(o, parts, A) = o + Len(u)
  BY <1>1, SeparatedStands
<1>7. u \in Texts /\ Len(u) \in Nat /\ Len(t) \in Nat
  BY <1>6 DEF Texts
<1>8. Stands(t, o, u) /\ At(t, o + Len(u) + 1, "]")
  OBVIOUS
<1> HIDE DEF parts, u
<1>9. Row(t, o, parts, A) /\ RowEnd(o, parts, A) = o + Len(u)
  BY <1>6
<1>10. /\ n > 0 => A[1] = o /\ A[n] + Len(parts[n]) = o + Len(u)
       /\ n = 0 => Len(u) = 0
       /\ \A i \in 1..n : /\ A[i] \in Nat /\ Stands(t, A[i], parts[i])
                          /\ Len(parts[i]) \in Nat /\ A[i] + Len(parts[i]) \in Nat
       /\ \A i \in 1..n : i < n => /\ A[i + 1] = (A[i] + Len(parts[i])) + Len(Lead)
                                  /\ Stands(t, A[i] + Len(parts[i]), Lead)
  <2> DEFINE d == Len(u)
  <2>1. Len(parts) = n /\ parts \in Seq(Texts) /\ d \in Nat
    BY <1>1, <1>7
  <2>2. Row(t, o, parts, A) /\ RowEnd(o, parts, A) = o + d
    BY <1>9
  <2> HIDE DEF d, n
  <2>3. /\ Len(parts) > 0 => A[1] = o /\ A[Len(parts)] + Len(parts[Len(parts)]) = o + d
        /\ Len(parts) = 0 => d = 0
        /\ \A i \in 1..Len(parts) : /\ A[i] \in Nat /\ Stands(t, A[i], parts[i])
                                    /\ Len(parts[i]) \in Nat /\ A[i] + Len(parts[i]) \in Nat
        /\ \A i \in 1..Len(parts) : i < Len(parts) =>
             /\ A[i + 1] = (A[i] + Len(parts[i])) + Len(Lead)
             /\ Stands(t, A[i] + Len(parts[i]), Lead)
    BY <2>1, <2>2, RowEnds, ZenonT(30)
  <2> QED
    BY <2>1, <2>3 DEF d
<1> DEFINE End(i) == A[i] + Len(parts[i])
           From(i) == IF i = 0 THEN o + 1 ELSE End(i) + 1
<1>11. /\ Lead \in Texts /\ Len(Lead) \in Nat \ {0} /\ Lead[1] = Comma
       /\ \A j \in 2..Len(Lead) : Lead[j] = Space
  BY LeadText
<1>12. ASSUME NEW i \in 1..n PROVE A[i] + Len(parts[i]) < Len(t)
  <2>1. CASE i < n
    <3>1. Stands(t, End(i), Lead) /\ End(i) \in Nat
      BY <1>10, <2>1
    <3> HIDE DEF End
    <3>2. End(i) < Len(t)
      BY <1>7, <1>11, <3>1 DEF Stands
    <3> QED
      BY <3>2 DEF End
  <2>2. CASE ~(i < n)
    <3>1. i = n /\ n > 0
      BY <1>1, <2>2
    <3>2. End(i) = o + Len(u) /\ o + Len(u) + 1 <= Len(t)
      BY <1>8, <1>10, <3>1 DEF At
    <3> QED
      BY <1>7, <3>2
  <2> QED
    BY <2>1, <2>2
<1>13. ASSUME NEW i \in 1..n, NEW p \in 1..(A[i] + 1), \A j \in p..A[i] : t[j] = Space
       PROVE  M[p] = y[i] \o M[From(i)]
  <2> DEFINE m == l[i]
             a == A[i]
  <2>1. /\ m \in Seq(Nested) /\ Distinct(m) /\ parts[i] = MessageText(m) /\ a \in Nat
        /\ Stands(t, a, parts[i]) /\ a + Len(parts[i]) < Len(t) /\ y[i] = Arrives(m)
    BY <1>1, <1>3, <1>10, <1>12
  <2>2. From(i) = a + Len(parts[i]) + 1
    BY <1>1
  <2> HIDE DEF From, m, M
  <2>3. p \in 1..(a + 1) /\ \A j \in p..a : t[j] = Space
    BY <1>13
  <2> HIDE DEF a
  <2>4. Elements(t)[p] = Arrives(m) \o Elements(t)[a + Len(MessageText(m)) + 1]
    BY <2>1, <2>3, MessagePushed
  <2> QED
    BY <2>1, <2>2, <2>4 DEF M
<1>14. ASSUME NEW i \in 1..n PROVE M[From(i - 1)] = y[i] \o M[From(i)]
  <2>1. CASE i = 1
    <3>1. A[i] = o /\ i - 1 = 0
      BY <1>1, <1>10, <2>1
    <3>2. From(i - 1) = A[i] + 1
      BY <3>1
    <3>3. A[i] + 1 \in 1..(A[i] + 1) /\ \A j \in (A[i] + 1)..A[i] : t[j] = Space
      BY <3>1
    <3> HIDE DEF From
    <3> QED
      BY <1>13, <3>2, <3>3
  <2>2. CASE i # 1
    <3> DEFINE k == i - 1
               e == End(k)
    <3>1. k \in 1..n /\ k < n /\ k + 1 = i /\ k # 0
      BY <1>1, <2>2
    <3>2. From(k) = e + 1
      BY <3>1
    <3> HIDE DEF k
    <3>3. A[i] = e + Len(Lead) /\ Stands(t, e, Lead) /\ e \in Nat
      BY <1>10, <3>1
    <3> HIDE DEF e, From
    <3>4. \A j \in 1..Len(Lead) : t[e + j] = Lead[j]
      BY <3>3 DEF Stands
    <3>5. e + 1 \in 1..Len(t) /\ t[e + 1] = Comma
      <4>1. 1 \in 1..Len(Lead)
        BY <1>11
      <4>2. e + Len(Lead) <= Len(t)
        BY <3>3 DEF Stands
      <4> QED
        BY <1>7, <1>11, <3>3, <3>4, <4>1, <4>2
    <3>6. M[e + 1] = M[(e + 1) + 1]
      BY <3>5, ElementsPass
    <3>7. (e + 1) + 1 \in 1..(A[i] + 1)
      BY <1>11, <3>3
    <3>8. ASSUME NEW j \in ((e + 1) + 1)..A[i] PROVE t[j] = Space
      <4>1. j - e \in 2..Len(Lead) /\ j - e \in 1..Len(Lead) /\ e + (j - e) = j
        BY <1>11, <3>3
      <4> QED
        BY <1>11, <3>4, <4>1
    <3>9. M[(e + 1) + 1] = y[i] \o M[From(i)]
      <4> HIDE DEF M
      <4> QED
        BY <1>13, <3>7, <3>8
    <3> QED
      BY <3>2, <3>6, <3>9 DEF k
  <2> QED
    BY <2>1, <2>2
<1>15. M[From(n)] = << >>
  <2>1. From(n) = o + Len(u) + 1
    <3>1. CASE n = 0
      BY <1>10, <3>1
    <3>2. CASE n # 0
      <4>1. n > 0
        BY <1>1, <3>2
      <4>2. End(n) = o + Len(u)
        BY <1>10, <4>1
      <4> HIDE DEF End
      <4> QED
        BY <3>2, <4>2
    <3> QED
      BY <3>1, <3>2
  <2> HIDE DEF From
  <2>2. o + Len(u) + 1 \in 1..Len(t) /\ t[o + Len(u) + 1] = "]"
    BY <1>7, <1>8 DEF At
  <2>3. M[o + Len(u) + 1] = << >>
    BY <2>2, ElementsPass
  <2> QED
    BY <2>1, <2>3
<1> HIDE DEF M, End, From, n
<1> DEFINE Good(i) == M[From(i)] \in Seq(S) /\ F[i] \o M[From(i)] = F[n]
           G == {j \in Nat : j <= n => Good(n - j)}
<1>16. 0 \in G
  <2>1. n - 0 = n /\ F[n] \in Seq(S)
    BY <1>1, <1>5
  <2>2. F[n] \o << >> = F[n]
    BY <2>1, ConcatEmptySeq
  <2>3. << >> \in Seq(S)
    OBVIOUS
  <2>4. Good(n)
    BY <1>15, <2>2, <2>3
  <2> HIDE DEF Good
  <2> QED
    BY <2>1, <2>4
<1>17. ASSUME NEW i \in 1..n, Good(i) PROVE Good(i - 1)
  <2> DEFINE x == M[From(i)]
             b == F[i - 1]
             z == y[i]
  <2>1. x \in Seq(S) /\ F[i] \o x = F[n] /\ i - 1 \in 0..n
    BY <1>1, <1>17
  <2>2. b \in Seq(S) /\ z \in Seq(S) /\ F[i] = b \o z /\ M[From(i - 1)] = z \o x
    BY <1>3, <1>5, <1>14, <2>1
  <2> HIDE DEF x, b, z
  <2>3. z \o x \in Seq(S)
    BY <2>1, <2>2, ConcatProperties
  <2>4. (b \o z) \o x = b \o (z \o x)
    <3>1. b \in Seq(S) /\ z \in Seq(S) /\ x \in Seq(S)
      BY <2>1, <2>2
    <3> QED
      BY <3>1, SMTT(30)
  <2>5. b \o M[From(i - 1)] = F[n]
    BY <2>1, <2>2, <2>4
  <2> QED
    BY <2>2, <2>3, <2>5 DEF b
<1> HIDE DEF Good
<1>18. ASSUME NEW j \in Nat, j \in G PROVE j + 1 \in G
  <2>1. SUFFICES ASSUME j + 1 <= n PROVE Good(n - (j + 1))
    OBVIOUS
  <2>2. n - j \in 1..n /\ (n - j) - 1 = n - (j + 1) /\ Good(n - j)
    BY <1>1, <1>18, <2>1
  <2> HIDE DEF G
  <2>3. Good((n - j) - 1)
    BY <1>17, <2>2
  <2> QED
    BY <2>2, <2>3
<1>19. Nat \subseteq G
  <2> HIDE DEF G
  <2> QED
    BY <1>16, <1>18, NatInductionOnSet
<1>20. Good(0)
  <2>1. n \in G
    BY <1>1, <1>19
  <2>2. n - n = 0 /\ n <= n
    BY <1>1
  <2>3. Good(n - n)
    BY <2>1, <2>2
  <2> QED
    BY <2>2, <2>3
<1>21. M[From(0)] \in Seq(S) /\ << >> \o M[From(0)] = F[n]
  BY <1>5, <1>20 DEF Good
<1>22. M[From(0)] = AsMessages(l)
  BY <1>5, <1>21, ConcatEmptySeq
<1> QED
  BY <1>22 DEF From, M

-----------------------------------------------------------------------------
(* Where a word stands between quotes *)

\* What is written around strings and between them.
Marks == {Comma, Open, Close, "[", "]", ":", Space}

\* None of them is a key or a quote.
LEMMA MarksDiffer ==
  ASSUME NEW k \in Keys
  PROVE  k \notin Marks /\ Quote \notin Marks /\ k # Quote
BY KeyIsPlain, Characters DEF Marks

\* A word in a part of a text is one of the text.
LEMMA HitMoves ==
  ASSUME NEW t \in Texts, NEW x \in Texts, NEW o \in Nat, Stands(t, o, x), NEW k,
         NEW q \in Occurrences(x, k)
  PROVE  o + q \in Occurrences(t, k)
<1>1. Len(t) \in Nat /\ Len(x) \in Nat /\ o + Len(x) <= Len(t)
  BY DEF Texts, Stands
<1>2. q \in 1..(Len(x) - 2) /\ x[q + 1] = k /\ x[q] = Quote /\ x[q + 2] = Quote
  BY DEF Occurrences
<1>3. q \in 1..Len(x) /\ q + 1 \in 1..Len(x) /\ q + 2 \in 1..Len(x)
  BY <1>1, <1>2
<1>4. t[o + q] = Quote /\ t[o + (q + 1)] = k /\ t[o + (q + 2)] = Quote
  BY <1>2, <1>3 DEF Stands
<1>5. o + q \in 1..(Len(t) - 2) /\ o + (q + 1) = (o + q) + 1 /\ o + (q + 2) = (o + q) + 2
  BY <1>1, <1>2
<1> QED
  BY <1>4, <1>5 DEF Occurrences

\* One that begins in a part before a mark is a word of the part.
LEMMA HitWithin ==
  ASSUME NEW t \in Texts, NEW x \in Texts, NEW o \in Nat, Stands(t, o, x), NEW k \in Keys,
         NEW p \in Occurrences(t, k), o < p, p <= o + Len(x),
         o + Len(x) < Len(t) => t[o + Len(x) + 1] \in Marks
  PROVE  p - o \in Occurrences(x, k)
<1>1. Len(t) \in Nat /\ Len(x) \in Nat /\ o + Len(x) <= Len(t)
  BY DEF Texts, Stands
<1>2. p \in 1..(Len(t) - 2) /\ t[p + 1] = k /\ t[p] = Quote /\ t[p + 2] = Quote
  BY DEF Occurrences
<1>3. p + 2 <= o + Len(x)
  <2>1. SUFFICES ASSUME p + 2 > o + Len(x) PROVE FALSE
    BY <1>1, <1>2
  <2>2. o + Len(x) + 1 = p + 1 \/ o + Len(x) + 1 = p + 2
    BY <1>1, <1>2, <2>1
  <2>3. t[o + Len(x) + 1] \in Marks
    BY <1>1, <1>2, <2>1
  <2> QED
    BY <1>2, <2>2, <2>3, MarksDiffer
<1> DEFINE q == p - o
<1>4. q \in 1..(Len(x) - 2) /\ o + q = p /\ o + (q + 1) = p + 1 /\ o + (q + 2) = p + 2
  BY <1>1, <1>2, <1>3
<1>5. q \in 1..Len(x) /\ q + 1 \in 1..Len(x) /\ q + 2 \in 1..Len(x)
  BY <1>1, <1>4
<1> HIDE DEF q
<1>6. x[q] = Quote /\ x[q + 1] = k /\ x[q + 2] = Quote
  <2>1. t[o + q] = x[q] /\ t[o + (q + 1)] = x[q + 1] /\ t[o + (q + 2)] = x[q + 2]
    BY <1>5 DEF Stands
  <2> QED
    BY <1>2, <1>4, <2>1
<1>7. q \in Occurrences(x, k)
  BY <1>4, <1>6 DEF Occurrences
<1> QED
  BY <1>7 DEF q

\* What is written between two members consists of them.
LEMMA LeadMarks ==
  \A j \in 1..Len(Lead) : Lead[j] \in Marks
<1>1. SUFFICES ASSUME NEW j \in 1..Len(Lead) PROVE Lead[j] \in Marks
  OBVIOUS
<1>2. j = 1 \/ j \in 2..Len(Lead)
  BY LeadText
<1> QED
  BY <1>2, LeadText DEF Marks

\* The parts of a row follow each other.
LEMMA RowOrder ==
  ASSUME NEW parts \in Seq(Texts), NEW t \in Texts, NEW o \in Nat, NEW A, Row(t, o, parts, A),
         NEW i \in 1..Len(parts), NEW j \in 1..Len(parts), i < j
  PROVE  A[i] + Len(parts[i]) < A[j]
<1> DEFINE n == Len(parts)
           End(a) == A[a] + Len(parts[a])
           G == {d \in Nat : i + d + 1 <= n => End(i) < A[i + d + 1]}
<1>1. /\ n \in Nat /\ Len(Lead) \in Nat \ {0}
      /\ \A a \in 1..n : A[a] \in Nat /\ Len(parts[a]) \in Nat
      /\ \A a \in 1..n : a < n => A[a + 1] = End(a) + Len(Lead)
  <2>1. \A a \in 1..n : Len(parts[a]) \in Nat
    BY DEF Texts
  <2>2. \A a \in 1..n : A[a] \in Nat
    BY DEF Row
  <2>3. \A a \in 1..n : a < n => A[a + 1] = End(a) + Len(Lead)
    BY DEF Row
  <2>4. n \in Nat
    OBVIOUS
  <2> HIDE DEF n, End
  <2> QED
    BY <2>1, <2>2, <2>3, <2>4, LeadText
<1>2. \A a \in 1..n : End(a) \in Nat /\ End(a) >= A[a]
  BY <1>1
<1> HIDE DEF End, n
<1>3. 0 \in G
  <2>1. SUFFICES ASSUME i + 0 + 1 <= n PROVE End(i) < A[i + 0 + 1]
    OBVIOUS
  <2>2. i < n /\ i + 0 + 1 = i + 1 /\ i \in 1..n
    BY <2>1 DEF n
  <2>3. A[i + 1] = End(i) + Len(Lead) /\ End(i) \in Nat
    BY <1>1, <1>2, <2>2
  <2> QED
    BY <1>1, <2>2, <2>3
<1>4. ASSUME NEW d \in Nat, d \in G PROVE d + 1 \in G
  <2>1. SUFFICES ASSUME i + (d + 1) + 1 <= n PROVE End(i) < A[i + (d + 1) + 1]
    OBVIOUS
  <2> DEFINE a == i + d + 1
  <2>2. a \in 1..n /\ a < n /\ a + 1 = i + (d + 1) + 1 /\ a + 1 \in 1..n /\ i \in 1..n
    BY <1>1, <2>1 DEF n
  <2>3. End(i) < A[a]
    BY <1>4, <2>2
  <2> HIDE DEF a, G
  <2>4. A[a + 1] = End(a) + Len(Lead) /\ End(a) \in Nat /\ End(a) >= A[a] /\ A[a] \in Nat
        /\ End(i) \in Nat
    BY <1>1, <1>2, <2>2
  <2>5. End(i) < A[a + 1]
    BY <1>1, <2>3, <2>4
  <2> QED
    BY <2>2, <2>5
<1>5. Nat \subseteq G
  <2> HIDE DEF G
  <2> QED
    BY <1>3, <1>4, NatInductionOnSet
<1>6. j - i - 1 \in Nat /\ i + (j - i - 1) + 1 = j /\ j <= n
  BY DEF n
<1>7. j - i - 1 \in G
  BY <1>5, <1>6
<1> QED
  BY <1>6, <1>7 DEF End

\* A word in a row is a word of one of its parts.
LEMMA RowHit ==
  ASSUME NEW parts \in Seq(Texts), NEW t \in Texts, NEW o \in Nat, NEW A, Row(t, o, parts, A),
         NEW k \in Keys, NEW p \in Occurrences(t, k), o < p, p <= RowEnd(o, parts, A),
         RowEnd(o, parts, A) < Len(t), t[RowEnd(o, parts, A) + 1] \in Marks
  PROVE  \E i \in 1..Len(parts) :
            A[i] < p /\ p <= A[i] + Len(parts[i]) /\ p - A[i] \in Occurrences(parts[i], k)
<1> DEFINE n == Len(parts)
           End(a) == A[a] + Len(parts[a])
           r == RowEnd(o, parts, A)
           S == {a \in 1..n : A[a] < p}
           i == Max(S)
<1>1. /\ n \in Nat /\ Len(Lead) \in Nat \ {0} /\ Lead \in Texts
      /\ \A a \in 1..n : A[a] \in Nat /\ parts[a] \in Texts /\ Len(parts[a]) \in Nat
      /\ \A a \in 1..n : a < n => A[a + 1] = End(a) + Len(Lead) /\ Stands(t, End(a), Lead)
      /\ \A a \in 1..n : Stands(t, A[a], parts[a])
      /\ (n > 0 => A[1] = o)
  <2>1. \A a \in 1..n : parts[a] \in Texts /\ Len(parts[a]) \in Nat
    BY DEF Texts
  <2> QED
    BY <2>1, LeadText, SMTT(30) DEF Row
<1>2. Len(t) \in Nat /\ p \in 1..(Len(t) - 2) /\ t[p] = Quote /\ p \in Nat
  BY DEF Texts, Occurrences
<1>3. n > 0
  <2>1. SUFFICES ASSUME n = 0 PROVE FALSE
    BY <1>1
  <2>2. r = o
    BY <2>1 DEF RowEnd
  <2> QED
    BY <1>2, <2>2
<1>4. r = End(n)
  BY <1>3 DEF RowEnd
<1>5. r < Len(t) /\ t[r + 1] \in Marks /\ p <= r
  OBVIOUS
<1> HIDE DEF r
<1>6. i \in S /\ \A a \in S : i >= a
  <2>1. 1 \in S
    BY <1>1, <1>3
  <2>2. S \in SUBSET (1..n) /\ S # {}
    BY <2>1
  <2> HIDE DEF S
  <2> QED
    BY <1>1, <2>2, MaxExists
<1> HIDE DEF i
<1>7. i \in 1..n /\ A[i] < p
  BY <1>6
<1>8. \A a \in 1..n : End(a) \in Nat
  BY <1>1
<1>9. ASSUME i < n
      PROVE  /\ A[i + 1] = End(i) + Len(Lead) /\ Stands(t, End(i), Lead) /\ p <= A[i + 1]
             /\ End(i) < Len(t) /\ t[End(i) + 1] = Comma
  <2>1. A[i + 1] = End(i) + Len(Lead) /\ Stands(t, End(i), Lead)
    BY <1>1, <1>7, <1>9
  <2>2. i + 1 \in 1..n /\ A[i + 1] \in Nat
    BY <1>1, <1>7, <1>9
  <2>3. p <= A[i + 1]
    <3>1. i + 1 \notin S
      BY <1>6, <1>7
    <3> QED
      BY <1>2, <2>2, <3>1
  <2> DEFINE e == End(i)
  <2>4. e \in Nat /\ Stands(t, e, Lead)
    BY <1>7, <1>8, <2>1
  <2> HIDE DEF e
  <2>5. 1 \in 1..Len(Lead) /\ e + Len(Lead) <= Len(t)
    BY <1>1, <2>4 DEF Stands
  <2>6. e < Len(t) /\ t[e + 1] = Comma
    BY <1>1, <1>2, <2>4, <2>5, LeadText DEF Stands
  <2> QED
    BY <2>1, <2>3, <2>6 DEF e
<1> HIDE DEF S
<1>10. p <= End(i)
  <2>1. SUFFICES ASSUME p > End(i) PROVE FALSE
    BY <1>2, <1>7, <1>8
  <2>2. CASE i < n
    <3> DEFINE e == End(i)
    <3>1. e \in Nat /\ p > e /\ p <= e + Len(Lead) /\ Stands(t, e, Lead)
      BY <1>7, <1>8, <1>9, <2>1, <2>2
    <3> HIDE DEF e
    <3>2. p - e \in 1..Len(Lead) /\ e + (p - e) = p
      BY <1>1, <1>2, <3>1
    <3>3. t[p] \in Marks
      BY <3>1, <3>2, LeadMarks DEF Stands
    <3> QED
      BY <1>2, <3>3, MarksDiffer
  <2>3. CASE ~(i < n)
    <3>1. i = n
      BY <1>1, <1>7, <2>3
    <3> HIDE DEF End
    <3> QED
      BY <1>2, <1>4, <1>5, <1>7, <1>8, <2>1, <3>1
  <2> QED
    BY <2>2, <2>3
<1>11. End(i) < Len(t) => t[End(i) + 1] \in Marks
  <2>1. CASE i < n
    BY <1>9, <2>1 DEF Marks
  <2>2. CASE ~(i < n)
    <3>1. i = n
      BY <1>1, <1>7, <2>2
    <3> QED
      BY <1>4, <1>5, <3>1
  <2> QED
    BY <2>1, <2>2
<1>12. p - A[i] \in Occurrences(parts[i], k)
  <2> DEFINE a == A[i]
             x == parts[i]
  <2>1. a \in Nat /\ x \in Texts /\ Stands(t, a, x) /\ a < p /\ p <= a + Len(x)
        /\ (a + Len(x) < Len(t) => t[a + Len(x) + 1] \in Marks)
    BY <1>1, <1>7, <1>10, <1>11
  <2> HIDE DEF a, x
  <2>2. p - a \in Occurrences(x, k)
    BY <2>1, HitWithin
  <2> QED
    BY <2>2 DEF a, x
<1> QED
  BY <1>7, <1>10, <1>12

\* In a member of an object a word is the key or within the value.
LEMMA PairHit ==
  ASSUME NEW name \in Keys, NEW x \in Texts, NEW k \in Keys,
         NEW q \in Occurrences(Label(name) \o x, k)
  PROVE  (q = 1 /\ name = k) \/ (q > Width /\ q - Width \in Occurrences(x, k))
<1> DEFINE a == Label(name)
           z == a \o x
           sp == Space
           qu == Quote
<1>1. /\ a \in Texts /\ Len(a) = Width /\ Len(x) \in Nat /\ Width \in Nat
      /\ a = IF blank THEN <<qu, name, qu, sp, ":", sp>> ELSE <<qu, name, qu, ":">>
  BY LabelText DEF Texts, Width
<1> HIDE DEF a
<1>2. z \in Texts /\ Len(z) = Width + Len(x) /\ Stands(z, 0, a) /\ Stands(z, Width, x)
  BY <1>1, TextConcat
<1>3. q \in Occurrences(z, k)
  BY DEF a
<1> HIDE DEF z
<1>4. q \in 1..(Len(z) - 2) /\ z[q] = qu /\ z[q + 1] = k
  BY <1>3 DEF Occurrences
<1>5. CASE q > Width
  <2>1. q <= Width + Len(x) /\ ~(Width + Len(x) < Len(z))
    BY <1>1, <1>2, <1>4
  <2>2. q - Width \in Occurrences(x, k)
    BY <1>1, <1>2, <1>3, <1>5, <2>1, HitWithin
  <2> QED
    BY <1>5, <2>2
<1>6. CASE ~(q > Width)
  <2>1. name # qu /\ qu \notin {sp, ":"} /\ k \notin {qu, sp, ":"}
    BY KeyIsPlain, Characters
  <2>2. \A j \in 1..Width : z[j] = a[j]
    <3>1. \A j \in 1..Len(a) : z[0 + j] = a[j]
      BY <1>2 DEF Stands
    <3> QED
      BY <1>1, <3>1
  <2> HIDE DEF sp, qu
  <2>3. CASE blank
    <3>1. Width = 6 /\ a = <<qu, name, qu, sp, ":", sp>>
      BY <1>1, <2>3 DEF Width
    <3>2. /\ z[1] = qu /\ z[2] = name /\ z[3] = qu /\ z[4] = sp /\ z[5] = ":" /\ z[6] = sp
      BY <2>2, <3>1
    <3>3. q = 1 \/ q = 2 \/ q = 3 \/ q = 4 \/ q = 5 \/ q = 6
      BY <1>4, <1>6, <3>1
    <3>4. q # 2 /\ q # 3 /\ q # 4 /\ q # 5 /\ q # 6
      BY <1>4, <2>1, <3>2
    <3> QED
      BY <1>4, <3>2, <3>3, <3>4
  <2>4. CASE ~blank
    <3>1. Width = 4 /\ a = <<qu, name, qu, ":">>
      BY <1>1, <2>4 DEF Width
    <3>2. /\ z[1] = qu /\ z[2] = name /\ z[3] = qu /\ z[4] = ":"
      BY <2>2, <3>1
    <3>3. q = 1 \/ q = 2 \/ q = 3 \/ q = 4
      BY <1>4, <1>6, <3>1
    <3>4. q # 2 /\ q # 3 /\ q # 4
      BY <1>4, <2>1, <3>2
    <3> QED
      BY <1>4, <3>2, <3>3, <3>4
  <2> QED
    BY <2>3, <2>4
<1> QED
  BY <1>5, <1>6

\* The key of a member is such a word.
LEMMA KeyHit ==
  ASSUME NEW k \in Keys, NEW t \in Texts, NEW o \in Nat, Stands(t, o, Label(k))
  PROVE  o + 1 \in Occurrences(t, k)
<1> DEFINE a == Label(k)
           sp == Space
           qu == Quote
<1>1. /\ a \in Texts /\ Len(a) = Width /\ Width \in {4, 6}
      /\ a = IF blank THEN <<qu, k, qu, sp, ":", sp>> ELSE <<qu, k, qu, ":">>
  BY LabelText DEF Width
<1>2. Stands(t, o, a)
  OBVIOUS
<1> HIDE DEF a, sp, qu
<1>3. a[1] = qu /\ a[2] = k /\ a[3] = qu
  <2>1. CASE blank
    BY <1>1, <2>1
  <2>2. CASE ~blank
    BY <1>1, <2>2
  <2> QED
    BY <2>1, <2>2
<1>4. 1 \in 1..(Len(a) - 2) /\ 1 + 1 = 2 /\ 1 + 2 = 3
  BY <1>1
<1>5. 1 \in Occurrences(a, k)
  BY <1>3, <1>4 DEF Occurrences, qu
<1> QED
  BY <1>1, <1>2, <1>5, HitMoves

\* The object of these names and texts stands in t after o symbols, and its
\* members at the offsets A.
HasMembers(t, o, names, texts, A) ==
  LET parts == Pairs(names, texts)
      end == o + Len(Object(names, texts))
  IN  /\ parts \in Seq(Texts) /\ Len(parts) = Len(names)
      /\ Row(t, o + 1, parts, A) /\ RowEnd(o + 1, parts, A) + 1 = end
      /\ RowEnd(o + 1, parts, A) \in Nat
      /\ At(t, o + 1, Open) /\ At(t, end, Close)
      /\ \A i \in 1..Len(names) :
           /\ A[i] \in Nat
           /\ Stands(t, A[i], Label(names[i])) /\ Stands(t, A[i] + Width, texts[i])
           /\ parts[i] = Label(names[i]) \o texts[i]
           /\ Len(parts[i]) = Width + Len(texts[i])
           /\ \E c \in {Comma, Close} : At(t, A[i] + Width + Len(texts[i]) + 1, c)

\* Where the members of an object stand, wherever the object does.
LEMMA MembersStand ==
  ASSUME NEW names \in Seq(Keys), NEW texts \in Seq(Texts), Len(texts) = Len(names),
         NEW t \in Texts, NEW o \in Nat, Stands(t, o, Object(names, texts))
  PROVE  \E A : HasMembers(t, o, names, texts, A)
<1> DEFINE n == Len(names)
           parts == Pairs(names, texts)
           z == Object(names, texts)
<1>1. n \in Nat /\ \A i \in 1..n : names[i] \in Keys /\ texts[i] \in Texts
  OBVIOUS
<1>2. /\ parts \in Seq(Texts) /\ Len(parts) = n
      /\ \A i \in 1..n : /\ parts[i] = Label(names[i]) \o texts[i]
                         /\ Len(parts[i]) = Width + Len(texts[i])
  <2>1. \A i \in 1..n : parts[i] = Label(names[i]) \o texts[i]
    BY DEF Pairs
  <2>2. ASSUME NEW i \in 1..n
        PROVE  parts[i] \in Texts /\ Len(parts[i]) = Width + Len(texts[i])
    <3>1. Label(names[i]) \in Texts /\ Len(Label(names[i])) = Width /\ texts[i] \in Texts
      BY <1>1, LabelText
    <3> HIDE DEF parts
    <3> QED
      BY <2>1, <3>1, TextConcat, ZenonT(30)
  <2>3. parts = [i \in 1..n |-> parts[i]]
    BY DEF Pairs
  <2> HIDE DEF parts
  <2>4. parts \in Seq(Texts) /\ Len(parts) = n
    BY <1>1, <2>2, <2>3
  <2> QED
    BY <2>1, <2>2, <2>4
<1>3. PICK O : IsObject(z, names, texts, O) /\ Row(z, 1, parts, O) /\ RowEnd(1, parts, O) + 1 = Len(z)
  BY ObjectText
<1>4. Stands(t, o, z)
  OBVIOUS
<1> HIDE DEF parts, z
<1>5. z \in Texts /\ Len(z) >= 2 /\ z[1] = Open /\ z[Len(z)] = Close /\ Len(z) \in Nat
  BY <1>3 DEF IsObject, Texts
<1>6. o + Len(z) <= Len(t) /\ Len(t) \in Nat /\ \A j \in 1..Len(z) : t[o + j] = z[j]
  BY <1>4 DEF Stands, Texts
<1> DEFINE A == [i \in 1..Len(parts) |-> o + O[i]]
<1>7. Row(t, o + 1, parts, A) /\ RowEnd(o + 1, parts, A) = o + RowEnd(1, parts, O)
      /\ RowEnd(1, parts, O) \in Nat
  <2>1. /\ Row(z, 1, parts, O) /\ 1 \in Nat /\ parts \in Seq(Texts) /\ z \in Texts
        /\ Stands(t, o, z) /\ A = [i \in 1..Len(parts) |-> o + O[i]]
    BY <1>2, <1>3, <1>4, <1>5
  <2> HIDE DEF A
  <2> QED
    BY <2>1, RowShift
<1>8. At(t, o + 1, Open) /\ At(t, o + Len(z), Close)
  <2>1. 1 \in 1..Len(z) /\ Len(z) \in 1..Len(z) /\ o + 1 <= Len(t)
    BY <1>5, <1>6
  <2> QED
    BY <1>5, <1>6, <2>1 DEF At
<1>9. ASSUME NEW i \in 1..n
      PROVE  /\ A[i] \in Nat
             /\ Stands(t, A[i], Label(names[i])) /\ Stands(t, A[i] + Width, texts[i])
             /\ \E c \in {Comma, Close} : At(t, A[i] + Width + Len(texts[i]) + 1, c)
  <2> DEFINE a == Label(names[i])
             x == texts[i]
             b == O[i]
  <2>1. A[i] = o + b
    BY <1>2
  <2>2. a \in Texts /\ x \in Texts /\ Len(x) \in Nat /\ Width \in Nat
    <3>1. a \in Texts /\ x \in Texts /\ Width \in Nat
      BY <1>1, LabelText DEF Width
    <3> QED
      BY <3>1 DEF Texts
  <2>3. b \in Nat /\ Stands(z, b, a) /\ Stands(z, b + Width, x)
    BY <1>3 DEF IsObject
  <2>4. PICK c \in {Comma, Close} : At(z, b + Width + Len(x) + 1, c)
    BY <1>3 DEF IsObject
  <2> HIDE DEF a, x, b, A
  <2>5. Stands(t, o + b, a) /\ Stands(t, o + (b + Width), x)
    <3>1. b + Width \in Nat
      BY <2>2, <2>3
    <3> QED
      BY <1>4, <1>5, <2>2, <2>3, <3>1, StandsWithin DEF Texts
  <2>6. At(t, o + (b + Width + Len(x) + 1), c)
    <3> DEFINE j == b + Width + Len(x) + 1
    <3>1. j \in 1..Len(z) /\ z[j] = c
      BY <1>5, <2>2, <2>3, <2>4 DEF At
    <3> HIDE DEF j
    <3>2. t[o + j] = c /\ o + j <= Len(t)
      BY <1>5, <1>6, <3>1
    <3> QED
      BY <3>2 DEF At, j
  <2>7. o + (b + Width) = A[i] + Width /\ A[i] \in Nat
        /\ o + (b + Width + Len(x) + 1) = A[i] + Width + Len(x) + 1
    BY <2>1, <2>2, <2>3
  <2> QED
    BY <2>1, <2>4, <2>5, <2>6, <2>7 DEF a, x
<1>10. RowEnd(o + 1, parts, A) + 1 = o + Len(z) /\ RowEnd(o + 1, parts, A) \in Nat
  BY <1>3, <1>5, <1>7
<1> HIDE DEF A
<1> QED
  BY <1>2, <1>7, <1>8, <1>9, <1>10 DEF HasMembers, parts, z

\* In an object a word is a key or within a value.
LEMMA ObjectHit ==
  ASSUME NEW names \in Seq(Keys), NEW texts \in Seq(Texts), Len(texts) = Len(names),
         NEW t \in Texts, NEW o \in Nat, NEW A, HasMembers(t, o, names, texts, A),
         NEW k \in Keys, NEW p \in Occurrences(t, k),
         o < p, p <= o + Len(Object(names, texts))
  PROVE  \E i \in 1..Len(names) :
            /\ A[i] < p /\ p <= A[i] + Len(Pairs(names, texts)[i])
            /\ \/ p = A[i] + 1 /\ names[i] = k
               \/ p > A[i] + Width /\ p - (A[i] + Width) \in Occurrences(texts[i], k)
<1> DEFINE parts == Pairs(names, texts)
           r == RowEnd(o + 1, parts, A)
           end == o + Len(Object(names, texts))
<1>1. /\ parts \in Seq(Texts) /\ Len(parts) = Len(names)
      /\ Row(t, o + 1, parts, A) /\ r + 1 = end /\ r \in Nat
      /\ At(t, o + 1, Open) /\ At(t, end, Close)
      /\ \A i \in 1..Len(names) : A[i] \in Nat /\ parts[i] = Label(names[i]) \o texts[i]
  BY DEF HasMembers
<1>2. p <= end
  OBVIOUS
<1> HIDE DEF parts, end
<1>3. Len(t) \in Nat /\ p \in 1..(Len(t) - 2) /\ t[p] = Quote
  BY DEF Texts, Occurrences
<1>4. Quote # Open /\ Quote # Close /\ Close \in Marks
  BY Characters DEF Marks
<1>5. o + 1 < p /\ p <= r
  BY <1>1, <1>2, <1>3, <1>4 DEF At
<1>6. r < Len(t) /\ t[r + 1] \in Marks
  BY <1>1, <1>3, <1>4 DEF At
<1> HIDE DEF r
<1>7. PICK i \in 1..Len(parts) : A[i] < p /\ p <= A[i] + Len(parts[i]) /\ p - A[i] \in Occurrences(parts[i], k)
  <2>1. o + 1 \in Nat
    OBVIOUS
  <2> QED
    BY <1>1, <1>5, <1>6, <2>1, RowHit DEF r
<1>8. i \in 1..Len(names) /\ A[i] \in Nat /\ names[i] \in Keys /\ texts[i] \in Texts /\ Width \in Nat
  <2>1. i \in 1..Len(names)
    BY <1>1
  <2>2. A[i] \in Nat /\ names[i] \in Keys /\ texts[i] \in Texts
    <3>1. i \in 1..Len(texts)
      BY <2>1
    <3>2. A[i] \in Nat
      BY <1>1, <2>1
    <3> QED
      BY <2>1, <3>1, <3>2
  <2>3. Width \in Nat
    BY DEF Width
  <2> QED
    BY <2>1, <2>2, <2>3
<1>9. p - A[i] \in Occurrences(Label(names[i]) \o texts[i], k)
  BY <1>1, <1>7, <1>8
<1> DEFINE q == p - A[i]
<1>10. \/ q = 1 /\ names[i] = k
       \/ q > Width /\ q - Width \in Occurrences(texts[i], k)
  <2> HIDE DEF q
  <2>1. q \in Occurrences(Label(names[i]) \o texts[i], k)
    BY <1>9 DEF q
  <2> QED
    BY <1>8, <2>1, PairHit
<1>11. q = 1 => p = A[i] + 1
  BY <1>3, <1>8
<1>12. q > Width => p > A[i] + Width /\ p - (A[i] + Width) = q - Width
  BY <1>3, <1>8
<1> HIDE DEF q
<1>13. \/ p = A[i] + 1 /\ names[i] = k
       \/ p > A[i] + Width /\ p - (A[i] + Width) \in Occurrences(texts[i], k)
  BY <1>10, <1>11, <1>12
<1> QED
  BY <1>7, <1>8, <1>13 DEF parts

-----------------------------------------------------------------------------
(* Where "messages" stands between quotes in what is written *)

Messages == "messages"

\* The word is none of the characters the code looks for, nor of those that
\* escapes are written with.
LEMMA WordIsPlain ==
  /\ Messages \notin {Quote, Backslash, Newline, Control}
  /\ Messages \notin {"n", "u", "0", "1", "2", "5", "a", "c"}
BY DEF Messages, Quote, Backslash, Newline, Control

\* How what is written for a symbol ends.
LEMMA SpellingEnds ==
  ASSUME NEW c \in Symbols, NEW x, Spells(x, c)
  PROVE  /\ x \in Texts /\ Len(x) \in Nat \ {0}
         /\ x[Len(x)] = Messages => c = Messages /\ Len(x) = 1
         /\ c = Messages => Len(x) = 1 /\ x[1] = Messages
         /\ x[Len(x)] = Quote <=> c = Quote /\ ~unicode
<1>1. x \in Texts /\ Len(x) \in Nat \ {0}
  BY SpelledSymbols
<1>2. Messages \notin {Quote, Backslash, Newline, Control, "n", "0", "1", "2", "5", "a", "c"}
  BY WordIsPlain
<1>3. CASE c \notin Escapable /\ x = <<c>>
  <2>1. Len(x) = 1 /\ x[1] = c /\ c # Quote
    BY <1>3 DEF Escapable
  <2> QED
    BY <1>1, <2>1
<1>4. CASE c \in Escapable \ {Control} /\ x = <<Backslash, Short[c]>> /\ ~unicode
  <2>1. Len(x) = 2 /\ x[2] = Short[c]
    BY <1>4, ShortEscape
  <2>2. Short[c] = IF c = Newline THEN "n" ELSE c
    BY <1>4 DEF Short, Escapable
  <2>3. c # Messages /\ "n" # Quote
    BY <1>2, <1>4, Letters DEF Escapable
  <2>4. x[2] # Messages
    BY <1>2, <2>1, <2>2, <2>3
  <2>5. x[2] = Quote <=> c = Quote
    <3>1. Newline # Quote
      BY Characters
    <3> QED
      BY <2>1, <2>2, <2>3, <3>1
  <2> QED
    BY <1>1, <1>4, <2>1, <2>3, <2>4, <2>5
<1>5. CASE c \in Escapable /\ x = <<Backslash, "u">> \o Hex(c) /\ (unicode \/ c = Control)
  <2>1. Len(x) = 6 /\ x[4 + 2] \in {"0", "1", "2", "5", "a", "c"}
    BY <1>5, LongEscape, SMTT(30)
  <2>2. x[6] # Messages /\ x[6] # Quote
    BY <1>2, <2>1, Letters
  <2>3. c # Messages /\ Control # Quote
    BY <1>2, <1>5, Characters DEF Escapable
  <2> QED
    BY <1>1, <1>5, <2>1, <2>2, <2>3
<1> QED
  BY <1>3, <1>4, <1>5 DEF Spells

\* Of a string that is written with the word between quotes, it is the end.
LEMMA StringHit ==
  ASSUME NEW s \in Texts
  PROVE  /\ \A q \in Occurrences(Quoted(s), Messages) :
              SpellsMessages(s) /\ q + 2 = Len(Quoted(s))
         /\ SpellsMessages(s) => \E q : q \in Occurrences(Quoted(s), Messages)
<1> DEFINE e == ClientEscape(s)
           z == Quoted(s)
           n == Len(s)
<1>1. /\ z \in Texts /\ Len(z) = Len(e) + 2 /\ e \in Texts /\ Len(e) \in Nat
      /\ z[1] = Quote /\ z[Len(e) + 2] = Quote /\ Stands(z, 1, e) /\ n \in Nat
      /\ \A i \in 1..n : s[i] \in Symbols
  BY QuotedText DEF Texts
<1>2. ~Bare(e)
  BY EscapeNotBare
<1>3. PICK x, L : SpeltAt(e, 0, s, x, L)
  <2>1. Stands(e, 0, e) /\ 0 \in Nat
    BY <1>1 DEF Stands
  <2> QED
    BY <1>1, <2>1, Spelt
<1>4. /\ L \in [0..n -> Nat] /\ L[0] = 0 /\ L[n] = Len(e)
      /\ \A k \in 1..n : /\ Spells(x[k], s[k]) /\ Stands(e, 0 + L[k - 1], x[k])
                         /\ L[k] = L[k - 1] + Len(x[k])
  BY <1>3 DEF SpeltAt
<1> HIDE DEF z, e
<1>5. \A j \in 1..Len(e) : z[1 + j] = e[j]
  BY <1>1 DEF Stands
<1>6. ASSUME NEW k \in 1..n
      PROVE  /\ L[k] \in 1..Len(e) /\ L[k - 1] \in Nat /\ L[k] > L[k - 1]
             /\ e[L[k]] = Messages => s[k] = Messages /\ L[k] = L[k - 1] + 1
             /\ s[k] = Messages => L[k] = L[k - 1] + 1 /\ e[L[k]] = Messages
             /\ e[L[k]] = Quote <=> s[k] = Quote /\ ~unicode
  <2> DEFINE y == x[k]
             a == L[k - 1]
             b == L[k]
  <2>1. Spells(y, s[k]) /\ Stands(e, 0 + a, y) /\ b = a + Len(y)
    BY <1>4
  <2>2. a \in Nat
    <3>1. k - 1 \in 0..n
      BY <1>1
    <3> QED
      BY <1>4, <3>1
  <2>3. s[k] \in Symbols
    BY <1>1
  <2> HIDE DEF y, a, b
  <2>4. /\ y \in Texts /\ Len(y) \in Nat \ {0}
        /\ y[Len(y)] = Messages => s[k] = Messages /\ Len(y) = 1
        /\ s[k] = Messages => Len(y) = 1 /\ y[1] = Messages
        /\ y[Len(y)] = Quote <=> s[k] = Quote /\ ~unicode
    BY <2>1, <2>3, SpellingEnds
  <2>5. b \in 1..Len(e) /\ b > a /\ e[b] = y[Len(y)]
    <3>1. (0 + a) + Len(y) <= Len(e) /\ \A j \in 1..Len(y) : e[(0 + a) + j] = y[j]
      BY <2>1 DEF Stands
    <3>2. Len(y) \in 1..Len(y) /\ (0 + a) + Len(y) = b
      BY <2>1, <2>2, <2>4
    <3> QED
      BY <1>1, <2>1, <2>2, <2>4, <3>1, <3>2
  <2>6. s[k] = Messages => e[b] = Messages
    BY <2>4, <2>5
  <2> QED
    BY <2>1, <2>2, <2>4, <2>5, <2>6 DEF a, b
<1>7. ASSUME NEW q \in Occurrences(z, Messages)
      PROVE  SpellsMessages(s) /\ q + 2 = Len(z)
  <2>1. q \in 1..(Len(z) - 2) /\ z[q + 1] = Messages /\ z[q] = Quote /\ z[q + 2] = Quote
    BY DEF Occurrences
  <2>2. q \in 1..Len(e) /\ e[q] = Messages
    <3>1. q \in 1..Len(e) /\ 1 + q = q + 1
      BY <1>1, <2>1
    <3> QED
      BY <1>5, <2>1, <3>1
  <2>3. q = Len(e)
    <3>1. SUFFICES ASSUME q # Len(e) PROVE FALSE
      OBVIOUS
    <3>2. q + 1 \in 1..Len(e) /\ 1 + (q + 1) = q + 2
      BY <1>1, <2>2, <3>1
    <3>3. e[q + 1] = Quote
      BY <1>5, <2>1, <3>2
    <3>4. q + 1 # 1 /\ (q + 1) - 1 = q
      BY <2>2
    <3>5. e[q] = Backslash
      BY <1>2, <3>2, <3>3, <3>4 DEF Bare
    <3> QED
      BY <2>2, <3>5, WordIsPlain
  <2>4. n \in 1..n
    <3>1. n # 0
      BY <1>4, <2>2, <2>3
    <3> QED
      BY <1>1, <3>1
  <2>5. s[n] = Messages /\ q = L[n - 1] + 1
    <3>1. e[L[n]] = Messages /\ L[n] = q
      BY <1>4, <2>2, <2>3
    <3> QED
      BY <1>6, <2>4, <3>1
  <2>6. ASSUME n > 1 PROVE s[n - 1] = Quote /\ ~unicode
    <3>1. n - 1 \in 1..n
      BY <1>1, <2>6
    <3>2. L[n - 1] \in 1..Len(e) /\ L[n - 1] = q - 1
      BY <1>6, <2>2, <2>5, <3>1
    <3>3. e[L[n - 1]] = Quote
      <4>1. 1 + L[n - 1] = q
        BY <2>2, <3>2
      <4> QED
        BY <1>5, <2>1, <3>2, <4>1
    <3> QED
      BY <1>6, <3>1, <3>3
  <2>7. SpellsMessages(s)
    <3>1. n > 0
      BY <2>4
    <3> QED
      BY <2>5, <2>6, <3>1 DEF SpellsMessages, Messages
  <2> QED
    BY <1>1, <2>3, <2>7
<1>8. ASSUME SpellsMessages(s) PROVE Len(e) \in Occurrences(z, Messages)
  <2>1. n > 0 /\ s[n] = Messages /\ (n > 1 => s[n - 1] = Quote /\ ~unicode)
    BY <1>8 DEF SpellsMessages, Messages
  <2>2. n \in 1..n
    BY <1>1, <2>1
  <2>3. Len(e) \in 1..Len(e) /\ e[Len(e)] = Messages /\ Len(e) = L[n - 1] + 1
    BY <1>4, <1>6, <2>1, <2>2
  <2>4. z[Len(e)] = Quote
    <3>1. CASE n = 1
      <4>1. n - 1 = 0
        BY <3>1
      <4>2. Len(e) = 1
        <5>1. L[n - 1] = 0
          BY <1>4, <4>1
        <5> QED
          BY <2>3, <5>1
      <4> QED
        BY <1>1, <4>2
    <3>2. CASE n # 1
      <4>1. n - 1 \in 1..n /\ s[n - 1] = Quote /\ ~unicode
        <5>1. n > 1 /\ n - 1 \in 1..n
          <6>1. n \in Nat /\ n > 0 /\ n # 1
            BY <1>1, <2>1, <3>2
          <6> HIDE DEF n
          <6> QED
            BY <6>1
        <5> QED
          BY <2>1, <5>1
      <4>2. L[n - 1] \in 1..Len(e) /\ e[L[n - 1]] = Quote
        BY <1>6, <4>1
      <4>3. Len(e) = 1 + L[n - 1]
        BY <2>3, <4>2
      <4>4. z[1 + L[n - 1]] = e[L[n - 1]]
        BY <1>5, <4>2
      <4> QED
        BY <4>2, <4>3, <4>4
    <3> QED
      BY <3>1, <3>2
  <2>5. z[Len(e) + 1] = Messages
    <3>1. z[1 + Len(e)] = e[Len(e)] /\ 1 + Len(e) = Len(e) + 1
      BY <1>1, <1>5, <2>3
    <3> QED
      BY <2>3, <3>1
  <2>6. Len(e) \in 1..(Len(z) - 2)
    BY <1>1, <2>3
  <2> QED
    BY <1>1, <2>4, <2>5, <2>6 DEF Occurrences
<1> QED
  BY <1>7, <1>8 DEF z

\* Where no array begins after a colon.
Harmless(t, p) == ~(AsKey(t, p) /\ At(t, skip_ws(t, skip_ws(t, p + 3) + 1), "["))

\* No array is read after a word that a string spells.
LEMMA StringHarmless ==
  ASSUME NEW t \in Texts, NEW s \in Texts, NEW o \in Nat, Stands(t, o, Quoted(s)),
         NEW c \in {Comma, Close}, At(t, o + Len(Quoted(s)) + 1, c),
         NEW q \in Occurrences(Quoted(s), Messages)
  PROVE  Harmless(t, o + q)
<1> DEFINE z == Quoted(s)
           p == o + q
<1>1. q + 2 = Len(z) /\ Len(t) \in Nat
  BY StringHit DEF Texts
<1>2. q \in Nat
  BY DEF Occurrences
<1>3. At(t, o + Len(z) + 1, c)
  OBVIOUS
<1> HIDE DEF z
<1>4. o + Len(z) + 1 = p + 3 /\ p + 3 \in Nat \ {0}
  BY <1>1, <1>2
<1>5. p + 3 <= Len(t) /\ t[p + 3] = c
  BY <1>3, <1>4 DEF At
<1> HIDE DEF p
<1>6. c \notin {Space, Newline, ":"}
  BY Characters
<1>7. skip_ws(t, p + 3) = p + 3
  <2>1. p + 3 \in (p + 3)..(Len(t) + 1) /\ \A i \in (p + 3)..((p + 3) - 1) : t[i] \in {Space, Newline}
    BY <1>1, <1>4, <1>5
  <2> QED
    BY <1>4, <1>5, <1>6, <2>1, PastIs DEF skip_ws
<1>8. ~AsKey(t, p)
  BY <1>5, <1>6, <1>7 DEF AsKey, At
<1> QED
  BY <1>8 DEF Harmless, p

\* A message is written with the word between quotes.
Names(m) == \E j \in 1..Len(m) : m[j][1] = Messages \/ SpellsMessages(m[j][2])

\* A message in which the word stands has it as a key or spells it, and no array is
\* read there; and a message that does either has the word in its text.
LEMMA MessageHit ==
  ASSUME NEW m \in Seq(Nested), Messages \in Keys
  PROVE  /\ \A t \in Texts, o \in Nat : Stands(t, o, MessageText(m)) =>
              \A p \in Occurrences(t, Messages) :
                o < p /\ p <= o + Len(MessageText(m)) => Harmless(t, p) /\ Names(m)
         /\ Names(m) => \E q : q \in Occurrences(MessageText(m), Messages)
<1> DEFINE names == NamesOf(m)
           texts == StringsOf(m)
           z == MessageText(m)
           n == Len(m)
<1>1. /\ z = Object(names, texts) /\ names \in Seq(Keys) /\ texts \in Seq(Texts)
      /\ Len(names) = n /\ Len(texts) = n
      /\ \A i \in 1..n : /\ m[i][2] \in Texts /\ texts[i] = Quoted(m[i][2]) /\ texts[i] \in Texts
                         /\ names[i] = m[i][1] /\ names[i] \in Keys
  <2>1. /\ z = Object(names, texts) /\ names \in Seq(Keys) /\ texts \in Seq(Texts)
        /\ Len(names) = n /\ Len(texts) = n
        /\ \A i \in 1..n : m[i][2] \in Texts /\ texts[i] = Quoted(m[i][2]) /\ names[i] = m[i][1]
                           /\ m[i][1] \in Keys
    BY MessageIsObject
  <2>2. \A i \in 1..n : Quoted(m[i][2]) \in Texts
    BY <2>1, QuotedText
  <2> HIDE DEF z, names, texts, n
  <2> QED
    BY <2>1, <2>2
<1>2. z \in Texts /\ n \in Nat
  BY MessageKeys
<1> HIDE DEF z, names, texts, n
<1>3. ASSUME NEW t \in Texts, NEW o \in Nat, Stands(t, o, z)
      PROVE  \E A : HasMembers(t, o, names, texts, A)
  BY <1>1, <1>3, MembersStand
<1>4. ASSUME NEW t \in Texts, NEW o \in Nat, Stands(t, o, z), NEW p \in Occurrences(t, Messages),
             o < p, p <= o + Len(z)
      PROVE  Harmless(t, p) /\ Names(m)
  <2>1. PICK A : HasMembers(t, o, names, texts, A)
    BY <1>3, <1>4
  <2>2. PICK i \in 1..n :
            \/ p = A[i] + 1 /\ names[i] = Messages
            \/ p > A[i] + Width /\ p - (A[i] + Width) \in Occurrences(texts[i], Messages)
    <3>1. Len(texts) = Len(names) /\ p <= o + Len(Object(names, texts))
      BY <1>1, <1>4
    <3> QED
      BY <1>1, <1>4, <2>1, <3>1, ObjectHit
  <2> DEFINE a == A[i]
             s == m[i][2]
             x == texts[i]
  <2>3. /\ a \in Nat /\ Stands(t, a, Label(names[i])) /\ Stands(t, a + Width, x)
        /\ \E c \in {Comma, Close} : At(t, a + Width + Len(x) + 1, c)
    BY <1>1, <2>1 DEF HasMembers
  <2>4. s \in Texts /\ x = Quoted(s) /\ x \in Texts /\ names[i] = m[i][1] /\ names[i] \in Keys
    BY <1>1
  <2>5. Width \in Nat
    BY DEF Width
  <2>6. \/ p = a + 1 /\ names[i] = Messages
        \/ p > a + Width /\ p - (a + Width) \in Occurrences(x, Messages)
    BY <2>2
  <2>7. Names(m) <=> \E j \in 1..n : m[j][1] = Messages \/ SpellsMessages(m[j][2])
    BY DEF Names, n
  <2> HIDE DEF a, x
  <2>8. CASE p = a + 1 /\ names[i] = Messages
    <3>1. x[1] = Quote /\ Len(x) # 0
      <4>1. Quoted(s)[1] = Quote /\ Len(Quoted(s)) = Len(ClientEscape(s)) + 2
            /\ Len(ClientEscape(s)) \in Nat
        BY <2>4, QuotedText DEF Texts
      <4> QED
        BY <2>4, <4>1
    <3>2. x[1] \notin {Space, Newline} /\ Quote # "["
      BY <3>1, Characters
    <3>3. skip_ws(t, skip_ws(t, a + 4) + 1) = a + Width + 1
      BY <2>3, <2>4, <3>1, <3>2, ColonAt
    <3>4. p + 3 = a + 4
      BY <2>3, <2>8
    <3>5. t[(a + Width) + 1] = Quote
      <4>1. 1 \in 1..Len(x)
        BY <2>4, <3>1 DEF Texts
      <4> QED
        BY <2>3, <3>1, <4>1 DEF Stands
    <3>6. Harmless(t, p)
      BY <3>2, <3>3, <3>4, <3>5 DEF Harmless, At
    <3> QED
      BY <2>4, <2>7, <2>8, <3>6
  <2>9. CASE p > a + Width /\ p - (a + Width) \in Occurrences(x, Messages)
    <3> DEFINE b == a + Width
               q == p - b
    <3>1. b \in Nat /\ q \in Occurrences(Quoted(s), Messages) /\ Stands(t, b, Quoted(s))
      BY <2>3, <2>4, <2>5, <2>9
    <3>2. p \in Nat
      BY DEF Occurrences
    <3>3. b + q = p
      BY <2>3, <2>5, <3>2
    <3>4. PICK c \in {Comma, Close} : At(t, b + Len(Quoted(s)) + 1, c)
      BY <2>3, <2>4
    <3> HIDE DEF b, q, s
    <3>5. Harmless(t, b + q)
      BY <2>4, <3>1, <3>4, StringHarmless
    <3>6. SpellsMessages(s)
      BY <2>4, <3>1, StringHit
    <3> QED
      BY <2>7, <3>3, <3>5, <3>6 DEF s
  <2> QED
    BY <2>6, <2>8, <2>9
<1>5. ASSUME Names(m) PROVE \E q : q \in Occurrences(z, Messages)
  <2>1. PICK j \in 1..n : m[j][1] = Messages \/ SpellsMessages(m[j][2])
    BY <1>5 DEF Names, n
  <2>2. Stands(z, 0, z) /\ 0 \in Nat
    BY <1>2 DEF Stands, Texts
  <2>3. PICK A : HasMembers(z, 0, names, texts, A)
    BY <1>2, <1>3, <2>2
  <2> DEFINE a == A[j]
             x == texts[j]
  <2>4. a \in Nat /\ Stands(z, a, Label(names[j])) /\ Stands(z, a + Width, x)
    BY <1>1, <2>3 DEF HasMembers
  <2>5. m[j][2] \in Texts /\ x = Quoted(m[j][2]) /\ x \in Texts /\ names[j] = m[j][1]
    BY <1>1
  <2> HIDE DEF a, x
  <2>6. CASE m[j][1] = Messages
    <3>1. a + 1 \in Occurrences(z, Messages)
      BY <1>2, <2>4, <2>5, <2>6, KeyHit
    <3> QED
      BY <3>1
  <2>7. CASE SpellsMessages(m[j][2])
    <3>1. PICK q : q \in Occurrences(x, Messages)
      BY <2>5, <2>7, StringHit
    <3>2. a + Width \in Nat
      BY <2>4 DEF Width
    <3>3. (a + Width) + q \in Occurrences(z, Messages)
      BY <1>2, <2>4, <2>5, <3>1, <3>2, HitMoves
    <3> QED
      BY <3>3
  <2> QED
    BY <2>1, <2>6, <2>7
<1> QED
  BY <1>4, <1>5 DEF z

\* An array of messages.
ListText(l) == <<"[">> \o Separated(TextsOf(l)) \o <<"]">>

\* An array, its brackets and the messages between them, in a text.
LEMMA ListStands ==
  ASSUME NEW l \in Seq(Seq(Nested)), NEW t \in Texts, NEW o \in Nat, Stands(t, o, ListText(l))
  PROVE  LET u == Separated(TextsOf(l))
         IN  /\ u \in Texts /\ Len(u) \in Nat /\ ListText(l) \in Texts
             /\ Len(ListText(l)) = Len(u) + 2
             /\ At(t, o + 1, "[") /\ Stands(t, o + 1, u) /\ At(t, (o + 1) + Len(u) + 1, "]")
<1> DEFINE u == Separated(TextsOf(l))
           v == <<"[">> \o u \o <<"]">>
<1>1. TextsOf(l) \in Seq(Texts)
  BY TextsOfMessages
<1>2. u \in Texts
  <2>1. \E O : IsSeparated(u, TextsOf(l), O)
    BY <1>1, SeparatedText
  <2> HIDE DEF u
  <2> QED
    BY <2>1 DEF IsSeparated
<1>3. v = ListText(l)
  BY DEF ListText
<1> HIDE DEF u
<1>4. v \in Texts /\ Len(v) = Len(u) + 2 /\ v[1] = "[" /\ v[Len(u) + 2] = "]" /\ Stands(v, 1, u)
  BY <1>2, Enclosed
<1>5. Stands(t, o, v)
  BY <1>3
<1> HIDE DEF v
<1>6. Len(u) \in Nat /\ Len(t) \in Nat /\ o + Len(v) <= Len(t)
      /\ \A j \in 1..Len(v) : t[o + j] = v[j]
  BY <1>2, <1>5 DEF Stands, Texts
<1>7. t[o + 1] = "[" /\ t[o + (Len(u) + 2)] = "]"
  <2>1. 1 \in 1..Len(v) /\ Len(u) + 2 \in 1..Len(v)
    BY <1>4, <1>6
  <2> QED
    BY <1>4, <1>6, <2>1
<1>8. o + (Len(u) + 2) = (o + 1) + Len(u) + 1 /\ o + 1 <= Len(t) /\ o + (Len(u) + 2) <= Len(t)
  BY <1>4, <1>6
<1>9. Stands(t, o + 1, u)
  <2>1. 1 \in Nat
    OBVIOUS
  <2> QED
    BY <1>2, <1>4, <1>5, <2>1, StandsWithin DEF Texts
<1>10. At(t, o + 1, "[") /\ At(t, (o + 1) + Len(u) + 1, "]")
  BY <1>7, <1>8 DEF At
<1> QED
  BY <1>2, <1>3, <1>4, <1>6, <1>9, <1>10 DEF u

\* The same of the messages of an array.
LEMMA ListHit ==
  ASSUME NEW l \in Seq(Seq(Nested)), Messages \in Keys
  PROVE  /\ \A t \in Texts, o \in Nat : Stands(t, o, ListText(l)) =>
              \A p \in Occurrences(t, Messages) :
                o < p /\ p <= o + Len(ListText(l)) =>
                  Harmless(t, p) /\ \E i \in 1..Len(l) : Names(l[i])
         /\ \A i \in 1..Len(l) : Names(l[i]) => \E q : q \in Occurrences(ListText(l), Messages)
<1> DEFINE n == Len(l)
           parts == TextsOf(l)
           u == Separated(parts)
           v == ListText(l)
<1>1. /\ n \in Nat /\ parts \in Seq(Texts) /\ Len(parts) = n
      /\ \A i \in 1..n : parts[i] = MessageText(l[i]) /\ l[i] \in Seq(Nested) /\ parts[i] \in Texts
  BY TextsOfMessages
<1>2. ASSUME NEW t \in Texts, NEW o \in Nat, Stands(t, o, v)
      PROVE  /\ u \in Texts /\ Len(u) \in Nat /\ v \in Texts /\ Len(v) = Len(u) + 2
             /\ At(t, o + 1, "[") /\ Stands(t, o + 1, u) /\ At(t, (o + 1) + Len(u) + 1, "]")
  BY <1>2, ListStands
<1>3. v \in Texts
  <2>1. v = <<"[">> \o Separated([i \in DOMAIN l |-> MessageText(l[i])]) \o <<"]">>
    BY DEF ListText, TextsOf
  <2> HIDE DEF v
  <2> QED
    BY <2>1, ListKeys
<1> HIDE DEF parts, u, v
<1>4. ASSUME NEW t \in Texts, NEW o \in Nat, Stands(t, o, u)
      PROVE  \E A : Row(t, o, parts, A) /\ RowEnd(o, parts, A) = o + Len(u)
  BY <1>1, <1>4, SeparatedStands DEF u
<1>5. \A A, t, o : Row(t, o, parts, A) =>
        \A i \in 1..n : A[i] \in Nat /\ Stands(t, A[i], parts[i])
  BY <1>1 DEF Row
<1>6. ASSUME NEW t \in Texts, NEW o \in Nat, Stands(t, o, v), NEW p \in Occurrences(t, Messages),
             o < p, p <= o + Len(v)
      PROVE  Harmless(t, p) /\ \E i \in 1..n : Names(l[i])
  <2>1. /\ u \in Texts /\ Len(u) \in Nat /\ Len(v) = Len(u) + 2
        /\ At(t, o + 1, "[") /\ Stands(t, o + 1, u) /\ At(t, (o + 1) + Len(u) + 1, "]")
    BY <1>2, <1>6
  <2>2. o + 1 \in Nat
    OBVIOUS
  <2>3. PICK A : Row(t, o + 1, parts, A) /\ RowEnd(o + 1, parts, A) = (o + 1) + Len(u)
    BY <1>4, <2>1, <2>2
  <2> DEFINE r == (o + 1) + Len(u)
  <2>4. Len(t) \in Nat /\ t[p] = Quote /\ p \in Nat
    BY DEF Texts, Occurrences
  <2>5. t[o + 1] = "[" /\ t[r + 1] = "]" /\ r + 1 <= Len(t)
    BY <2>1 DEF At
  <2>6. Quote # "[" /\ Quote # "]" /\ "]" \in Marks
    BY Characters DEF Marks
  <2>7. o + 1 < p /\ p <= r /\ r < Len(t) /\ t[r + 1] \in Marks /\ RowEnd(o + 1, parts, A) = r
    <3>1. p # o + 1 /\ p # r + 1
      BY <2>4, <2>5, <2>6
    <3>2. p <= r + 1
      BY <1>6, <2>1
    <3> QED
      BY <1>6, <2>1, <2>3, <2>4, <2>5, <2>6, <3>1, <3>2
  <2> HIDE DEF r
  <2>8. PICK i \in 1..Len(parts) : A[i] < p /\ p <= A[i] + Len(parts[i])
    BY <1>1, <2>2, <2>3, <2>7, RowHit
  <2>9. i \in 1..n
    BY <1>1
  <2>10. /\ A[i] \in Nat /\ Stands(t, A[i], MessageText(l[i])) /\ l[i] \in Seq(Nested)
         /\ p <= A[i] + Len(MessageText(l[i]))
    BY <1>1, <1>5, <2>3, <2>8, <2>9
  <2>11. Harmless(t, p) /\ Names(l[i])
    BY <2>8, <2>10, MessageHit
  <2> QED
    BY <2>9, <2>11
<1>7. ASSUME NEW i \in 1..n, Names(l[i]) PROVE \E q : q \in Occurrences(v, Messages)
  <2>1. Stands(v, 0, v) /\ 0 \in Nat /\ 0 + 1 = 1 /\ 1 \in Nat
    BY <1>3 DEF Stands, Texts
  <2>2. Stands(v, 1, u)
    BY <1>2, <1>3, <2>1
  <2>3. PICK A : Row(v, 1, parts, A)
    BY <1>3, <1>4, <2>1, <2>2
  <2>4. A[i] \in Nat /\ Stands(v, A[i], parts[i]) /\ parts[i] \in Texts
    BY <1>1, <1>5, <2>3
  <2>5. PICK q : q \in Occurrences(parts[i], Messages)
    BY <1>1, <1>7, MessageHit
  <2>6. A[i] + q \in Occurrences(v, Messages)
    BY <1>3, <2>4, <2>5, HitMoves
  <2> QED
    BY <2>6
<1> QED
  BY <1>6, <1>7 DEF v

\* A value shadows the key when the word stands in its text, and then no array is
\* read there.
LEMMA ValueHit ==
  ASSUME NEW m, IsMember(m), Messages \in Keys
  PROVE  /\ \A t \in Texts, o \in Nat, c \in {Comma, Close} :
              Stands(t, o, ValueText(m)) /\ At(t, o + Len(ValueText(m)) + 1, c) =>
              \A q \in Occurrences(ValueText(m), Messages) : Harmless(t, o + q) /\ Shadows(m)
         /\ Shadows(m) => \E q : q \in Occurrences(ValueText(m), Messages)
<1> DEFINE v == ValueText(m)
<1>1. CASE m.kind = "string"
  <2>1. m.chars \in Texts /\ v = Quoted(m.chars)
    BY <1>1 DEF IsMember, ValueText, Texts
  <2>2. Shadows(m) <=> SpellsMessages(m.chars)
    BY <1>1 DEF Shadows
  <2> HIDE DEF v
  <2>3. ASSUME NEW t \in Texts, NEW o \in Nat, NEW c \in {Comma, Close},
               Stands(t, o, v), At(t, o + Len(v) + 1, c), NEW q \in Occurrences(v, Messages)
        PROVE  Harmless(t, o + q) /\ Shadows(m)
    <3>1. SpellsMessages(m.chars)
      BY <2>1, StringHit
    <3>2. Harmless(t, o + q)
      BY <2>1, <2>3, StringHarmless
    <3> QED
      BY <2>2, <3>1, <3>2
  <2>4. Shadows(m) => \E q : q \in Occurrences(v, Messages)
    BY <2>1, <2>2, StringHit
  <2> QED
    BY <2>3, <2>4 DEF v
<1>2. CASE m.kind = "plain"
  <2>1. m.chars \in Texts /\ v = m.chars /\ \A i \in 1..Len(m.chars) : m.chars[i] \in Ink
    BY <1>2, ValueShapes
  <2>2. ~Shadows(m)
    BY <1>2 DEF Shadows
  <2>3. Occurrences(v, Messages) = {}
    <3>1. Quote \notin Ink
      BY InkIsPlain
    <3>2. \A q \in 1..(Len(m.chars) - 2) : q \in 1..Len(m.chars)
      BY <2>1 DEF Texts
    <3> QED
      BY <2>1, <3>1, <3>2 DEF Occurrences
  <2> QED
    BY <2>2, <2>3
<1>3. CASE m.kind = "list"
  <2> DEFINE l == m.list
  <2>1. l \in Seq(Seq(Nested)) /\ v = ListText(l)
    BY <1>3 DEF IsMember, Nested, Texts, ValueText, ListText, TextsOf
  <2>2. Shadows(m) <=> \E i \in 1..Len(l) : Names(l[i])
    <3>1. DOMAIN l = 1..Len(l) /\ \A i \in 1..Len(l) : DOMAIN l[i] = 1..Len(l[i])
      BY <2>1
    <3>2. Shadows(m) <=> \E i \in DOMAIN l : \E j \in DOMAIN l[i] :
                           l[i][j][1] = Messages \/ SpellsMessages(l[i][j][2])
      BY <1>3 DEF Shadows, Messages
    <3> HIDE DEF l
    <3> QED
      BY <3>1, <3>2 DEF Names
  <2> HIDE DEF l, v
  <2>3. v \in Texts
    <3>1. ListText(l) = <<"[">> \o Separated([i \in DOMAIN l |-> MessageText(l[i])]) \o <<"]">>
      BY DEF ListText, TextsOf
    <3> QED
      BY <2>1, <3>1, ListKeys
  <2>4. ASSUME NEW t \in Texts, NEW o \in Nat, Stands(t, o, v), NEW q \in Occurrences(v, Messages)
        PROVE  Harmless(t, o + q) /\ Shadows(m)
    <3>1. o + q \in Occurrences(t, Messages)
      BY <2>3, <2>4, HitMoves
    <3>2. o < o + q /\ o + q <= o + Len(v)
      <4>1. Len(v) \in Nat /\ q \in 1..(Len(v) - 2)
        BY <2>3 DEF Texts, Occurrences
      <4> QED
        BY <4>1
    <3> QED
      BY <2>1, <2>2, <2>4, <3>1, <3>2, ListHit
  <2>5. Shadows(m) => \E q : q \in Occurrences(v, Messages)
    BY <2>1, <2>2, ListHit
  <2> QED
    BY <2>4, <2>5 DEF v
<1> QED
  BY <1>1, <1>2, <1>3 DEF IsMember

-----------------------------------------------------------------------------
(* The messages of a request *)

\* Member i of the request is written after the first A[i] symbols of the body, and
\* "messages" between quotes is the key of a member or stands in its value.
Placed(A) ==
  /\ \A i \in 1..Len(members) :
       LET v == ValueText(members[i])
       IN  /\ A[i] \in Nat /\ IsMember(members[i]) /\ v \in Texts
           /\ Stands(Body, A[i], Label(members[i].key)) /\ Stands(Body, A[i] + Width, v)
           /\ \E c \in {Comma, Close} : At(Body, A[i] + Width + Len(v) + 1, c)
           /\ \A j \in 1..Len(members) : i < j => A[i] + Width + Len(v) < A[j]
  /\ Messages \in Keys =>
       \A p \in Occurrences(Body, Messages) : \E i \in 1..Len(members) :
         \/ p = A[i] + 1 /\ members[i].key = Messages
         \/ /\ A[i] < p
            /\ p - (A[i] + Width) \in Occurrences(ValueText(members[i]), Messages)

\* The members of a request are so placed.
LEMMA BodyIsPlaced ==
  ASSUME MembersTyped
  PROVE  Body \in Texts /\ \E A : Placed(A)
<1> DEFINE n == Len(members)
           names == [i \in DOMAIN members |-> members[i].key]
           texts == [i \in DOMAIN members |-> ValueText(members[i])]
           parts == Pairs(names, texts)
           t == Body
<1>1. n \in Nat /\ DOMAIN members = 1..n /\ \A i \in 1..n : members[i] \in Members[kind]
  BY DEF MembersTyped
<1>2. \A i \in 1..n : IsMember(members[i])
  BY <1>1, MembersAssumption DEF MembersTyped
<1>3. names \in Seq(Keys) /\ Len(names) = n /\ \A i \in 1..n : names[i] = members[i].key
  <2>1. \A i \in 1..n : members[i].key \in Keys
    BY <1>2 DEF IsMember
  <2>2. names = [i \in 1..n |-> members[i].key]
    BY <1>1
  <2> HIDE DEF names
  <2> QED
    BY <1>1, <2>1, <2>2
<1>4. /\ texts \in Seq(Texts) /\ Len(texts) = n
      /\ \A i \in 1..n : texts[i] = ValueText(members[i]) /\ texts[i] \in Texts
  <2>1. \A i \in 1..n : ValueText(members[i]) \in Texts
    BY <1>2, ValueShapes
  <2>2. texts = [i \in 1..n |-> ValueText(members[i])]
    BY <1>1
  <2> HIDE DEF texts
  <2> QED
    BY <1>1, <2>1, <2>2
<1>5. t = Object(names, texts)
  BY DEF Body
<1> HIDE DEF names, texts, n, t
<1>6. t \in Texts
  <2>1. \E O : IsObject(t, names, texts, O)
    BY <1>3, <1>4, <1>5, ObjectText
  <2> QED
    BY <2>1 DEF IsObject
<1>7. 0 \in Nat /\ Stands(t, 0, Object(names, texts))
  BY <1>5, <1>6 DEF Stands, Texts
<1>8. Len(texts) = Len(names)
  BY <1>3, <1>4
<1>9. PICK A : HasMembers(t, 0, names, texts, A)
  BY <1>3, <1>4, <1>6, <1>7, <1>8, MembersStand
<1>10. /\ parts \in Seq(Texts) /\ Len(parts) = n /\ Row(t, 1, parts, A)
       /\ \A i \in 1..n :
            /\ A[i] \in Nat
            /\ Stands(t, A[i], Label(names[i])) /\ Stands(t, A[i] + Width, texts[i])
            /\ Len(parts[i]) = Width + Len(texts[i])
            /\ \E c \in {Comma, Close} : At(t, A[i] + Width + Len(texts[i]) + 1, c)
  BY <1>3, <1>9 DEF HasMembers
<1> HIDE DEF parts
<1>11. \A i, j \in 1..n : i < j => A[i] + Width + Len(texts[i]) < A[j]
  <2>1. ASSUME NEW i \in 1..n, NEW j \in 1..n, i < j
        PROVE  A[i] + Width + Len(texts[i]) < A[j]
    <3>1. A[i] + Len(parts[i]) < A[j]
      <4>1. i \in 1..Len(parts) /\ j \in 1..Len(parts) /\ 1 \in Nat
        BY <1>10
      <4> QED
        BY <1>6, <1>10, <2>1, <4>1, RowOrder
    <3>2. A[i] \in Nat /\ Width \in Nat /\ Len(texts[i]) \in Nat
      BY <1>4, <1>10 DEF Width, Texts
    <3>3. Len(parts[i]) = Width + Len(texts[i])
      BY <1>10
    <3> QED
      BY <3>1, <3>2, <3>3
  <2> QED
    BY <2>1
<1>12. ASSUME Messages \in Keys, NEW p \in Occurrences(t, Messages)
       PROVE  \E i \in 1..n :
                \/ p = A[i] + 1 /\ names[i] = Messages
                \/ A[i] < p /\ p - (A[i] + Width) \in Occurrences(texts[i], Messages)
  <2>1. Len(t) \in Nat /\ p \in 1..(Len(t) - 2)
    BY <1>6 DEF Occurrences, Texts
  <2>2. 0 < p /\ p <= 0 + Len(Object(names, texts))
    BY <1>5, <2>1
  <2>3. PICK i \in 1..Len(names) :
          /\ A[i] < p
          /\ \/ p = A[i] + 1 /\ names[i] = Messages
             \/ p > A[i] + Width /\ p - (A[i] + Width) \in Occurrences(texts[i], Messages)
    BY <1>3, <1>4, <1>6, <1>7, <1>8, <1>9, <1>12, <2>2, ObjectHit
  <2> QED
    BY <1>3, <2>3
<1>13. Placed(A)
  <2>1. \A i \in 1..n :
          LET v == ValueText(members[i])
          IN  /\ A[i] \in Nat /\ IsMember(members[i]) /\ v \in Texts
              /\ Stands(t, A[i], Label(members[i].key)) /\ Stands(t, A[i] + Width, v)
              /\ \E c \in {Comma, Close} : At(t, A[i] + Width + Len(v) + 1, c)
              /\ \A j \in 1..n : i < j => A[i] + Width + Len(v) < A[j]
    BY <1>2, <1>3, <1>4, <1>10, <1>11
  <2>2. Messages \in Keys =>
          \A p \in Occurrences(t, Messages) : \E i \in 1..n :
            \/ p = A[i] + 1 /\ members[i].key = Messages
            \/ /\ A[i] < p
               /\ p - (A[i] + Width) \in Occurrences(ValueText(members[i]), Messages)
    BY <1>3, <1>4, <1>12
  <2> QED
    BY <2>1, <2>2 DEF Placed, n, t
<1> QED
  BY <1>6, <1>13 DEF t

\* No array follows the first "messages" of a text.
NoArrayFirst(t) ==
  Occurrences(t, Messages) = {} \/ Harmless(t, Least(Occurrences(t, Messages)))

\* The array of the messages l follows the first "messages" of a text, at b.
ArrayFirst(t, l, b) ==
  LET k == Least(Occurrences(t, Messages))
  IN  /\ k # 0 /\ AsKey(t, k) /\ skip_ws(t, skip_ws(t, k + 3) + 1) = b + 1
      /\ b \in Nat /\ Stands(t, b, ListText(l))
      /\ l \in Seq(Seq(Nested)) /\ \A i \in 1..Len(l) : Distinct(l[i])

\* The key of member m, when it is the first "messages", is followed by its messages
\* or by no array.
LEMMA FirstKey ==
  ASSUME NEW t \in Texts, NEW m, IsMember(m), m.key = Messages, NEW a \in Nat,
         Stands(t, a, Label(Messages)), Stands(t, a + Width, ValueText(m)),
         a + 1 = Least(Occurrences(t, Messages))
  PROVE  /\ m.kind = "list" => ArrayFirst(t, m.list, a + Width)
         /\ m.kind # "list" => NoArrayFirst(t)
<1> DEFINE v == ValueText(m)
           k == Least(Occurrences(t, Messages))
           open == skip_ws(t, skip_ws(t, k + 3) + 1)
           b == a + Width
<1>1. Messages \in Keys
  BY DEF IsMember
<1>2. v \in Texts /\ Len(v) # 0 /\ v[1] \notin {Space, Newline}
  BY ValueShapes
<1>3. Width \in Nat /\ k = a + 1 /\ k + 3 = a + 4 /\ Stands(t, b, v)
  BY DEF Width
<1>4. m.kind = "list" => m.list \in Seq(Seq(Nested)) /\ v = ListText(m.list)
  BY DEF IsMember, Nested, Texts, ValueText, ListText, TextsOf
<1>5. m.kind # "list" => v[1] # "["
  <2>1. m.kind # "list" => v[1] \in Ink \cup {Quote}
    BY ValueShapes
  <2> HIDE DEF v
  <2> QED
    BY <2>1, InkIsPlain, Characters
<1> HIDE DEF v, k
<1>6. At(t, skip_ws(t, a + 4), ":") /\ skip_ws(t, skip_ws(t, a + 4) + 1) = b + 1
  BY <1>1, <1>2, <1>3, ColonAt
<1>7. AsKey(t, k) /\ open = b + 1 /\ k # 0
  BY <1>3, <1>6 DEF AsKey
<1> HIDE DEF open, b
<1>8. b \in Nat
  BY <1>3 DEF b
<1>9. CASE m.kind = "list"
  <2> DEFINE l == m.list
  <2>1. l \in Seq(Seq(Nested)) /\ Stands(t, b, ListText(l))
    BY <1>3, <1>4, <1>9
  <2>2. \A i \in 1..Len(l) : Distinct(l[i])
    <3>1. DOMAIN l = 1..Len(l) /\ \A i \in 1..Len(l) : DOMAIN l[i] = 1..Len(l[i])
      BY <2>1
    <3>2. \A n \in DOMAIN l : \A i, j \in DOMAIN l[n] : l[n][i][1] = l[n][j][1] => i = j
      BY <1>9 DEF IsMember
    <3> HIDE DEF l
    <3> QED
      BY <3>1, <3>2 DEF Distinct
  <2> HIDE DEF l
  <2>3. ArrayFirst(t, l, b)
    BY <1>7, <1>8, <2>1, <2>2 DEF ArrayFirst, k, open
  <2> QED
    BY <1>9, <2>3 DEF l, b
<1>10. CASE m.kind # "list"
  <2>1. t[b + 1] = v[1]
    <3>1. 1 \in 1..Len(v)
      BY <1>2 DEF Texts
    <3> QED
      BY <1>3, <3>1 DEF Stands
  <2>2. ~At(t, open, "[")
    BY <1>5, <1>7, <1>10, <2>1 DEF At
  <2> QED
    BY <1>10, <2>2 DEF NoArrayFirst, Harmless, k, open
<1> QED
  BY <1>9, <1>10

\* Nothing is read where no array begins.
LEMMA NoArray ==
  ASSUME NEW t, NoArrayFirst(t)
  PROVE  json_parse_messages(t) = << >>
<1>1. CASE Occurrences(t, Messages) = {}
  <2>1. Least(Occurrences(t, Messages)) = 0
    BY <1>1 DEF Least
  <2> QED
    BY <2>1 DEF json_parse_messages, Messages
<1>2. CASE Harmless(t, Least(Occurrences(t, Messages)))
  BY <1>2 DEF json_parse_messages, Messages, Harmless
<1> QED
  BY <1>1, <1>2 DEF NoArrayFirst

\* What arrives, by the member that has the key.
LEMMA SentIs ==
  ASSUME MembersTyped
  PROVE  /\ MessagesShadowed => Sent = << >>
         /\ (\A j \in 1..Len(members) : members[j].key # Messages) => Sent = << >>
         /\ \A j \in 1..Len(members) : members[j].key = Messages /\ ~MessagesShadowed =>
              Sent = IF members[j].kind = "list" THEN AsMessages(members[j].list) ELSE << >>
<1> DEFINE n == Len(members)
           l == Written(Messages, "list")
<1>1. n \in Nat /\ DOMAIN members = 1..n
  BY DEF MembersTyped
<1>2. l = {m \in {members[i] : i \in 1..n} : m.key = Messages /\ m.kind = "list"}
  BY <1>1 DEF Written, ToSet
<1>3. Sent = IF MessagesShadowed \/ l = {} THEN << >> ELSE AsMessages((CHOOSE m \in l : TRUE).list)
  BY DEF Sent, Messages
<1> HIDE DEF l
<1>4. (\A j \in 1..n : members[j].key # Messages) => l = {}
  BY <1>2
<1>5. ASSUME NEW j \in 1..n, members[j].key = Messages, ~MessagesShadowed
      PROVE  Sent = IF members[j].kind = "list" THEN AsMessages(members[j].list) ELSE << >>
  <2> DEFINE m == members[j]
  <2>1. \A i \in 1..n : members[i].key = Messages => i = j
    BY <1>5 DEF MembersTyped
  <2>2. l = IF m.kind = "list" THEN {m} ELSE {}
    <3>1. \A x \in {members[i] : i \in 1..n} : x.key = Messages => x = m
      BY <2>1
    <3>2. m \in {members[i] : i \in 1..n} /\ m.key = Messages
      BY <1>5
    <3> HIDE DEF m
    <3> QED
      BY <1>2, <3>1, <3>2
  <2> HIDE DEF m
  <2>3. Sent = IF m.kind = "list" THEN AsMessages(m.list) ELSE << >>
    <3>1. CASE m.kind = "list"
      <4>1. l = {m} /\ (CHOOSE x \in {m} : TRUE) = m
        BY <2>2, <3>1
      <4> QED
        BY <1>3, <1>5, <3>1, <4>1
    <3>2. CASE m.kind # "list"
      BY <1>3, <2>2, <3>2
    <3> QED
      BY <3>1, <3>2
  <2> QED
    BY <2>3 DEF m
<1> QED
  BY <1>3, <1>4, <1>5

\* The first "messages" is the key of the request, and its messages are read, or it
\* stands in a value, and nothing is: then the key is shadowed or missing.
LEMMA FirstMessages ==
  ASSUME MembersTyped
  PROVE  \/ NoArrayFirst(Body) /\ Sent = << >>
         \/ \E l, b : ArrayFirst(Body, l, b) /\ Sent = AsMessages(l)
<1> DEFINE n == Len(members)
           t == Body
           Occ == Occurrences(t, Messages)
           k == Least(Occ)
           v(i) == ValueText(members[i])
<1>1. t \in Texts /\ \E A : Placed(A)
  BY BodyIsPlaced
<1>2. PICK A : Placed(A)
  BY <1>1
<1>3. n \in Nat /\ DOMAIN members = 1..n
  BY DEF MembersTyped
<1>4. \A i \in 1..n : A[i] \in Nat /\ IsMember(members[i]) /\ v(i) \in Texts
  BY <1>2 DEF Placed
<1>5. \A i \in 1..n :
        /\ Stands(t, A[i], Label(members[i].key)) /\ Stands(t, A[i] + Width, v(i))
        /\ \E c \in {Comma, Close} : At(t, A[i] + Width + Len(v(i)) + 1, c)
  BY <1>2 DEF Placed
<1>6. \A i, j \in 1..n : i < j => A[i] + Width + Len(v(i)) < A[j]
  BY <1>2 DEF Placed
<1>7. Messages \in Keys =>
        \A p \in Occ : \E i \in 1..n :
          \/ p = A[i] + 1 /\ members[i].key = Messages
          \/ A[i] < p /\ p - (A[i] + Width) \in Occurrences(v(i), Messages)
  BY <1>2 DEF Placed
<1>8. MessagesShadowed <=>
        \E i, j \in 1..n : i < j /\ members[j].key = Messages /\ Shadows(members[i])
  BY <1>3 DEF MessagesShadowed, Messages
<1>9. Width \in Nat
  BY DEF Width
<1> HIDE DEF t, n, v
<1>10. CASE Messages \notin Keys
  <2>1. Messages \notin Symbols
    BY <1>10, NameIsPlain DEF Messages
  <2>2. Occ = {}
    BY <1>1, <2>1, NotASymbol
  <2>3. \A j \in 1..n : members[j].key # Messages
    BY <1>4, <1>10 DEF IsMember
  <2> QED
    BY <2>2, <2>3, SentIs DEF NoArrayFirst, t, n
<1>11. CASE Messages \in Keys
  <2>1. \A j \in 1..n : members[j].key = Messages => A[j] + 1 \in Occ
    <3>1. ASSUME NEW j \in 1..n, members[j].key = Messages PROVE A[j] + 1 \in Occ
      <4>1. A[j] \in Nat /\ Stands(t, A[j], Label(Messages))
        BY <1>4, <1>5, <3>1
      <4> QED
        BY <1>1, <1>11, <4>1, KeyHit
    <3> QED
      BY <3>1
  <2>2. CASE Occ = {}
    BY <2>1, <2>2, SentIs DEF NoArrayFirst, t, n
  <2>3. CASE Occ # {}
    <3>1. Occ \in SUBSET Nat
      BY DEF Occurrences
    <3>2. k \in Occ /\ \A p \in Occ : k <= p
      <4> HIDE DEF Occ
      <4> QED
        BY <2>3, <3>1, MinExists DEF Least
    <3> HIDE DEF k, Occ
    <3>3. k \in Nat
      BY <3>1, <3>2
    <3>4. PICK i \in 1..n :
            \/ k = A[i] + 1 /\ members[i].key = Messages
            \/ A[i] < k /\ k - (A[i] + Width) \in Occurrences(v(i), Messages)
      BY <1>7, <1>11, <3>2
    <3> DEFINE a == A[i]
               m == members[i]
    <3>5. a \in Nat /\ IsMember(m) /\ v(i) \in Texts
      BY <1>4
    <3>6. CASE A[i] < k /\ k - (A[i] + Width) \in Occurrences(v(i), Messages)
      <4> DEFINE q == k - (a + Width)
                 b == a + Width
      <4>1. q \in Occurrences(ValueText(m), Messages) /\ Stands(t, b, ValueText(m)) /\ b \in Nat
        BY <1>5, <1>9, <3>5, <3>6 DEF v
      <4>2. PICK c \in {Comma, Close} : At(t, b + Len(ValueText(m)) + 1, c)
        BY <1>5 DEF v
      <4>3. b + q = k
        BY <1>9, <3>3, <3>5
      <4> HIDE DEF b, q, m
      <4>4. Harmless(t, b + q) /\ Shadows(m)
        BY <1>1, <1>11, <3>5, <4>1, <4>2, ValueHit
      <4>5. Harmless(t, k)
        BY <4>3, <4>4
      <4>6. NoArrayFirst(t)
        BY <4>5 DEF NoArrayFirst, k, Occ
      <4>7. Sent = << >>
        <5>1. CASE \A j \in 1..n : members[j].key # Messages
          BY <5>1, SentIs DEF n
        <5>2. CASE \E j \in 1..n : members[j].key = Messages
          <6>1. PICK j \in 1..n : members[j].key = Messages
            BY <5>2
          <6>2. A[j] \in Nat /\ k <= A[j] + 1
            BY <1>4, <2>1, <3>2, <6>1
          <6>3. i # j
            <7>1. ASSUME i = j PROVE FALSE
              <8>1. q >= 1
                <9>1. Occurrences(ValueText(m), Messages) \subseteq 1..(Len(ValueText(m)) - 2)
                  BY DEF Occurrences
                <9>2. Len(ValueText(m)) \in Nat
                  BY <3>5 DEF v, m, Texts
                <9> QED
                  BY <4>1, <9>1, <9>2
              <8>2. k > a + Width /\ Width >= 4
                <9>1. q \in Nat /\ Width >= 4
                  BY <4>1 DEF Occurrences, Width
                <9> QED
                  BY <1>9, <3>5, <4>3, <8>1, <9>1 DEF b
              <8> QED
                BY <1>9, <3>3, <3>5, <6>2, <7>1, <8>2
            <7> QED
              BY <7>1
          <6>4. ~(j < i)
            <7>1. ASSUME j < i PROVE FALSE
              <8>1. A[j] + Width + Len(v(j)) < A[i] /\ Len(v(j)) \in Nat
                BY <1>4, <1>6, <7>1 DEF Texts
              <8> QED
                BY <1>9, <3>3, <3>5, <3>6, <6>2, <8>1
            <7> QED
              BY <7>1
          <6>5. i < j
            BY <6>3, <6>4
          <6>6. MessagesShadowed
            BY <1>8, <4>4, <6>1, <6>5 DEF m
          <6> QED
            BY <6>6, SentIs
        <5> QED
          BY <5>1, <5>2
      <4> QED
        BY <4>6, <4>7 DEF t
    <3>7. CASE k = A[i] + 1 /\ members[i].key = Messages
      <4>1. ~MessagesShadowed
        <5>1. SUFFICES ASSUME NEW h \in 1..n, NEW j \in 1..n, h < j,
                              members[j].key = Messages, Shadows(members[h])
                       PROVE  FALSE
          BY <1>8
        <5>2. j = i
          BY <3>7, <5>1 DEF MembersTyped, n
        <5>3. A[h] \in Nat /\ IsMember(members[h]) /\ v(h) \in Texts /\ Stands(t, A[h] + Width, v(h))
          BY <1>4, <1>5
        <5>4. PICK q : q \in Occurrences(v(h), Messages)
          BY <1>11, <5>1, <5>3, ValueHit DEF v
        <5>5. A[h] + Width \in Nat
          BY <1>9, <5>3
        <5>6. (A[h] + Width) + q \in Occ
          BY <1>1, <5>3, <5>4, <5>5, HitMoves DEF Occ
        <5>7. Len(v(h)) \in Nat /\ q \in 1..(Len(v(h)) - 2)
          BY <5>3, <5>4 DEF Occurrences, Texts
        <5>8. A[h] + Width + Len(v(h)) < a
          BY <1>6, <5>1, <5>2
        <5>9. k <= (A[h] + Width) + q
          BY <3>2, <5>6
        <5>10. k = a + 1
          BY <3>7
        <5> HIDE DEF a
        <5> QED
          BY <1>9, <3>5, <5>3, <5>7, <5>8, <5>9, <5>10
      <4>2. Sent = IF m.kind = "list" THEN AsMessages(m.list) ELSE << >>
        BY <3>7, <4>1, SentIs DEF n
      <4>3. /\ m.kind = "list" => ArrayFirst(t, m.list, a + Width)
            /\ m.kind # "list" => NoArrayFirst(t)
        <5>1. Stands(t, a, Label(Messages)) /\ Stands(t, a + Width, ValueText(m))
          BY <1>5, <3>7 DEF v
        <5>2. m.key = Messages /\ a + 1 = Least(Occurrences(t, Messages))
          BY <3>7 DEF k, Occ
        <5> HIDE DEF a, m
        <5> QED
          BY <1>1, <3>5, <5>1, <5>2, FirstKey
      <4> HIDE DEF m, a
      <4> QED
        BY <4>2, <4>3 DEF t
    <3> QED
      BY <3>4, <3>6, <3>7
  <2> QED
    BY <2>2, <2>3
<1> QED
  BY <1>10, <1>11

\* The messages of the array are read.
LEMMA ArrayRead ==
  ASSUME NEW t \in Texts, NEW l, NEW b, ArrayFirst(t, l, b)
  PROVE  json_parse_messages(t) = AsMessages(l)
<1> DEFINE k == Least(Occurrences(t, Messages))
           open == skip_ws(t, skip_ws(t, k + 3) + 1)
           x == Separated(TextsOf(l))
<1>1. /\ k # 0 /\ AsKey(t, k) /\ open = b + 1 /\ b \in Nat /\ Stands(t, b, ListText(l))
      /\ l \in Seq(Seq(Nested)) /\ \A i \in 1..Len(l) : Distinct(l[i])
  BY DEF ArrayFirst
<1>2. json_parse_messages(t) =
        IF k # 0 /\ AsKey(t, k) /\ At(t, open, "[") THEN Elements(t)[open + 1] ELSE << >>
  BY DEF json_parse_messages, Messages
<1> HIDE DEF k, open
<1>3. /\ At(t, b + 1, "[") /\ Stands(t, b + 1, x) /\ At(t, (b + 1) + Len(x) + 1, "]")
  BY <1>1, ListStands
<1>4. b + 1 \in Nat
  BY <1>1
<1>5. Elements(t)[(b + 1) + 1] = AsMessages(l)
  BY <1>1, <1>3, <1>4, ListElements
<1> QED
  BY <1>1, <1>2, <1>3, <1>5

\* The messages handle_chat reads are those that arrive.
LEMMA MessagesAreSent ==
  ASSUME MembersTyped
  PROVE  json_parse_messages(Body) = Sent
<1>1. Body \in Texts
  BY BodyIsPlaced
<1>2. CASE NoArrayFirst(Body) /\ Sent = << >>
  BY <1>2, NoArray
<1>3. CASE \E l, b : ArrayFirst(Body, l, b) /\ Sent = AsMessages(l)
  BY <1>1, <1>3, ArrayRead
<1> QED
  BY <1>2, <1>3, FirstMessages

\* Whatever JSON the members of a request are, in whatever order and form, and
\* whatever braces, brackets, quotes and escapes the contents hold: the messages
\* handle_chat reads are those that were written that have a role, complete and in
\* order, unless "messages" is spelt by a value before them, and none then.
THEOREM MessagesRead == Spec => []MessagesAreRead
<1>1. MembersTyped => MessagesAreRead
  BY MessagesAreSent DEF MessagesAreRead
<1> QED
  BY <1>1, MembersAreTyped, PTL

-----------------------------------------------------------------------------
(* The front of a text that is cut *)

\* The text u is the front of the text t.
FrontOf(u, t) ==
  u \in Texts /\ t \in Texts /\ Len(u) <= Len(t) /\ \A i \in 1..Len(u) : u[i] = t[i]

\* What stands in a text stands in its front if it ends there.
LEMMA FrontStands ==
  ASSUME NEW u, NEW t, FrontOf(u, t), NEW o \in Nat, NEW x \in Texts, Stands(t, o, x),
         o + Len(x) <= Len(u)
  PROVE  Stands(u, o, x)
<1>1. Len(x) \in Nat /\ Len(u) \in Nat
  BY DEF FrontOf, Texts
<1>2. ASSUME NEW j \in 1..Len(x) PROVE u[o + j] = x[j]
  <2>1. o + j \in 1..Len(u)
    BY <1>1
  <2> QED
    BY <2>1 DEF FrontOf, Stands
<1> QED
  BY <1>2 DEF Stands

\* Where a search ends, past the end of the text if it began there.
LEMMA PastEnds ==
  ASSUME NEW t \in Texts, NEW p \in Nat \ {0}, NEW S
  PROVE  /\ Past(t, p, S) \in Nat /\ p <= Past(t, p, S)
         /\ \A i \in p..(Past(t, p, S) - 1) : i <= Len(t) /\ t[i] \in S
         /\ Past(t, p, S) <= Len(t) => t[Past(t, p, S)] \notin S
<1> DEFINE M == {q \in p..Len(t) : t[q] \notin S} \cup {IF p > Len(t) THEN p ELSE Len(t) + 1}
           least == Min(M)
<1>1. Len(t) \in Nat
  BY DEF Texts
<1>2. M \in SUBSET Nat /\ M # {} /\ \A q \in M : p <= q
  BY <1>1
<1>3. Past(t, p, S) = least
  BY DEF Past
<1>4. \A q \in p..Len(t) : t[q] \notin S => q \in M
  OBVIOUS
<1>5. \A q \in M : q <= Len(t) => t[q] \notin S
  BY <1>1
<1>6. p <= Len(t) => Len(t) + 1 \in M
  BY <1>1
<1>7. p > Len(t) => p \in M
  OBVIOUS
<1> HIDE DEF M
<1>8. least \in M /\ \A q \in M : least <= q
  BY <1>2, MinExists
<1> HIDE DEF least
<1>9. least \in Nat /\ p <= least
  BY <1>2, <1>8
<1>10. ASSUME NEW i \in p..(least - 1) PROVE i <= Len(t) /\ t[i] \in S
  <2>1. i \notin M /\ i \in Nat /\ i < least
    BY <1>8, <1>9
  <2>2. i <= Len(t)
    <3>1. p <= Len(t)
      BY <1>1, <1>7, <1>8, <1>9, <2>1
    <3>2. least <= Len(t) + 1
      BY <1>6, <1>8, <3>1
    <3> QED
      BY <1>1, <1>9, <2>1, <3>2
  <2> QED
    BY <1>1, <1>4, <2>1, <2>2
<1> QED
  BY <1>3, <1>5, <1>8, <1>9, <1>10

\* A search in the front ends where it does in the text, or at the cut.
LEMMA FrontPast ==
  ASSUME NEW u, NEW t, FrontOf(u, t), NEW p \in Nat \ {0}, NEW S
  PROVE  /\ Past(u, p, S) \in Nat /\ Past(t, p, S) \in Nat
         /\ Past(u, p, S) > Len(u) \/ Past(u, p, S) = Past(t, p, S)
         /\ Past(t, p, S) <= Len(u) => Past(u, p, S) = Past(t, p, S)
<1> DEFINE a == Past(u, p, S)
           b == Past(t, p, S)
<1>1. u \in Texts /\ t \in Texts
  BY DEF FrontOf
<1>2. /\ a \in Nat /\ p <= a /\ \A i \in p..(a - 1) : i <= Len(u) /\ u[i] \in S
      /\ a <= Len(u) => u[a] \notin S
  BY <1>1, PastEnds
<1>3. /\ b \in Nat /\ p <= b /\ \A i \in p..(b - 1) : i <= Len(t) /\ t[i] \in S
      /\ b <= Len(t) => t[b] \notin S
  BY <1>1, PastEnds
<1> HIDE DEF a, b
<1>4. Len(u) \in Nat /\ Len(t) \in Nat /\ Len(u) <= Len(t) /\ \A i \in 1..Len(u) : u[i] = t[i]
  BY DEF FrontOf, Texts
<1>5. ASSUME a <= Len(u) PROVE a = b
  <2>1. ~(b < a)
    <3>1. SUFFICES ASSUME b < a PROVE FALSE
      OBVIOUS
    <3>2. b \in p..(a - 1) /\ b \in 1..Len(u)
      BY <1>2, <1>3, <1>4, <1>5, <3>1
    <3> QED
      BY <1>2, <1>3, <1>4, <3>2
  <2>2. ~(a < b)
    <3>1. SUFFICES ASSUME a < b PROVE FALSE
      OBVIOUS
    <3>2. a \in p..(b - 1) /\ a \in 1..Len(u)
      BY <1>2, <1>3, <1>4, <1>5, <3>1
    <3> QED
      BY <1>2, <1>3, <1>4, <1>5, <3>2
  <2> QED
    BY <1>2, <1>3, <2>1, <2>2
<1>6. ASSUME b <= Len(u) PROVE a <= Len(u)
  <2>1. SUFFICES ASSUME a > Len(u) PROVE FALSE
    BY <1>2, <1>4
  <2>2. b \in p..(a - 1) /\ b \in 1..Len(u)
    BY <1>2, <1>3, <1>4, <1>6, <2>1
  <2> QED
    BY <1>2, <1>3, <1>4, <2>2
<1>7. a > Len(u) \/ a <= Len(u)
  BY <1>2, <1>4
<1> QED
  BY <1>2, <1>3, <1>5, <1>6, <1>7 DEF a, b

LEMMA FrontSkips ==
  ASSUME NEW u, NEW t, FrontOf(u, t), NEW p \in Nat \ {0}
  PROVE  /\ skip_ws(u, p) \in Nat /\ skip_ws(t, p) \in Nat
         /\ skip_ws(u, p) > Len(u) \/ skip_ws(u, p) = skip_ws(t, p)
         /\ skip_ws(t, p) <= Len(u) => skip_ws(u, p) = skip_ws(t, p)
BY FrontPast DEF skip_ws

\* A symbol that is found in the front is found in the text.
LEMMA FrontAt ==
  ASSUME NEW u, NEW t, FrontOf(u, t), NEW p \in Nat \ {0}, NEW c
  PROVE  At(u, p, c) => At(t, p, c) /\ p <= Len(u)
<1>1. Len(u) \in Nat /\ Len(t) \in Nat
  BY DEF FrontOf, Texts
<1> QED
  BY <1>1 DEF At, FrontOf

\* So are a word between quotes and a colon after it.
LEMMA FrontKeys ==
  ASSUME NEW u, NEW t, FrontOf(u, t), NEW k
  PROVE  /\ Occurrences(u, k) = {p \in Occurrences(t, k) : p + 2 <= Len(u)}
         /\ \A p \in Nat : AsKey(u, p) =>
              /\ AsKey(t, p) /\ skip_ws(u, p + 3) = skip_ws(t, p + 3)
              /\ skip_ws(t, p + 3) \in Nat /\ skip_ws(t, p + 3) <= Len(u)
<1>1. Len(u) \in Nat /\ Len(t) \in Nat /\ Len(u) <= Len(t) /\ \A i \in 1..Len(u) : u[i] = t[i]
  BY DEF FrontOf, Texts
<1>2. ASSUME NEW p \in 1..(Len(u) - 2)
      PROVE  /\ p \in 1..(Len(t) - 2) /\ p + 2 <= Len(u)
             /\ u[p] = t[p] /\ u[p + 1] = t[p + 1] /\ u[p + 2] = t[p + 2]
  BY <1>1
<1>3. \A p \in 1..(Len(t) - 2) : p + 2 <= Len(u) => p \in 1..(Len(u) - 2)
  BY <1>1
<1>4. Occurrences(u, k) = {p \in Occurrences(t, k) : p + 2 <= Len(u)}
  BY <1>2, <1>3 DEF Occurrences
<1>5. ASSUME NEW p \in Nat, AsKey(u, p)
      PROVE  /\ AsKey(t, p) /\ skip_ws(u, p + 3) = skip_ws(t, p + 3)
             /\ skip_ws(t, p + 3) \in Nat /\ skip_ws(t, p + 3) <= Len(u)
  <2>1. skip_ws(u, p + 3) <= Len(u) /\ At(u, skip_ws(u, p + 3), ":")
    BY <1>5 DEF AsKey, At
  <2>2. p + 3 \in Nat \ {0}
    OBVIOUS
  <2>3. /\ skip_ws(u, p + 3) \in Nat /\ skip_ws(t, p + 3) \in Nat
        /\ skip_ws(u, p + 3) > Len(u) \/ skip_ws(u, p + 3) = skip_ws(t, p + 3)
    BY <2>2, FrontSkips
  <2>4. skip_ws(u, p + 3) = skip_ws(t, p + 3)
    BY <1>1, <2>1, <2>3
  <2>5. skip_ws(t, p + 3) # 0
    <3>1. t \in Texts
      BY DEF FrontOf
    <3>2. p + 3 <= skip_ws(t, p + 3)
      BY <2>2, <3>1, PastEnds DEF skip_ws
    <3> QED
      BY <3>2
  <2>6. At(t, skip_ws(t, p + 3), ":")
    BY <2>1, <2>3, <2>4, <2>5, FrontAt
  <2> QED
    BY <2>1, <2>3, <2>4, <2>6 DEF AsKey
<1> QED
  BY <1>4, <1>5

\* A key that is found in the front is the one that is found in the text.
LEMMA FrontValue ==
  ASSUME NEW u, NEW t, FrontOf(u, t), NEW k \in Keys
  PROVE  \/ value_of(u, k) = 0
         \/ value_of(u, k) \in Nat /\ value_of(u, k) > Len(u)
         \/ value_of(u, k) \in Nat /\ value_of(u, k) = value_of(t, k)
<1> DEFINE C == {q \in Occurrences(u, k) : AsKey(u, q)}
           D == {q \in Occurrences(t, k) : AsKey(t, q)}
           p == Least(C)
           r == Least(D)
<1>1. Len(u) \in Nat /\ Len(t) \in Nat /\ u \in Texts /\ t \in Texts
      /\ Len(u) <= Len(t) /\ \A i \in 1..Len(u) : u[i] = t[i]
  BY DEF FrontOf, Texts
<1>2. \A q \in C : q \in D /\ q + 2 <= Len(u)
  <2>1. \A q \in Occurrences(u, k) : q \in Nat
    BY DEF Occurrences
  <2> QED
    BY <2>1, FrontKeys
<1>3. C \in SUBSET Nat /\ D \in SUBSET Nat
  BY DEF Occurrences
<1>4. /\ find_key(u, k) = IF p = 0 THEN 0 ELSE skip_ws(u, p + 3) + 1
      /\ find_key(t, k) = IF r = 0 THEN 0 ELSE skip_ws(t, r + 3) + 1
  BY DEF find_key
<1>5. CASE C = {}
  <2>1. p = 0
    BY <1>5 DEF Least
  <2> QED
    BY <1>4, <2>1 DEF value_of
<1>6. CASE C # {}
  <2>1. p \in C /\ \A q \in C : p <= q
    <3> HIDE DEF C
    <3> QED
      BY <1>3, <1>6, MinExists DEF Least
  <2>2. r \in D /\ \A q \in D : r <= q
    <3>1. D # {}
      BY <1>2, <2>1
    <3> HIDE DEF D
    <3> QED
      BY <1>3, <3>1, MinExists DEF Least
  <2>3. /\ p \in 1..(Len(u) - 2) /\ u[p] = Quote /\ u[p + 1] = k /\ AsKey(u, p) /\ p \in Nat
        /\ p \in D
    <3> HIDE DEF p
    <3> QED
      BY <1>2, <2>1 DEF Occurrences
  <2>4. r \in 1..(Len(t) - 2) /\ t[r + 1] = k /\ AsKey(t, r) /\ r \in Occurrences(t, k) /\ r \in Nat
    <3> HIDE DEF r
    <3> QED
      BY <2>2 DEF Occurrences
  <2>5. r <= p
    BY <2>2, <2>3
  <2> HIDE DEF C, D, p, r
  <2>6. t[p] = Quote /\ t[p + 1] = k
    BY <1>1, <2>3
  <2>7. k # Quote /\ k # ":" /\ k \notin {Space, Newline} /\ Quote \notin {Space, Newline}
    BY KeyIsPlain, Characters
  <2>8. r = p
    <3>1. SUFFICES ASSUME r < p PROVE FALSE
      BY <2>3, <2>4, <2>5
    <3> DEFINE c == skip_ws(t, r + 3)
    <3>2. r + 3 \in Nat \ {0}
      BY <2>4
    <3>3. /\ c \in Nat /\ r + 3 <= c /\ c <= Len(t) /\ t[c] = ":"
          /\ \A i \in (r + 3)..(c - 1) : t[i] \in {Space, Newline}
      <4>1. /\ c \in Nat /\ r + 3 <= c
            /\ \A i \in (r + 3)..(c - 1) : t[i] \in {Space, Newline}
        BY <1>1, <3>2, PastEnds DEF skip_ws
      <4>2. At(t, c, ":")
        BY <2>4 DEF AsKey
      <4> HIDE DEF c
      <4> QED
        BY <4>1, <4>2 DEF At
    <3> HIDE DEF c
    <3>4. p # r + 1
      BY <2>4, <2>6, <2>7
    <3>5. p # r + 2
      <4>1. SUFFICES ASSUME p = r + 2 PROVE FALSE
        OBVIOUS
      <4>2. t[r + 3] = k
        <5>1. p + 1 = r + 3
          BY <2>4, <4>1
        <5> QED
          BY <2>6, <5>1
      <4>3. c # r + 3
        BY <2>7, <3>3, <4>2
      <4>4. r + 3 \in (r + 3)..(c - 1)
        BY <2>4, <3>3, <4>3
      <4> QED
        BY <2>7, <3>3, <4>2, <4>4
    <3>6. r + 3 <= p
      BY <2>3, <2>4, <3>1, <3>4, <3>5
    <3>7. c <= p
      <4>1. SUFFICES ASSUME c > p PROVE FALSE
        BY <2>3, <3>3
      <4>2. p \in (r + 3)..(c - 1)
        BY <2>3, <2>4, <3>3, <3>6, <4>1
      <4> QED
        BY <2>6, <2>7, <3>3, <4>2
    <3>8. c \in 1..Len(u) /\ r + 2 <= Len(u)
      BY <1>1, <2>3, <2>4, <3>3, <3>6, <3>7
    <3>9. skip_ws(u, r + 3) = c
      BY <3>2, <3>8, FrontSkips DEF c
    <3>10. AsKey(u, r)
      BY <1>1, <3>3, <3>8, <3>9 DEF AsKey, At
    <3>11. r \in C
      BY <2>4, <3>8, <3>10, FrontKeys DEF C
    <3> QED
      BY <2>1, <2>3, <2>4, <3>1, <3>11
  <2>9. /\ skip_ws(u, p + 3) = skip_ws(t, p + 3) /\ skip_ws(t, p + 3) \in Nat
    BY <2>3, FrontKeys
  <2> DEFINE d == skip_ws(t, p + 3) + 1
  <2>10. find_key(u, k) = d /\ find_key(t, k) = d /\ d \in Nat \ {0}
    BY <1>4, <2>3, <2>8, <2>9
  <2> HIDE DEF d
  <2>11. value_of(u, k) = skip_ws(u, d) /\ value_of(t, k) = skip_ws(t, d)
    BY <2>10 DEF value_of
  <2> QED
    BY <2>10, <2>11, FrontSkips
<1> QED
  BY <1>5, <1>6

\* Where no quote and no escape is left, a string does not close.
LEMMA NoQuoteLeft ==
  ASSUME NEW u \in Texts, NEW p \in 1..(Len(u) + 6),
         \A i \in p..Len(u) : u[i] # Quote /\ u[i] # Backslash
  PROVE  ~Rest(u)[p].closed
<1> DEFINE N == Len(u)
           R == Rest(u)
           G == {d \in Nat : \A q \in p..(N + 6) : q + d > N => ~R[q].closed}
<1>1. N \in Nat
  BY DEF Texts
<1>2. \A q \in p..(N + 6) : R[q] = ReadAt(u, R, q)
  <2>1. \A q \in p..(N + 6) : q \in 1..(N + 6)
    BY <1>1
  <2> QED
    BY <2>1, RestAt
<1> HIDE DEF R
<1>3. \A q \in p..(N + 6) : q > N => ~R[q].closed
  <2>1. SUFFICES ASSUME NEW q \in p..(N + 6), q > N PROVE ~R[q].closed
    OBVIOUS
  <2>2. R[q] = Unclosed
    BY <1>2, <2>1 DEF ReadAt
  <2> QED
    BY <2>2 DEF Unclosed
<1>4. 0 \in G
  BY <1>1, <1>3
<1>5. ASSUME NEW d \in Nat, d \in G PROVE d + 1 \in G
  <2>1. SUFFICES ASSUME NEW q \in p..(N + 6), q + (d + 1) > N PROVE ~R[q].closed
    OBVIOUS
  <2>2. CASE q > N
    BY <1>3, <2>2
  <2>3. CASE ~(q > N)
    <3>1. q \in p..N /\ q + 1 \in p..(N + 6) /\ (q + 1) + d > N
      BY <1>1, <2>1, <2>3
    <3>2. R[q] = Then(<<u[q]>>, R[q + 1])
      BY <1>2, <2>1, <2>3, <3>1 DEF ReadAt
    <3>3. ~R[q + 1].closed
      BY <1>5, <3>1
    <3> QED
      BY <3>2, <3>3 DEF Then
  <2> QED
    BY <2>2, <2>3
<1>6. N + 1 \in G
  <2> HIDE DEF G
  <2> QED
    BY <1>1, <1>4, <1>5, NatInductionOnSet
<1>7. p \in p..(N + 6) /\ p + (N + 1) > N
  BY <1>1
<1> QED
  BY <1>6, <1>7 DEF R

\* Nor does it where a spelling is cut.
LEMMA CutSpelling ==
  ASSUME NEW u, NEW t, FrontOf(u, t), NEW o \in Nat, NEW c \in Symbols, NEW x, Spells(x, c),
         Stands(t, o, x), o < Len(u), Len(u) < o + Len(x)
  PROVE  ~Rest(u)[o + 1].closed
<1> DEFINE R == Rest(u)
           N == Len(u)
<1>1. N \in Nat /\ u \in Texts /\ \A i \in 1..N : u[i] = t[i]
  BY DEF FrontOf, Texts
<1>2. \A j \in 1..Len(x) : t[o + j] = x[j]
  BY DEF Stands
<1>3. o + 1 \in 1..(N + 6) /\ o + 1 \in 1..N /\ o < N /\ N < o + Len(x)
  BY <1>1
<1>4. R[o + 1] = ReadAt(u, R, o + 1)
  BY <1>1, <1>3, RestAt
<1>5. Quote # Backslash
  BY Characters
<1>6. CASE c \notin Escapable /\ x = <<c>>
  <2>1. Len(x) = 1
    BY <1>6
  <2> QED
    BY <1>1, <1>3, <2>1
<1>7. CASE c \in Escapable \ {Control} /\ x = <<Backslash, Short[c]>>
  <2>1. Len(x) = 2 /\ x[1] = Backslash
    BY <1>7, ShortEscape
  <2>2. N = o + 1
    BY <1>1, <1>3, <2>1
  <2>3. u[o + 1] = Backslash
    <3>1. 1 \in 1..Len(x)
      BY <2>1
    <3> QED
      BY <1>1, <1>2, <1>3, <2>1, <3>1
  <2> HIDE DEF R
  <2>4. ReadAt(u, R, o + 1) = Unclosed
    BY <1>5, <2>2, <2>3 DEF ReadAt
  <2> QED
    BY <1>4, <2>4 DEF Unclosed, R
<1>8. CASE c \in Escapable /\ x = <<Backslash, "u">> \o Hex(c)
  <2>1. /\ Len(x) = 6 /\ x[1] = Backslash /\ x[2] = "u"
        /\ \A j \in 1..4 : x[j + 2] = Hex(c)[j] /\ Hex(c)[j] \in {"0", "1", "2", "5", "a", "c"}
    BY ZenonT(30), <1>8, LongEscape
  <2>2. u[o + 1] = Backslash
    <3>1. 1 \in 1..Len(x)
      BY <2>1
    <3> QED
      BY <1>1, <1>2, <1>3, <2>1, <3>1
  <2>3. CASE N = o + 1
    <3> HIDE DEF R
    <3>1. ReadAt(u, R, o + 1) = Unclosed
      BY <1>5, <2>2, <2>3 DEF ReadAt
    <3> QED
      BY <1>4, <3>1 DEF Unclosed, R
  <2>4. CASE N # o + 1
    <3>1. o + 2 \in 1..N /\ (o + 1) + 1 = o + 2 /\ (o + 1) + 2 = o + 3 /\ o + 3 \in 1..(N + 6)
          /\ ~((o + 1) + 5 <= N) /\ ~(o + 1 > N) /\ o + 1 # N
      BY <1>1, <1>3, <2>1, <2>4
    <3>2. u[o + 2] = "u"
      <4>1. 2 \in 1..Len(x)
        BY <2>1
      <4> QED
        BY <1>1, <1>2, <2>1, <3>1, <4>1
    <3>3. ReadAt(u, R, o + 1) = R[o + 3]
      <4> HIDE DEF R
      <4> QED
        BY <1>5, <2>2, <3>1, <3>2 DEF ReadAt
    <3>4. ASSUME NEW i \in (o + 3)..N PROVE u[i] # Quote /\ u[i] # Backslash
      <4>1. i - o \in 1..Len(x) /\ (i - o) - 2 \in 1..4 /\ o + (i - o) = i /\ i \in 1..N
            /\ ((i - o) - 2) + 2 = i - o
        BY <1>1, <1>3, <2>1
      <4>2. u[i] \in {"0", "1", "2", "5", "a", "c"}
        BY <1>1, <1>2, <2>1, <4>1
      <4> QED
        BY <4>2, Letters
    <3>5. ~R[o + 3].closed
      BY <1>1, <3>1, <3>4, NoQuoteLeft
    <3> QED
      BY <1>4, <3>3, <3>5
  <2> QED
    BY <2>3, <2>4
<1> QED
  BY <1>6, <1>7, <1>8 DEF Spells

\* A string that is cut does not close.
LEMMA CutString ==
  ASSUME NEW u, NEW t, FrontOf(u, t), NEW s \in Texts, NEW q \in Nat,
         Stands(t, q, ClientEscape(s)), q <= Len(u), Len(u) <= q + Len(ClientEscape(s))
  PROVE  ~Rest(u)[q + 1].closed
<1> DEFINE R == Rest(u)
           n == Len(s)
           N == Len(u)
<1>1. PICK x, L : SpeltAt(t, q, s, x, L)
  BY Spelt DEF FrontOf
<1>2. /\ L \in [0..n -> Nat] /\ L[0] = 0 /\ L[n] = Len(ClientEscape(s))
      /\ \A k \in 1..n : Spells(x[k], s[k]) /\ Stands(t, q + L[k - 1], x[k])
                         /\ L[k] = L[k - 1] + Len(x[k])
  BY <1>1 DEF SpeltAt
<1>3. n \in Nat /\ N \in Nat /\ u \in Texts /\ L[n] \in Nat /\ N <= q + L[n] /\ q <= N
  BY <1>2 DEF Texts, FrontOf
<1> DEFINE Open0(k) == q + L[k] <= N + 5 => ~R[q + L[k] + 1].closed
<1>4. ASSUME NEW p \in (N + 1)..(N + 6) PROVE ~R[p].closed
  <2>1. p \in 1..(N + 6) /\ p > N
    BY <1>3
  <2>2. R[p] = ReadAt(u, R, p)
    BY <1>3, <2>1, RestAt
  <2> HIDE DEF R
  <2> QED
    BY <2>1, <2>2 DEF ReadAt, Unclosed
<1> HIDE DEF R
<1>5. Open0(n)
  <2>1. SUFFICES ASSUME q + L[n] <= N + 5 PROVE ~R[q + L[n] + 1].closed
    OBVIOUS
  <2>2. q + L[n] + 1 \in (N + 1)..(N + 6)
    BY <1>3, <2>1
  <2> QED
    BY <1>4, <2>2
<1>6. ASSUME NEW k \in 1..n, Open0(k) PROVE Open0(k - 1)
  <2> DEFINE a == L[k - 1]
             b == L[k]
             o == q + a
             y == x[k]
             m == Len(y)
             c == s[k]
  <2>1. Spells(y, c) /\ Stands(t, o, y) /\ b = a + m
    BY <1>2
  <2>2. c \in Symbols
    BY DEF Texts
  <2>3. a \in Nat /\ b \in Nat
    <3>1. k - 1 \in 0..n /\ k \in 0..n
      BY <1>3
    <3> QED
      BY <1>2, <3>1
  <2>4. y \in Texts /\ m \in Nat
    <3> HIDE DEF y, c, m
    <3>1. y \in Texts
      BY <2>1, <2>2, SpelledSymbols
    <3> QED
      BY <3>1 DEF Texts, m
  <2> HIDE DEF a, b, y, c
  <2>5. o \in Nat /\ o + m = q + b
    BY <2>1, <2>3, <2>4
  <2>6. SUFFICES ASSUME o <= N + 5 PROVE ~R[o + 1].closed
    BY DEF a
  <2>7. CASE o >= N
    <3>1. o + 1 \in (N + 1)..(N + 6)
      BY <1>3, <2>5, <2>6, <2>7
    <3> QED
      BY <1>4, <3>1
  <2>8. CASE o < N /\ N < o + m
    BY <2>1, <2>2, <2>5, <2>8, CutSpelling DEF R
  <2>9. CASE o < N /\ o + m <= N
    <3>1. Stands(u, o, y)
      BY <2>1, <2>4, <2>5, <2>9, FrontStands
    <3> HIDE DEF o
    <3>2. R[o + 1] = Then(<<c>>, R[o + m + 1])
      BY <1>3, <2>1, <2>2, <2>5, <3>1, ReadsSpelling DEF R
    <3>3. ~R[o + m + 1].closed
      <4>1. q + b <= N + 5 /\ o + m + 1 = q + b + 1
        BY <1>3, <2>5, <2>9
      <4> QED
        BY <1>6, <4>1 DEF b
    <3> QED
      BY <3>2, <3>3 DEF Then
  <2> HIDE DEF o, m
  <2> QED
    BY <1>3, <2>4, <2>5, <2>7, <2>8, <2>9
<1> HIDE DEF Open0
<1> DEFINE G == {d \in Nat : d <= n => Open0(n - d)}
<1>7. 0 \in G
  BY <1>3, <1>5
<1>8. ASSUME NEW d \in Nat, d \in G PROVE d + 1 \in G
  <2>1. ASSUME d + 1 <= n PROVE Open0(n - (d + 1))
    <3>1. n - d \in 1..n /\ (n - d) - 1 = n - (d + 1) /\ Open0(n - d)
      BY <1>3, <1>8, <2>1
    <3> QED
      BY <1>6, <3>1
  <2> QED
    BY <2>1
<1>9. n \in G
  <2> HIDE DEF G
  <2> QED
    BY <1>3, <1>7, <1>8, NatInductionOnSet
<1>10. Open0(0)
  BY <1>3, <1>9
<1>11. q + 0 <= N + 5 /\ q + 0 + 1 = q + 1
  BY <1>3
<1> QED
  BY <1>2, <1>10, <1>11 DEF R, Open0

\* The end of a string is the same in the front, or past the cut.
LEMMA FrontStringEnd ==
  ASSUME NEW u, NEW t, FrontOf(u, t), NEW p \in 1..(Len(u) + 2)
  PROVE  StringEnd(u, p) > Len(u) \/ StringEnd(u, p) = StringEnd(t, p)
<1> DEFINE N == Len(u)
           Good(q) == StringEnd(u, q) > N \/ StringEnd(u, q) = StringEnd(t, q)
           G == {d \in Nat : \A q \in 1..(N + 2) : q + d > N => Good(q)}
<1>1. /\ u \in Texts /\ t \in Texts /\ N \in Nat /\ Len(t) \in Nat /\ N <= Len(t)
      /\ \A i \in 1..N : u[i] = t[i]
  BY DEF FrontOf, Texts
<1>2. \A q \in 1..(N + 2) : q > N => Good(q)
  <2>1. SUFFICES ASSUME NEW q \in 1..(N + 2), q > N PROVE StringEnd(u, q) > N
    OBVIOUS
  <2>2. StringEnd(u, q) \in q..(N + 2)
    BY <1>1, StringEndAfter
  <2> QED
    BY <1>1, <2>1, <2>2
<1>3. 0 \in G
  BY <1>1, <1>2
<1>4. ASSUME NEW d \in Nat, d \in G PROVE d + 1 \in G
  <2>1. SUFFICES ASSUME NEW q \in 1..(N + 2), q + (d + 1) > N PROVE Good(q)
    BY DEF G
  <2>2. CASE q > N
    BY <1>2, <2>2
  <2>3. CASE ~(q > N)
    <3>1. /\ q \in 1..N /\ q \in 1..Len(t)
          /\ q + 1 \in 1..(N + 2) /\ q + 2 \in 1..(N + 2)
          /\ (q + 1) + d > N /\ (q + 2) + d > N
      BY <1>1, <2>1, <2>3
    <3>2. Good(q + 1) /\ Good(q + 2)
      <4> HIDE DEF Good
      <4> QED
        BY <1>4, <3>1
    <3>3. /\ StringEnd(u, q) = IF u[q] = Quote THEN q + 1
                               ELSE IF u[q] = Backslash THEN StringEnd(u, q + 2)
                               ELSE StringEnd(u, q + 1)
          /\ StringEnd(t, q) = IF t[q] = Quote THEN q + 1
                               ELSE IF t[q] = Backslash THEN StringEnd(t, q + 2)
                               ELSE StringEnd(t, q + 1)
      BY <1>1, <3>1, StringEndAt
    <3>4. u[q] = t[q]
      BY <1>1, <3>1
    <3> QED
      BY <3>2, <3>3, <3>4
  <2> QED
    BY <2>2, <2>3
<1>5. N \in G
  <2> HIDE DEF G
  <2> QED
    BY <1>1, <1>3, <1>4, NatInductionOnSet
<1>6. p + N > N
  BY <1>1
<1> HIDE DEF Good
<1>7. Good(p)
  BY <1>5, <1>6
<1> QED
  BY <1>7 DEF Good

\* So is the end of an object.
LEMMA FrontObjectEnd ==
  ASSUME NEW u, NEW t, FrontOf(u, t), NEW p \in 1..(Len(u) + 2)
  PROVE  ObjectEnd(u, p) > Len(u) \/ ObjectEnd(u, p) = ObjectEnd(t, p)
<1> DEFINE N == Len(u)
           Good(q, d) == Walk(u, q, d) > N \/ Walk(u, q, d) = Walk(t, q, d)
           G == {n \in Nat : \A q \in 1..(N + 2), d \in Int : q + n > N => Good(q, d)}
<1>1. /\ u \in Texts /\ t \in Texts /\ N \in Nat /\ Len(t) \in Nat /\ N <= Len(t)
      /\ \A i \in 1..N : u[i] = t[i]
  BY DEF FrontOf, Texts
<1>2. \A q \in 1..(N + 2), d \in Int : q > N => Walk(u, q, d) = q /\ Good(q, d)
  <2>1. SUFFICES ASSUME NEW q \in 1..(N + 2), NEW d \in Int, q > N PROVE Walk(u, q, d) = q
    OBVIOUS
  <2>2. q \in (N + 1)..(N + 2)
    BY <1>1, <2>1
  <2> QED
    BY <1>1, <2>2, WalkIs
<1>3. 0 \in G
  BY <1>1, <1>2
<1>4. ASSUME NEW n \in Nat, n \in G PROVE n + 1 \in G
  <2>1. SUFFICES ASSUME NEW q \in 1..(N + 2), NEW d \in Int, q + (n + 1) > N PROVE Good(q, d)
    BY DEF G
  <2>2. CASE q > N
    BY <1>2, <2>2
  <2>3. CASE ~(q > N)
    <3> DEFINE e == StringEnd(u, q + 1)
               f == StringEnd(t, q + 1)
    <3>1. /\ q \in 1..N /\ q \in 1..Len(t) /\ q + 1 \in 1..(N + 2) /\ (q + 1) + n > N
      BY <1>1, <2>1, <2>3
    <3>2. e \in (q + 1)..(N + 2) /\ (e > N \/ e = f)
      BY <1>1, <3>1, StringEndAfter, FrontStringEnd
    <3>3. u[q] = t[q]
      BY <1>1, <3>1
    <3>4. /\ Walk(u, q, d) =
               IF u[q] = Open THEN Walk(u, q + 1, d + 1)
               ELSE IF u[q] = Close THEN IF d = 1 THEN q + 1 ELSE Walk(u, q + 1, d - 1)
               ELSE IF u[q] = Quote THEN Walk(u, e, d)
               ELSE Walk(u, q + 1, d)
          /\ Walk(t, q, d) =
               IF t[q] = Open THEN Walk(t, q + 1, d + 1)
               ELSE IF t[q] = Close THEN IF d = 1 THEN q + 1 ELSE Walk(t, q + 1, d - 1)
               ELSE IF t[q] = Quote THEN Walk(t, f, d)
               ELSE Walk(t, q + 1, d)
      BY <1>1, <3>1, WalkIs
    <3> HIDE DEF e, f
    <3>5. Good(q + 1, d) /\ Good(q + 1, d + 1) /\ Good(q + 1, d - 1)
      <4>1. d + 1 \in Int /\ d - 1 \in Int
        OBVIOUS
      <4> HIDE DEF Good
      <4> QED
        BY <1>4, <3>1, <4>1
    <3>6. Walk(u, e, d) > N \/ Walk(u, e, d) = Walk(t, f, d)
      <4>1. e \in 1..(N + 2) /\ e + n > N
        BY <1>1, <3>1, <3>2
      <4>2. CASE e > N
        BY <1>2, <4>1, <4>2
      <4>3. CASE e = f
        <5>1. Good(e, d)
          <6> HIDE DEF Good
          <6> QED
            BY <1>4, <4>1
        <5> QED
          BY <4>3, <5>1
      <4> QED
        BY <3>2, <4>2, <4>3
    <3> QED
      BY <3>3, <3>4, <3>5, <3>6
  <2> QED
    BY <2>2, <2>3
<1>5. N \in G
  <2> HIDE DEF G
  <2> QED
    BY <1>1, <1>3, <1>4, NatInductionOnSet
<1>6. p + N > N /\ 0 \in Int
  BY <1>1
<1> HIDE DEF Good
<1>7. Good(p, 0)
  BY <1>5, <1>6
<1> QED
  BY <1>1, <1>7, WalkIs DEF Good

\* What no key is found for reads as nothing, and so does a value past the cut.
LEMMA NothingAt ==
  ASSUME NEW u, NEW k, \/ value_of(u, k) = 0
                       \/ value_of(u, k) \in Nat /\ value_of(u, k) > Len(u), u \in Texts
  PROVE  json_parse_string(u, k) = << >>
<1>1. CASE value_of(u, k) = 0
  BY <1>1 DEF json_parse_string
<1>2. CASE value_of(u, k) \in Nat /\ value_of(u, k) > Len(u)
  <2>1. ~At(u, value_of(u, k), Quote)
    BY <1>2 DEF At, Texts
  <2> QED
    BY <2>1 DEF json_parse_string, parse_string_at
<1> QED
  BY <1>1, <1>2

\* A field of a message whose text is cut is read as it was written, or not at all.
LEMMA CutField ==
  ASSUME NEW m \in Seq(Nested), Distinct(m), NEW k \in {"role", "content"},
         NEW u, FrontOf(u, MessageText(m))
  PROVE  /\ json_parse_string(u, k) \in {<< >>, Field(m, k)}
         /\ Field(m, k) \in Texts
<1> DEFINE t == MessageText(m)
           s == Field(m, k)
           v == Quoted(s)
           e == ClientEscape(s)
           N == Len(u)
<1>1. /\ t \in Texts /\ s \in Texts
      /\ (value_of(t, k) = 0 /\ s = << >>) \/ \E o : FoundAt(t, k, v, o)
  BY FieldStands
<1>2. FrontOf(u, t)
  OBVIOUS
<1> HIDE DEF t, s
<1>3. u \in Texts /\ N \in Nat
  BY <1>2 DEF FrontOf, Texts
<1>4. SUFFICES json_parse_string(u, k) \in {<< >>, s}
  BY <1>1 DEF s
<1>5. CASE k \notin Keys
  <2>1. k \notin Symbols
    BY <1>5, NameIsPlain
  <2>2. value_of(u, k) = 0
    BY <1>3, <2>1, NotASymbol
  <2> QED
    BY <1>3, <2>2, NothingAt
<1>6. CASE k \in Keys
  <2>1. CASE value_of(u, k) = 0 \/ (value_of(u, k) \in Nat /\ value_of(u, k) > Len(u))
    BY <1>3, <2>1, NothingAt
  <2>2. CASE value_of(u, k) # 0 /\ value_of(u, k) \in 1..N /\ value_of(u, k) = value_of(t, k)
    <3>1. PICK o : FoundAt(t, k, v, o)
      BY <1>1, <2>2
    <3>2. o \in Nat /\ value_of(u, k) = o + 1 /\ Stands(t, o, v) /\ o + 1 <= N
      BY <2>2, <3>1 DEF FoundAt
    <3>3. v \in Texts /\ e \in Texts /\ Len(v) = Len(e) + 2 /\ v[1] = Quote
          /\ v[Len(v)] = Quote /\ Stands(v, 1, e) /\ Len(e) \in Nat
      BY <1>1, QuotedText DEF Texts
    <3> HIDE DEF v, e
    <3>4. json_parse_string(u, k) =
            IF At(u, o + 1, Quote) /\ Rest(u)[(o + 1) + 1].closed
            THEN Rest(u)[(o + 1) + 1].chars ELSE << >>
      BY <2>2, <3>2 DEF json_parse_string, parse_string_at
    <3>5. CASE o + Len(v) <= N
      <4>1. Stands(u, o, v)
        BY <1>2, <3>2, <3>3, <3>5, FrontStands
      <4>2. Stands(u, o + 1, e)
        <5>1. 1 \in Nat
          OBVIOUS
        <5> QED
          BY <1>3, <3>2, <3>3, <4>1, <5>1, StandsWithin DEF Texts
      <4>3. o + Len(v) = (o + 1) + Len(e) + 1 /\ Len(v) \in 1..Len(v)
        BY <3>2, <3>3
      <4>4. At(u, (o + 1) + Len(e) + 1, Quote)
        BY <3>2, <3>3, <3>5, <4>1, <4>3 DEF At, Stands
      <4>5. o + 1 \in Nat
        BY <3>2
      <4>6. Rest(u)[(o + 1) + 1] = [closed |-> TRUE, chars |-> s]
        BY <1>1, <1>3, <4>2, <4>4, <4>5, ReadsString DEF e
      <4>7. Rest(u)[(o + 1) + 1].chars = s
        BY <4>6
      <4> QED
        BY <3>4, <4>7
    <3>6. CASE N < o + Len(v)
      <4>1. Stands(t, o + 1, e)
        <5>1. 1 \in Nat
          OBVIOUS
        <5> QED
          BY <1>1, <3>2, <3>3, <5>1, StandsWithin DEF Texts
      <4>2. o + 1 \in Nat /\ N <= (o + 1) + Len(e)
        BY <1>3, <3>2, <3>3, <3>6
      <4>3. ~Rest(u)[(o + 1) + 1].closed
        BY <1>1, <1>2, <3>2, <4>1, <4>2, CutString DEF e
      <4> QED
        BY <3>4, <4>3
    <3> QED
      BY <1>3, <3>2, <3>3, <3>5, <3>6
  <2>3. \/ value_of(u, k) = 0
        \/ value_of(u, k) \in Nat /\ value_of(u, k) > Len(u)
        \/ value_of(u, k) \in Nat /\ value_of(u, k) = value_of(t, k)
    BY <1>2, <1>6, FrontValue
  <2> QED
    BY <1>3, <2>1, <2>2, <2>3
<1> QED
  BY <1>5, <1>6

-----------------------------------------------------------------------------
(* The messages of an array that is cut *)

Records == [role : Texts, content : Texts]

\* What may be read of messages that were sent: the first ones, and of the last
\* the content may be missing.
IsCut(got, sent) ==
  /\ Len(got) <= Len(sent)
  /\ \A i \in DOMAIN got :
       /\ got[i].role = sent[i].role
       /\ \/ got[i].content = sent[i].content
          \/ i = Len(got) /\ got[i].content = << >>

LEMMA NothingIsCut ==
  ASSUME NEW w \in Seq(Records)
  PROVE  << >> \in Seq(Records) /\ IsCut(<< >>, w)
<1>1. << >> \in Seq(Records) /\ Len(<< >>) = 0 /\ DOMAIN << >> = {} /\ Len(w) \in Nat
  OBVIOUS
<1> QED
  BY <1>1 DEF IsCut

\* Messages that arrive complete may come before.
LEMMA CutAfter ==
  ASSUME NEW x \in Seq(Records), NEW g \in Seq(Records), NEW w \in Seq(Records), IsCut(g, w)
  PROVE  x \o g \in Seq(Records) /\ IsCut(x \o g, x \o w)
<1> DEFINE a == x \o g
           b == x \o w
<1>1. /\ a \in Seq(Records) /\ b \in Seq(Records)
      /\ Len(a) = Len(x) + Len(g) /\ Len(b) = Len(x) + Len(w)
      /\ Len(x) \in Nat /\ Len(g) \in Nat /\ Len(w) \in Nat
      /\ DOMAIN a = 1..Len(a) /\ DOMAIN g = 1..Len(g)
  OBVIOUS
<1>2. \A i \in 1..(Len(x) + Len(g)) : a[i] = IF i <= Len(x) THEN x[i] ELSE g[i - Len(x)]
  OBVIOUS
<1>3. \A i \in 1..(Len(x) + Len(w)) : b[i] = IF i <= Len(x) THEN x[i] ELSE w[i - Len(x)]
  OBVIOUS
<1> HIDE DEF a, b
<1>4. /\ Len(g) <= Len(w)
      /\ \A i \in 1..Len(g) :
           /\ g[i].role = w[i].role
           /\ g[i].content = w[i].content \/ (i = Len(g) /\ g[i].content = << >>)
  BY <1>1 DEF IsCut
<1>5. /\ Len(a) = Len(x) + Len(g) /\ Len(b) = Len(x) + Len(w)
      /\ Len(x) \in Nat /\ Len(g) \in Nat /\ Len(w) \in Nat /\ Len(g) <= Len(w)
  BY <1>1, <1>4
<1>6. Len(a) <= Len(b)
  BY <1>5
<1>7. ASSUME NEW i \in 1..Len(a)
      PROVE  /\ a[i].role = b[i].role
             /\ a[i].content = b[i].content \/ (i = Len(a) /\ a[i].content = << >>)
  <2>1. i \in 1..(Len(x) + Len(g)) /\ i \in 1..(Len(x) + Len(w))
    BY <1>5
  <2>2. CASE i <= Len(x)
    BY <1>2, <1>3, <2>1, <2>2
  <2>3. CASE ~(i <= Len(x))
    <3>1. a[i] = g[i - Len(x)] /\ b[i] = w[i - Len(x)]
      BY <1>2, <1>3, <2>1, <2>3
    <3>2. i - Len(x) \in 1..Len(g) /\ (i - Len(x) = Len(g) => i = Len(a))
      BY <1>1, <2>1, <2>3
    <3> QED
      BY <1>4, <3>1, <3>2
  <2> QED
    BY <2>2, <2>3
<1> QED
  BY <1>1, <1>7, <1>6 DEF IsCut, a, b

\* Of the last message that is read the content may be missing, whatever follows.
LEMMA CutLast ==
  ASSUME NEW r \in Records, NEW s \in Records, NEW w \in Seq(Records),
         r.role = s.role, r.content \in {<< >>, s.content}
  PROVE  <<r>> \in Seq(Records) /\ IsCut(<<r>>, <<s>> \o w)
<1> DEFINE b == <<s>> \o w
<1>1. Len(b) = 1 + Len(w) /\ Len(w) \in Nat /\ b[1] = s
  OBVIOUS
<1>2. <<r>> \in Seq(Records) /\ Len(<<r>>) = 1 /\ DOMAIN <<r>> = {1} /\ <<r>>[1] = r
  OBVIOUS
<1> HIDE DEF b
<1>3. IsCut(<<r>>, b)
  BY <1>1, <1>2 DEF IsCut
<1> QED
  BY <1>2, <1>3 DEF b

\* What arrives of a message is one record or none.
LEMMA ArrivesRecords ==
  ASSUME NEW m \in Seq(Nested), Distinct(m)
  PROVE  Arrives(m) \in Seq(Records)
<1> DEFINE r == [role |-> Field(m, "role"), content |-> Field(m, "content")]
<1>1. Field(m, "role") \in Texts /\ Field(m, "content") \in Texts
  BY FieldStands
<1>2. r \in Records
  BY <1>1 DEF Records
<1>3. Arrives(m) = << >> \/ Arrives(m) = <<r>>
  BY DEF Arrives
<1> HIDE DEF r
<1>4. << >> \in Seq(Records) /\ <<r>> \in Seq(Records)
  BY <1>2
<1> QED
  BY <1>3, <1>4

\* Past the end of a text nothing is read, nor is where it ends with spaces.
LEMMA NoElements ==
  ASSUME NEW u \in Texts, NEW p \in 1..(Len(u) + 2), \A i \in p..Len(u) : u[i] = Space
  PROVE  Elements(u)[p] = << >>
<1> DEFINE q == skip_ws(u, p)
<1>1. p \in Nat \ {0} /\ Len(u) \in Nat
  BY DEF Texts
<1>2. /\ q \in Nat /\ p <= q
      /\ q <= Len(u) => u[q] \notin {Space, Newline}
  BY <1>1, PastEnds DEF skip_ws
<1>3. Elements(u)[p] = ElementAt(u, Elements(u), q)
  BY ElementsAt
<1> HIDE DEF q
<1>4. q > Len(u)
  <2>1. ASSUME q <= Len(u) PROVE FALSE
    <3>1. q \in p..Len(u)
      BY <1>1, <1>2, <2>1
    <3>2. u[q] = Space
      BY <3>1
    <3> QED
      BY <1>2, <2>1, <3>2
  <2> QED
    BY <1>1, <1>2, <2>1
<1>5. ~At(u, q, Comma) /\ ~At(u, q, Open)
  BY <1>1, <1>2, <1>4 DEF At
<1> QED
  BY <1>3, <1>5 DEF ElementAt

\* The front of a text, from some place on, is a front of what stands there.
LEMMA FrontPiece ==
  ASSUME NEW u, NEW t, FrontOf(u, t), NEW z \in Texts, NEW o \in Nat, Stands(t, o, z),
         o < Len(u), Len(u) <= o + Len(z)
  PROVE  FrontOf(SubSeq(u, o + 1, Len(u)), z)
<1> DEFINE N == Len(u)
           c == SubSeq(u, o + 1, N)
<1>1. u \in Seq(Symbols) /\ N \in Nat /\ Len(z) \in Nat /\ \A i \in 1..N : u[i] = t[i]
  BY DEF FrontOf, Texts
<1>2. o + 1 \in 1..N /\ N \in 1..N /\ N - (o + 1) + 1 = N - o
  BY <1>1
<1>3. c \in Seq(Symbols) /\ Len(c) = N - o /\ \A i \in 1..(N - o) : c[i] = u[(o + 1) + i - 1]
  BY <1>1, <1>2
<1> HIDE DEF c
<1>4. ASSUME NEW i \in 1..(N - o) PROVE c[i] = z[i]
  <2>1. (o + 1) + i - 1 = o + i /\ o + i \in 1..N /\ i \in 1..Len(z)
    BY <1>1, <1>2
  <2>2. t[o + i] = z[i]
    BY <2>1 DEF Stands
  <2> QED
    BY <1>1, <1>3, <2>1, <2>2
<1>5. Len(c) <= Len(z)
  BY <1>1, <1>3
<1> QED
  BY <1>3, <1>4, <1>5 DEF FrontOf, Texts, c

\* An object ends after it began.
LEMMA ObjectEndAfter ==
  ASSUME NEW t \in Texts, NEW p \in 1..Len(t)
  PROVE  ObjectEnd(t, p) \in Nat
<1>1. Len(t) \in Nat /\ p \in 1..(Len(t) + 2) /\ 0 \in Int
  BY DEF Texts
<1>2. ObjectEnd(t, p) = Walk(t, p, 0)
  BY <1>1, WalkIs
<1>3. Walk(t, p, 0) \in (p + 1)..(Len(t) + 2)
  BY <1>1, WalkAfter
<1> QED
  BY <1>1, <1>2, <1>3

\* A message whose text is cut is read without its content, or complete, or not at
\* all, and nothing is read after it.
LEMMA CutPushed ==
  ASSUME NEW u, NEW t, FrontOf(u, t), NEW m \in Seq(Nested), Distinct(m), NEW o \in Nat,
         Stands(t, o, MessageText(m)), Len(u) <= o + Len(MessageText(m)),
         NEW p \in 1..(o + 1), p <= Len(u) + 2, \A i \in p..o : t[i] = Space,
         NEW w \in Seq(Records)
  PROVE  /\ Elements(u)[p] \in Seq(Records)
         /\ IsCut(Elements(u)[p], Arrives(m) \o w)
<1> DEFINE z == MessageText(m)
           L == Len(z)
           N == Len(u)
<1>1. /\ u \in Texts /\ t \in Texts /\ N \in Nat /\ Len(t) \in Nat /\ N <= Len(t)
      /\ \A i \in 1..N : u[i] = t[i]
  BY DEF FrontOf, Texts
<1>2. Arrives(m) \in Seq(Records)
  BY ArrivesRecords
<1>3. Arrives(m) \o w \in Seq(Records)
  BY <1>2
<1>4. CASE N <= o
  <2>1. \A i \in p..N : u[i] = Space
    BY <1>1, <1>4
  <2>2. p \in 1..(N + 2)
    BY <1>1
  <2>3. Elements(u)[p] = << >>
    BY <1>1, <2>1, <2>2, NoElements
  <2> QED
    BY <1>3, <2>3, NothingIsCut
<1>5. CASE o < N
  <2> DEFINE e == ObjectEnd(u, o + 1)
             c == SubSeq(u, o + 1, N)
  <2>1. /\ z \in Texts /\ At(t, o + 1, Open) /\ ObjectEnd(t, o + 1) = o + L + 1
    BY <1>1, MessageEnds
  <2>2. FrontOf(u, t) /\ Stands(t, o, z) /\ N <= o + L /\ L \in Nat
    BY <2>1 DEF Texts
  <2>3. FrontOf(c, z)
    BY <1>5, <2>1, <2>2, FrontPiece
  <2>4. /\ Message(c).role \in {<< >>, Field(m, "role")}
        /\ Message(c).content \in {<< >>, Field(m, "content")}
        /\ Field(m, "role") \in Texts /\ Field(m, "content") \in Texts
        /\ Message(c) = [role |-> Message(c).role, content |-> Message(c).content]
    BY <2>3, CutField DEF Message
  <2> HIDE DEF z, c
  <2>5. o + 1 \in 1..N /\ o + 1 \in 1..(N + 2) /\ p \in 1..(N + 2) /\ p \in Nat \ {0}
        /\ o + 1 \in p..(N + 1)
    BY <1>1, <1>5
  <2>6. e \in Nat /\ e > N
    <3>1. ObjectEnd(u, o + 1) > Len(u) \/ ObjectEnd(u, o + 1) = ObjectEnd(t, o + 1)
      BY <2>2, <2>5, FrontObjectEnd
    <3>2. e \in Nat
      BY <1>1, <2>5, ObjectEndAfter
    <3> QED
      BY <1>1, <2>1, <2>2, <3>1, <3>2
  <2> HIDE DEF e
  <2>7. u[o + 1] = Open
    BY <1>1, <2>1, <2>5 DEF At
  <2>8. skip_ws(u, p) = o + 1
    <3>1. \A i \in p..((o + 1) - 1) : u[i] \in {Space, Newline}
      BY <1>1, <1>5, SMTT(30)
    <3> QED
      BY <1>1, <2>5, <2>7, <3>1, PastIs, Characters DEF skip_ws
  <2>9. ObjectAt(u, o + 1) = c
    <3>1. {e - 1, N} = {N, e - 1} /\ e - 1 \in Nat /\ N <= e - 1
      BY <1>1, <2>6
    <3>2. Min({e - 1, N}) = N
      BY <1>1, <3>1, SmallerOfTwo
    <3> QED
      BY <3>2 DEF ObjectAt, e, c
  <2>10. Elements(u)[p] = ElementAt(u, Elements(u), o + 1)
    BY <1>1, <2>5, <2>8, ElementsAt
  <2>11. Elements(u)[p] = Pushed(c) \o << >>
    <3>1. ~At(u, o + 1, Comma) /\ At(u, o + 1, Open)
      BY <2>5, <2>7, Characters DEF At
    <3> QED
      BY <2>6, <2>9, <2>10, <3>1 DEF ElementAt, e
  <2>12. CASE Message(c).role = << >>
    <3>1. Elements(u)[p] = << >>
      BY <2>11, <2>12 DEF Pushed
    <3> QED
      BY <1>3, <3>1, NothingIsCut
  <2>13. CASE Message(c).role # << >>
    <3> DEFINE r == Message(c)
               s == [role |-> Field(m, "role"), content |-> Field(m, "content")]
    <3>1. << >> \in Texts
      BY DEF Texts
    <3>2. r \in Records /\ s \in Records
      BY <2>4, <3>1 DEF Records
    <3>3. r.role = s.role /\ r.content \in {<< >>, s.content}
      BY <2>4, <2>13
    <3>4. Arrives(m) = <<s>>
      BY <2>4, <2>13 DEF Arrives
    <3>5. Pushed(c) = <<r>>
      BY <2>13 DEF Pushed
    <3> HIDE DEF r, s
    <3>6. <<r>> \in Seq(Records) /\ IsCut(<<r>>, <<s>> \o w)
      BY <3>2, <3>3, CutLast
    <3>7. Elements(u)[p] = <<r>>
      BY <2>11, <3>5, <3>6, ConcatEmptySeq
    <3> QED
      BY <3>4, <3>6, <3>7
  <2> QED
    BY <2>12, <2>13
<1> QED
  BY <1>1, <1>4, <1>5

\* Of an array that is cut the messages are read that were complete, and of the
\* message in the cut as much as CutPushed says.
LEMMA CutElements ==
  ASSUME NEW l \in Seq(Seq(Nested)), \A i \in 1..Len(l) : Distinct(l[i]),
         NEW u, NEW t, FrontOf(u, t), NEW o \in Nat, Stands(t, o, Separated(TextsOf(l))),
         At(t, o + Len(Separated(TextsOf(l))) + 1, "]"), o <= Len(u)
  PROVE  /\ AsMessages(l) \in Seq(Records) /\ Elements(u)[o + 1] \in Seq(Records)
         /\ IsCut(Elements(u)[o + 1], AsMessages(l))
<1> DEFINE n == Len(l)
           N == Len(u)
           parts == TextsOf(l)
           x == Separated(parts)
           M == Elements(u)
           y == [i \in DOMAIN l |-> Arrives(l[i])]
<1>1. /\ n \in Nat /\ parts \in Seq(Texts) /\ Len(parts) = n /\ DOMAIN l = 1..n
      /\ \A i \in 1..n : parts[i] = MessageText(l[i]) /\ l[i] \in Seq(Nested) /\ Distinct(l[i])
  BY TextsOfMessages
<1>2. AsMessages(l) = FlattenSeq(y)
  BY DEF AsMessages, Arrives
<1>3. /\ y \in Seq(Seq(Records)) /\ Len(y) = n
      /\ \A i \in 1..n : y[i] = Arrives(l[i]) /\ y[i] \in Seq(Records)
  <2>1. \A i \in 1..n : Arrives(l[i]) \in Seq(Records)
    BY <1>1, ArrivesRecords
  <2>2. y = [i \in 1..n |-> Arrives(l[i])]
    BY <1>1
  <2> QED
    BY <1>1, <2>1, <2>2
<1> HIDE DEF y
<1>4. PICK F : Flattens(F, y, Records) /\ FlattenSeq(y) = F[Len(y)]
  BY <1>3, Flattening
<1>5. /\ F[0] = << >> /\ AsMessages(l) = F[n] /\ \A i \in 0..n : F[i] \in Seq(Records)
      /\ \A i \in 1..n : F[i] = F[i - 1] \o y[i]
  BY <1>2, <1>3, <1>4 DEF Flattens
<1>6. /\ u \in Texts /\ t \in Texts /\ N \in Nat /\ Len(t) \in Nat /\ N <= Len(t)
      /\ \A i \in 1..N : u[i] = t[i]
  BY DEF FrontOf, Texts
<1>7. PICK A : x \in Texts /\ Row(t, o, parts, A) /\ RowEnd(o, parts, A) = o + Len(x)
  BY <1>1, <1>6, SeparatedStands
<1>8. x \in Texts /\ Len(x) \in Nat
  BY <1>7 DEF Texts
<1>9. At(t, o + Len(x) + 1, "]") /\ FrontOf(u, t) /\ o <= N
  OBVIOUS
<1> HIDE DEF parts, x, N
<1>10. Row(t, o, parts, A) /\ RowEnd(o, parts, A) = o + Len(x)
  BY <1>7
<1>11. /\ n > 0 => A[1] = o /\ A[n] + Len(parts[n]) = o + Len(x)
       /\ n = 0 => Len(x) = 0
       /\ \A i \in 1..n : /\ A[i] \in Nat /\ Stands(t, A[i], parts[i])
                          /\ Len(parts[i]) \in Nat /\ A[i] + Len(parts[i]) \in Nat
       /\ \A i \in 1..n : i < n => /\ A[i + 1] = (A[i] + Len(parts[i])) + Len(Lead)
                                  /\ Stands(t, A[i] + Len(parts[i]), Lead)
  <2> DEFINE d == Len(x)
  <2>1. Len(parts) = n /\ parts \in Seq(Texts) /\ d \in Nat
    BY <1>1, <1>8
  <2>2. Row(t, o, parts, A) /\ RowEnd(o, parts, A) = o + d
    BY <1>10
  <2> HIDE DEF d, n
  <2>3. /\ Len(parts) > 0 => A[1] = o /\ A[Len(parts)] + Len(parts[Len(parts)]) = o + d
        /\ Len(parts) = 0 => d = 0
        /\ \A i \in 1..Len(parts) : /\ A[i] \in Nat /\ Stands(t, A[i], parts[i])
                                    /\ Len(parts[i]) \in Nat /\ A[i] + Len(parts[i]) \in Nat
        /\ \A i \in 1..Len(parts) : i < Len(parts) =>
             /\ A[i + 1] = (A[i] + Len(parts[i])) + Len(Lead)
             /\ Stands(t, A[i] + Len(parts[i]), Lead)
    BY <2>1, <2>2, RowEnds, ZenonT(30)
  <2> QED
    BY <2>1, <2>3 DEF d
<1> DEFINE End(i) == A[i] + Len(parts[i])
           From(i) == IF i = 0 THEN o + 1 ELSE End(i) + 1
<1>12. /\ Lead \in Texts /\ Len(Lead) \in Nat \ {0} /\ Lead[1] = Comma
       /\ \A j \in 2..Len(Lead) : Lead[j] = Space
  BY LeadText
<1> DEFINE Reads(p, w) == M[p] \in Seq(Records) /\ IsCut(M[p], w)
           Good(i, w) == /\ w \in Seq(Records) /\ F[i] \o w = F[n]
                         /\ From(i) <= N + 1 => Reads(From(i), w)
<1>13. ASSUME NEW i \in 1..n, NEW w, Good(i, w), NEW p \in 1..(A[i] + 1), p <= N + 1,
              \A j \in p..A[i] : t[j] = Space
       PROVE  Reads(p, y[i] \o w)
  <2> DEFINE m == l[i]
             a == A[i]
             L == Len(parts[i])
  <2>1. /\ m \in Seq(Nested) /\ Distinct(m) /\ parts[i] = MessageText(m) /\ a \in Nat
        /\ Stands(t, a, parts[i]) /\ y[i] = Arrives(m) /\ y[i] \in Seq(Records)
    BY <1>1, <1>3, <1>11
  <2>2. From(i) = a + L + 1 /\ L \in Nat
    BY <1>1, <1>11
  <2>3. w \in Seq(Records) /\ (From(i) <= N + 1 => Reads(From(i), w))
    BY <1>13
  <2> HIDE DEF From, m, M
  <2>4. p \in 1..(a + 1) /\ \A j \in p..a : t[j] = Space
    BY <1>13
  <2>5. p <= N + 2
    BY <1>6, <1>13
  <2> HIDE DEF a
  <2>6. CASE a + L < N
    <3>1. Stands(u, a, parts[i])
      <4>1. parts[i] \in Texts
        BY <1>1
      <4> QED
        BY <1>9, <2>1, <2>6, <4>1, FrontStands DEF N
    <3>2. ASSUME NEW j \in p..a PROVE u[j] = Space
      <4>1. j \in 1..N
        BY <1>6, <2>1, <2>2, <2>6
      <4> QED
        BY <1>6, <2>4, <4>1
    <3>3. M[p] = y[i] \o M[From(i)]
      <4>1. /\ m \in Seq(Nested) /\ Distinct(m) /\ a \in Nat /\ u \in Texts
            /\ Stands(u, a, MessageText(m)) /\ a + Len(MessageText(m)) < Len(u)
            /\ p \in 1..(a + 1)
        BY <1>6, <2>1, <2>4, <2>6, <3>1 DEF N
      <4>2. Elements(u)[p] = Arrives(m) \o Elements(u)[a + Len(MessageText(m)) + 1]
        BY <3>2, <4>1, MessagePushed
      <4> QED
        BY <2>1, <2>2, <4>2 DEF M
    <3>4. Reads(From(i), w)
      BY <1>6, <2>1, <2>2, <2>3, <2>6
    <3> QED
      BY <2>1, <2>3, <3>3, <3>4, CutAfter
  <2>7. CASE ~(a + L < N)
    <3>1. N <= a + L
      BY <1>6, <2>1, <2>2, <2>7
    <3>2. /\ Elements(u)[p] \in Seq(Records)
          /\ IsCut(Elements(u)[p], Arrives(m) \o w)
      BY <1>9, <2>1, <2>3, <2>4, <2>5, <3>1, CutPushed DEF N
    <3> QED
      BY <2>1, <3>2 DEF M
  <2> QED
    BY <2>6, <2>7
<1>14. ASSUME NEW i \in 1..n, NEW w, Good(i, w), From(i - 1) <= N + 1
       PROVE  Reads(From(i - 1), y[i] \o w)
  <2>1. CASE i = 1
    <3>1. A[i] = o /\ i - 1 = 0
      BY <1>1, <1>11, <2>1
    <3>2. From(i - 1) = A[i] + 1
      BY <3>1
    <3>3. A[i] + 1 \in 1..(A[i] + 1) /\ \A j \in (A[i] + 1)..A[i] : t[j] = Space
      BY <3>1
    <3> HIDE DEF From, Good, Reads
    <3> QED
      BY <1>13, <1>14, <3>2, <3>3
  <2>2. CASE i # 1
    <3> DEFINE k == i - 1
               e == End(k)
    <3>1. k \in 1..n /\ k < n /\ k + 1 = i /\ k # 0
      BY <1>1, <2>2
    <3>2. From(k) = e + 1
      BY <3>1
    <3> HIDE DEF k
    <3>3. A[i] = e + Len(Lead) /\ Stands(t, e, Lead) /\ e \in Nat
      BY <1>11, <3>1
    <3>4. e + 1 <= N + 1
      BY <1>14, <3>2 DEF k
    <3> HIDE DEF e, From
    <3>5. \A j \in 1..Len(Lead) : t[e + j] = Lead[j]
      BY <3>3 DEF Stands
    <3>6. t[e + 1] = Comma
      <4>1. 1 \in 1..Len(Lead)
        BY <1>12
      <4> QED
        BY <1>12, <3>3, <3>5, <4>1
    <3>7. CASE e + 1 > N
      <4>1. M[e + 1] = << >>
        <5>1. e + 1 \in 1..(N + 2) /\ \A j \in (e + 1)..N : u[j] = Space
          BY <1>6, <3>3, <3>4, <3>7
        <5> QED
          BY <1>6, <5>1, NoElements DEF N
      <4>2. y[i] \o w \in Seq(Records)
        <5>1. y[i] \in Seq(Records) /\ w \in Seq(Records)
          BY <1>3, <1>14
        <5> QED
          BY <5>1
      <4> QED
        BY <3>2, <4>1, <4>2, NothingIsCut DEF k
    <3>8. CASE ~(e + 1 > N)
      <4>1. e + 1 \in 1..N /\ u[e + 1] = Comma
        BY <1>6, <3>3, <3>6, <3>8
      <4>2. M[e + 1] = M[(e + 1) + 1]
        BY <1>6, <4>1, ElementsPass DEF N
      <4>3. (e + 1) + 1 \in 1..(A[i] + 1) /\ (e + 1) + 1 <= N + 1
        BY <1>6, <1>12, <3>3, <4>1
      <4>4. ASSUME NEW j \in ((e + 1) + 1)..A[i] PROVE t[j] = Space
        <5>1. j - e \in 2..Len(Lead) /\ j - e \in 1..Len(Lead) /\ e + (j - e) = j
          BY <1>12, <3>3
        <5> QED
          BY <1>12, <3>5, <5>1
      <4>5. Reads((e + 1) + 1, y[i] \o w)
        <5> HIDE DEF Reads, Good
        <5> QED
          BY <1>13, <1>14, <4>3, <4>4
      <4> QED
        BY <3>2, <4>2, <4>5 DEF k
    <3> QED
      BY <3>7, <3>8
  <2> QED
    BY <2>1, <2>2
<1>15. Good(n, << >>)
  <2>1. << >> \in Seq(Records) /\ F[n] \in Seq(Records)
    BY <1>1, <1>5
  <2>2. F[n] \o << >> = F[n]
    BY <2>1, ConcatEmptySeq
  <2>3. From(n) = o + Len(x) + 1
    <3>1. CASE n = 0
      BY <1>11, <3>1
    <3>2. CASE n # 0
      <4>1. n > 0
        BY <1>1, <3>2
      <4>2. End(n) = o + Len(x)
        BY <1>11, <4>1
      <4> HIDE DEF End
      <4> QED
        BY <3>2, <4>2
    <3> QED
      BY <3>1, <3>2
  <2> HIDE DEF From
  <2>4. ASSUME From(n) <= N + 1 PROVE M[From(n)] = << >>
    <3> DEFINE q == o + Len(x) + 1
    <3>1. q \in Nat \ {0} /\ q <= N + 1 /\ q <= Len(t) /\ t[q] = "]"
      BY <1>8, <1>9, <2>3, <2>4 DEF At
    <3> HIDE DEF q
    <3>2. CASE q <= N
      <4>1. q \in 1..N /\ u[q] = "]"
        BY <1>6, <3>1, <3>2
      <4>2. M[q] = << >>
        BY <1>6, <4>1, ElementsPass DEF N
      <4> QED
        BY <2>3, <4>2 DEF q
    <3>3. CASE ~(q <= N)
      <4>1. q \in 1..(N + 2) /\ \A j \in q..N : u[j] = Space
        BY <1>6, <3>1, <3>3
      <4>2. M[q] = << >>
        BY <1>6, <4>1, NoElements DEF N
      <4> QED
        BY <2>3, <4>2 DEF q
    <3> QED
      BY <3>2, <3>3
  <2> HIDE DEF M
  <2> QED
    BY <2>1, <2>2, <2>4, NothingIsCut
<1>16. ASSUME NEW i \in 1..n, NEW w, Good(i, w) PROVE Good(i - 1, y[i] \o w)
  <2> DEFINE b == F[i - 1]
             z == y[i]
  <2>1. w \in Seq(Records) /\ F[i] \o w = F[n] /\ i - 1 \in 0..n
    BY <1>1, <1>16
  <2>2. b \in Seq(Records) /\ z \in Seq(Records) /\ F[i] = b \o z
    BY <1>3, <1>5, <2>1
  <2>3. From(i - 1) <= N + 1 => Reads(From(i - 1), z \o w)
    <3> HIDE DEF From, Reads, Good
    <3> QED
      BY <1>14, <1>16
  <2> HIDE DEF b, z, From, Reads
  <2>4. z \o w \in Seq(Records)
    BY <2>1, <2>2, ConcatProperties
  <2>5. (b \o z) \o w = b \o (z \o w)
    <3>1. b \in Seq(Records) /\ z \in Seq(Records) /\ w \in Seq(Records)
      BY <2>1, <2>2
    <3> QED
      BY <3>1, SMTT(30)
  <2>6. b \o (z \o w) = F[n]
    BY <2>1, <2>2, <2>5
  <2> QED
    BY <2>3, <2>4, <2>6 DEF b, z
<1> HIDE DEF Good
<1> DEFINE G == {j \in Nat : j <= n => \E w : Good(n - j, w)}
<1>17. 0 \in G
  <2>1. n - 0 = n
    BY <1>1
  <2> QED
    BY <1>15, <2>1
<1>18. ASSUME NEW j \in Nat, j \in G PROVE j + 1 \in G
  <2>1. SUFFICES ASSUME j + 1 <= n PROVE \E w : Good(n - (j + 1), w)
    OBVIOUS
  <2>2. n - j \in 1..n /\ (n - j) - 1 = n - (j + 1)
    BY <1>1, <2>1
  <2>3. PICK w : Good(n - j, w)
    BY <1>1, <1>18, <2>1
  <2>4. Good((n - j) - 1, y[n - j] \o w)
    BY <1>16, <2>2, <2>3
  <2> QED
    BY <2>2, <2>4
<1>19. n \in G
  <2> HIDE DEF G
  <2> QED
    BY <1>1, <1>17, <1>18, NatInductionOnSet
<1>20. PICK w : Good(0, w)
  <2>1. n - n = 0 /\ n <= n
    BY <1>1
  <2>2. \E w : Good(n - n, w)
    BY <1>19, <2>1
  <2> QED
    BY <2>1, <2>2
<1>21. w \in Seq(Records) /\ << >> \o w = F[n] /\ Reads(o + 1, w)
  <2>1. o + 1 <= N + 1
    BY <1>6, <1>9
  <2> QED
    BY <1>5, <1>20, <2>1 DEF Good
<1>22. w = AsMessages(l)
  BY <1>5, <1>21, ConcatEmptySeq
<1> QED
  BY <1>21, <1>22

\* An array that is found in the front of a text is found in the text.
LEMMA FrontHarmless ==
  ASSUME NEW u, NEW t, FrontOf(u, t), NEW k \in Nat, ~Harmless(u, k)
  PROVE  /\ ~Harmless(t, k)
         /\ LET open == skip_ws(u, skip_ws(u, k + 3) + 1)
            IN  /\ open = skip_ws(t, skip_ws(t, k + 3) + 1)
                /\ open \in Nat /\ open <= Len(u)
<1> DEFINE c == skip_ws(u, k + 3)
           open == skip_ws(u, c + 1)
<1>1. AsKey(u, k) /\ At(u, open, "[")
  BY DEF Harmless
<1>2. AsKey(t, k) /\ c = skip_ws(t, k + 3) /\ c \in Nat
  BY <1>1, FrontKeys
<1> HIDE DEF c
<1>3. c + 1 \in Nat \ {0}
  BY <1>2
<1>4. open \in Nat /\ (open > Len(u) \/ open = skip_ws(t, c + 1))
  BY <1>3, FrontSkips
<1>5. open \in Nat \ {0}
  <2>1. open >= c + 1
    BY <1>3, PastEnds DEF skip_ws, FrontOf
  <2> QED
    BY <1>3, <1>4, <2>1
<1> HIDE DEF open
<1>6. At(t, open, "[") /\ open <= Len(u)
  BY <1>1, <1>5, FrontAt
<1>7. Len(u) \in Nat
  BY DEF FrontOf, Texts
<1>8. open = skip_ws(t, c + 1)
  BY <1>4, <1>5, <1>6, <1>7
<1>9. ~Harmless(t, k)
  BY <1>2, <1>6, <1>8 DEF Harmless
<1> QED
  BY <1>2, <1>5, <1>6, <1>8, <1>9 DEF c, open

\* The first "messages" is the same, or past the cut.
LEMMA FrontFirst ==
  ASSUME NEW u, NEW t, FrontOf(u, t), Occurrences(u, Messages) # {}
  PROVE  Least(Occurrences(u, Messages)) = Least(Occurrences(t, Messages))
<1> DEFINE C == Occurrences(u, Messages)
           D == Occurrences(t, Messages)
<1>1. C = {p \in D : p + 2 <= Len(u)} /\ C # {} /\ Len(u) \in Nat
  BY FrontKeys DEF FrontOf, Texts
<1>2. C \in SUBSET Nat /\ D \in SUBSET Nat
  BY DEF Occurrences
<1> HIDE DEF C, D
<1>3. D # {}
  BY <1>1
<1> DEFINE p == Min(C)
           q == Min(D)
<1>4. p \in C /\ \A r \in C : p <= r
  BY <1>1, <1>2, MinExists
<1>5. q \in D /\ \A r \in D : q <= r
  BY <1>2, <1>3, MinExists
<1> HIDE DEF p, q
<1>6. p \in D /\ p \in Nat /\ q \in Nat /\ p + 2 <= Len(u) /\ q <= p
  BY <1>1, <1>2, <1>4, <1>5
<1>7. q \in C
  BY <1>1, <1>5, <1>6
<1>8. p = q
  BY <1>4, <1>6, <1>7
<1> QED
  BY <1>1, <1>3, <1>8 DEF Least, C, D, p, q

\* The messages that arrive are records.
LEMMA AsMessagesRecords ==
  ASSUME NEW l \in Seq(Seq(Nested)), \A i \in 1..Len(l) : Distinct(l[i])
  PROVE  AsMessages(l) \in Seq(Records)
<1> DEFINE y == [i \in DOMAIN l |-> Arrives(l[i])]
           n == Len(l)
<1>1. n \in Nat /\ DOMAIN l = 1..n /\ \A i \in 1..n : Arrives(l[i]) \in Seq(Records)
  BY ArrivesRecords
<1>2. AsMessages(l) = FlattenSeq(y)
  BY DEF AsMessages, Arrives
<1>3. y \in Seq(Seq(Records)) /\ Len(y) = n
  <2>1. y = [i \in 1..n |-> Arrives(l[i])]
    BY <1>1
  <2> HIDE DEF y
  <2> QED
    BY <1>1, <2>1
<1> HIDE DEF y
<1>4. PICK F : Flattens(F, y, Records) /\ FlattenSeq(y) = F[Len(y)]
  BY <1>3, Flattening
<1> QED
  BY <1>1, <1>2, <1>3, <1>4 DEF Flattens

\* From the front of a request the first messages are read, and of the last one the
\* content may be missing.
LEMMA CutMessages ==
  ASSUME MembersTyped, NEW u, FrontOf(u, Body)
  PROVE  IsCut(json_parse_messages(u), Sent)
<1> DEFINE t == Body
           k == Least(Occurrences(u, Messages))
           got == json_parse_messages(u)
<1>1. /\ FrontOf(u, t) /\ u \in Texts /\ t \in Texts
      /\ \/ NoArrayFirst(t) /\ Sent = << >>
         \/ \E l, b : ArrayFirst(t, l, b) /\ Sent = AsMessages(l)
  BY FirstMessages DEF FrontOf
<1>2. Occurrences(u, Messages) \subseteq Occurrences(t, Messages)
  BY <1>1, FrontKeys
<1>3. << >> \in Seq(Records)
  OBVIOUS
<1> HIDE DEF t
<1>4. k \in Nat
  <2>1. Occurrences(u, Messages) \in SUBSET Nat
    BY DEF Occurrences
  <2> QED
    BY <2>1, MinExists DEF Least
<1>5. CASE NoArrayFirst(t) /\ Sent = << >>
  <2>1. NoArrayFirst(u)
    <3>1. SUFFICES ASSUME Occurrences(u, Messages) # {}, ~Harmless(u, k) PROVE FALSE
      BY DEF NoArrayFirst
    <3>2. k = Least(Occurrences(t, Messages)) /\ Occurrences(t, Messages) # {}
      BY <1>1, <1>2, <3>1, FrontFirst
    <3>3. ~Harmless(t, k)
      BY <1>1, <1>4, <3>1, FrontHarmless
    <3> QED
      BY <1>5, <3>2, <3>3 DEF NoArrayFirst
  <2>2. got = << >>
    BY <2>1, NoArray
  <2> QED
    BY <1>3, <1>5, <2>2, NothingIsCut
<1>6. ASSUME NEW l, NEW b, ArrayFirst(t, l, b), Sent = AsMessages(l)
      PROVE  IsCut(got, Sent)
  <2> DEFINE x == Separated(TextsOf(l))
             open == skip_ws(u, skip_ws(u, k + 3) + 1)
  <2>1. /\ Stands(t, b, ListText(l)) /\ b \in Nat
        /\ l \in Seq(Seq(Nested)) /\ \A i \in 1..Len(l) : Distinct(l[i])
        /\ LET h == Least(Occurrences(t, Messages))
           IN  skip_ws(t, skip_ws(t, h + 3) + 1) = b + 1
    BY <1>6 DEF ArrayFirst
  <2>2. /\ Stands(t, b + 1, x) /\ At(t, (b + 1) + Len(x) + 1, "]")
    BY <1>1, <2>1, ListStands
  <2>3. b + 1 \in Nat
    BY <2>1
  <2>4. CASE NoArrayFirst(u)
    <3>1. got = << >>
      BY <2>4, NoArray
    <3>2. AsMessages(l) \in Seq(Records)
      BY <2>1, AsMessagesRecords
    <3> QED
      BY <1>6, <3>1, <3>2, NothingIsCut
  <2>5. CASE ~NoArrayFirst(u)
    <3>1. Occurrences(u, Messages) # {} /\ ~Harmless(u, k)
      BY <2>5 DEF NoArrayFirst
    <3>2. k = Least(Occurrences(t, Messages))
      BY <1>1, <3>1, FrontFirst
    <3>3. open = skip_ws(t, skip_ws(t, k + 3) + 1) /\ open <= Len(u)
      BY <1>1, <1>4, <3>1, FrontHarmless
    <3>4. open = b + 1
      BY <2>1, <3>2, <3>3
    <3>5. got = Elements(u)[open + 1]
      <4>1. k # 0
        <5>1. Occurrences(u, Messages) \in SUBSET Nat /\ 0 \notin Occurrences(u, Messages)
          BY DEF Occurrences
        <5> QED
          BY <3>1, <5>1, MinExists DEF Least
      <4> QED
        BY <3>1, <4>1 DEF json_parse_messages, Harmless, Messages
    <3> HIDE DEF open, got, x
    <3>6. IsCut(Elements(u)[(b + 1) + 1], AsMessages(l))
      BY <1>1, <2>1, <2>2, <2>3, <3>3, <3>4, CutElements DEF x
    <3> QED
      BY <1>6, <3>4, <3>5, <3>6
  <2> QED
    BY <2>4, <2>5
<1> HIDE DEF k
<1>7. CASE \E l, b : ArrayFirst(t, l, b) /\ Sent = AsMessages(l)
  <2>1. PICK l, b : ArrayFirst(t, l, b) /\ Sent = AsMessages(l)
    BY <1>7
  <2> QED
    BY <1>6, <2>1
<1> QED
  BY <1>1, <1>5, <1>7

\* A request whose text ends anywhere, because its Content-Length was too small: of
\* the messages that were sent handle_chat reads the first ones, each with the role
\* and the content that were written, and only of the last may the content be
\* missing; no text is made up from a string that does not close.
THEOREM CutRequestRead == Spec => []TruncationInventsNothing
<1>1. ASSUME MembersTyped PROVE TruncationInventsNothing
  <2>1. Body \in Texts
    BY <1>1, BodyIsPlaced
  <2>2. SUFFICES ASSUME NEW n \in 0..Len(Body)
                 PROVE  IsCut(json_parse_messages(SubSeq(Body, 1, n)), Sent)
    BY DEF TruncationInventsNothing, IsCut
  <2> DEFINE t == Body
             u == SubSeq(t, 1, n)
  <2>3. t \in Seq(Symbols) /\ n \in 0..Len(t) /\ Len(t) \in Nat
    BY <2>1, <2>2 DEF Texts
  <2> HIDE DEF t
  <2>4. u \in Seq(Symbols) /\ Len(u) = n /\ \A i \in 1..n : u[i] = t[i]
    BY <2>3
  <2>5. FrontOf(u, t)
    BY <2>3, <2>4 DEF FrontOf, Texts
  <2> QED
    BY <1>1, <2>5, CutMessages DEF t
<1> QED
  BY <1>1, MembersAreTyped, PTL
=============================================================================
