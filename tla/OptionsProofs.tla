---------------------------- MODULE OptionsProofs -----------------------------
(***************************************************************************)
(* Proofs about Options, for bytes of any size and lists, datagrams and    *)
(* buffers of any length.                                                  *)
(*                                                                         *)
(* What is recursive, the bytes of a list (FlattenSeq) and the two readers *)
(* of options (TypeFrom and Parsed), is defined as a function that stands  *)
(* for any function with the recursive equation: such a function is shown  *)
(* to exist first, and what it computes is then proved by induction, from  *)
(* the first option on for the bytes of a list, and from the end of the    *)
(* bytes backwards for the readers.                                        *)
(***************************************************************************)
EXTENDS Options, SequenceTheorems, Induction, TLAPS

-----------------------------------------------------------------------------
(* The bytes of a list *)

\* g flattens s: g[i] is the concatenation of the first i of its elements.
Flattens(g, s) == g = [i \in 1 .. Len(s) |-> IF i = 1 THEN s[i] ELSE g[i - 1] \o s[i]]

LEMMA FlatteningExists ==
  ASSUME NEW S, NEW s \in Seq(Seq(S))
  PROVE  \E g \in [1 .. Len(s) -> Seq(S)] : Flattens(g, s)
<1> DEFINE N == Len(s)
           Right(g, i) == g[i] = IF i = 1 THEN s[i] ELSE g[i - 1] \o s[i]
           T == {n \in 0 .. N : \E g \in [1 .. N -> Seq(S)] :
                                  \A i \in 1 .. N : i <= n => Right(g, i)}
<1>0. N \in Nat /\ \A i \in 1 .. N : s[i] \in Seq(S)
  BY LenProperties
<1>1. 0 \in T
  <2>1. s \in [1 .. N -> Seq(S)] /\ \A i \in 1 .. N : ~ (i <= 0)
    BY <1>0, LenProperties
  <2>2. 0 \in 0 .. N
    BY <1>0
  <2> QED
    BY <2>1, <2>2
<1>2. ASSUME NEW n \in 0 .. N - 1, n \in T PROVE n + 1 \in T
  <2>1. PICK g \in [1 .. N -> Seq(S)] : \A i \in 1 .. N : i <= n => Right(g, i)
    BY <1>2
  <2>2. PICK m \in 1 .. N : m = n + 1
    BY <1>0
  <2>3. PICK v \in Seq(S) : v = IF m = 1 THEN s[m] ELSE g[m - 1] \o s[m]
    <3>1. m # 1 => m - 1 \in 1 .. N
      BY <1>0
    <3> QED
      BY <1>0, <3>1, ConcatProperties
  <2> DEFINE h == [g EXCEPT ![m] = v]
  <2>4. h \in [1 .. N -> Seq(S)] /\ h[m] = v /\ \A i \in 1 .. N : i # m => h[i] = g[i]
    OBVIOUS
  <2> HIDE DEF h
  <2>5. ASSUME NEW i \in 1 .. N, i <= n + 1 PROVE Right(h, i)
    <3>1. i # 1 => i - 1 \in 1 .. N /\ i - 1 # m /\ h[i - 1] = g[i - 1]
      BY <1>0, <2>2, <2>4, <2>5
    <3>2. CASE i = m
      BY <2>3, <2>4, <3>1, <3>2
    <3>3. CASE i # m
      <4>1. i <= n
        BY <1>0, <2>2, <2>5, <3>3
      <4> QED
        BY <2>1, <2>4, <3>1, <3>3, <4>1
    <3> QED
      BY <3>2, <3>3
  <2>6. n + 1 \in 0 .. N
    BY <1>0
  <2> QED
    BY <2>4, <2>5, <2>6
<1> HIDE DEF T
<1>3. 0 .. N \subseteq T
  BY <1>0, <1>1, <1>2, UpTo
<1>4. N \in T
  BY <1>0, <1>3
<1>5. PICK g \in [1 .. N -> Seq(S)] : \A i \in 1 .. N : i <= N => Right(g, i)
  BY <1>4 DEF T
<1>6. \A i \in 1 .. N : i <= N
  BY <1>0
<1>7. g = [i \in 1 .. N |-> g[i]]
  OBVIOUS
<1>8. Flattens(g, s)
  BY <1>5, <1>6, <1>7 DEF Flattens
<1> QED
  BY <1>8

\* t begins with the elements of s.
Begins(t, s) == Len(s) <= Len(t) /\ \A i \in 1 .. Len(s) : t[i] = s[i]

\* Functions that flatten agree as far as the sequences do.
LEMMA FlatteningsAgree ==
  ASSUME NEW S, NEW s \in Seq(S), NEW t \in Seq(S), NEW g, NEW h,
         Begins(t, s), Flattens(g, s), Flattens(h, t)
  PROVE  \A i \in 1 .. Len(s) : h[i] = g[i]
<1> DEFINE T == {n \in 0 .. Len(s) : \A i \in 1 .. n : h[i] = g[i]}
<1>0. /\ Len(s) \in Nat /\ Len(t) \in Nat
      /\ Len(s) <= Len(t) /\ \A i \in 1 .. Len(s) : t[i] = s[i]
  BY LenProperties DEF Begins
<1>1. 0 \in T
  BY <1>0
<1>2. ASSUME NEW n \in 0 .. Len(s) - 1, n \in T PROVE n + 1 \in T
  <2>1. PICK m \in 1 .. Len(s) : m = n + 1
    BY <1>0
  <2>2. m \in 1 .. Len(t) /\ t[m] = s[m]
    BY <1>0
  <2>3. g[m] = IF m = 1 THEN s[m] ELSE g[m - 1] \o s[m]
    BY DEF Flattens
  <2>4. h[m] = IF m = 1 THEN t[m] ELSE h[m - 1] \o t[m]
    BY <2>2 DEF Flattens
  <2>5. m # 1 => h[m - 1] = g[m - 1]
    BY <1>0, <1>2, <2>1
  <2>6. h[m] = g[m]
    BY <2>2, <2>3, <2>4, <2>5
  <2>7. \A i \in 1 .. n + 1 : i \in 1 .. n \/ i = m
    BY <1>0, <2>1
  <2> QED
    BY <1>0, <1>2, <2>1, <2>6, <2>7
<1> HIDE DEF T
<1>3. 0 .. Len(s) \subseteq T
  BY <1>0, <1>1, <1>2, UpTo
<1>4. Len(s) \in T
  BY <1>0, <1>3
<1> QED
  BY <1>4 DEF T

LEMMA FlattenIsLast ==
  ASSUME NEW S, NEW s \in Seq(Seq(S)), s # <<>>, NEW g, Flattens(g, s)
  PROVE  FlattenSeq(s) = g[Len(s)]
<1>1. Len(s) \in Nat /\ Len(s) # 0 /\ Len(s) \in 1 .. Len(s)
  BY LenProperties, EmptySeq
<1>2. PICK h : h = CHOOSE f : Flattens(f, s)
  OBVIOUS
<1>3. Flattens(h, s)
  BY <1>2
<1>4. FlattenSeq(s) = h[Len(s)]
  BY <1>1, <1>2 DEF FlattenSeq, Flattens
<1>5. Begins(s, s)
  BY <1>1 DEF Begins
<1> QED
  BY <1>1, <1>3, <1>4, <1>5, FlatteningsAgree

\* One more element puts its bytes at the end.
LEMMA FlattenAppend ==
  ASSUME NEW S, NEW s \in Seq(Seq(S)), NEW t \in Seq(S)
  PROVE  /\ FlattenSeq(s) \in Seq(S)
         /\ FlattenSeq(Append(s, t)) = FlattenSeq(s) \o t
<1>0. PICK u : u = Append(s, t)
  OBVIOUS
<1>1. /\ u \in Seq(Seq(S)) /\ u # <<>> /\ Len(u) = Len(s) + 1 /\ Len(s) \in Nat
      /\ u[Len(s) + 1] = t /\ \A i \in 1 .. Len(s) : u[i] = s[i]
  BY <1>0, AppendProperties, LenProperties
<1>2. PICK g \in [1 .. Len(s) -> Seq(S)] : Flattens(g, s)
  BY FlatteningExists
<1>3. PICK h \in [1 .. Len(u) -> Seq(S)] : Flattens(h, u)
  BY <1>1, FlatteningExists
<1>4. FlattenSeq(u) = h[Len(u)] /\ Len(u) \in 1 .. Len(u) /\ u[Len(u)] = t
  BY <1>1, <1>3, FlattenIsLast
<1>5. h[Len(u)] = IF Len(u) = 1 THEN t ELSE h[Len(u) - 1] \o t
  <2>1. PICK m : m = Len(u)
    OBVIOUS
  <2>2. h[m] = IF m = 1 THEN u[m] ELSE h[m - 1] \o u[m]
    BY <1>3, <1>4, <2>1 DEF Flattens
  <2> QED
    BY <1>4, <2>1, <2>2
<1>6. CASE s = <<>>
  <2>1. FlattenSeq(s) = <<>> /\ Len(s) = 0
    BY <1>6 DEF FlattenSeq
  <2>2. <<>> \in Seq(S) /\ <<>> \o t = t
    BY EmptySeq, ConcatEmptySeq
  <2>3. FlattenSeq(u) = t
    BY <1>1, <1>4, <1>5, <2>1
  <2> QED
    BY <1>0, <2>1, <2>2, <2>3
<1>7. CASE s # <<>>
  <2>1. Len(s) # 0 /\ Len(s) \in 1 .. Len(s)
    BY <1>1, <1>7, EmptySeq
  <2>2. FlattenSeq(s) = g[Len(s)] /\ g[Len(s)] \in Seq(S)
    BY <1>2, <1>7, <2>1, FlattenIsLast
  <2>3. u \in Seq(Seq(S)) /\ Begins(u, s)
    BY <1>1 DEF Begins
  <2>4. \A i \in 1 .. Len(s) : h[i] = g[i]
    BY <1>2, <1>3, <2>3, FlatteningsAgree
  <2>5. h[Len(s)] = g[Len(s)]
    BY <2>1, <2>4
  <2>6. Len(u) # 1 /\ Len(u) - 1 = Len(s)
    BY <1>1, <2>1
  <2>7. FlattenSeq(u) = FlattenSeq(s) \o t
    BY <1>4, <1>5, <2>2, <2>5, <2>6
  <2> QED
    BY <1>0, <2>2, <2>7
<1> QED
  BY <1>6, <1>7

-----------------------------------------------------------------------------
(* Options and their bytes *)

LEMMA RadixFacts == /\ Radix \in Nat /\ Radix >= 3 /\ END = Radix - 1 /\ END \in Byte
                    /\ PAD \in Byte /\ Byte \subseteq Nat
                    /\ MessageType \in Byte \ {END}
  BY RadixAssumption DEF END, PAD, Byte

\* The byte strings of up to n bytes are the sequences of that length.
LEMMA BytesAreSequences ==
  ASSUME NEW n \in Nat, NEW d
  PROVE  d \in Bytes(n) <=> d \in Seq(Byte) /\ Len(d) <= n
<1>1. ASSUME d \in Bytes(n) PROVE d \in Seq(Byte) /\ Len(d) <= n
  <2>1. PICK k \in 0 .. n : d \in [1 .. k -> Byte]
    BY <1>1 DEF Bytes
  <2>2. k \in Nat /\ k <= n
    OBVIOUS
  <2>3. d \in Seq(Byte)
    BY <2>1, <2>2, SeqDef
  <2>4. Len(d) = k
    BY <2>1, <2>2, <2>3, LenProperties
  <2> QED
    BY <2>2, <2>3, <2>4
<1>2. ASSUME d \in Seq(Byte), Len(d) <= n PROVE d \in Bytes(n)
  <2>1. Len(d) \in 0 .. n /\ d \in [1 .. Len(d) -> Byte]
    BY <1>2, LenProperties
  <2> QED
    BY <2>1 DEF Bytes
<1> QED
  BY <1>1, <1>2

\* A list holds options of this form only.
LEMMA OptionFacts ==
  ASSUME NEW o \in Options
  PROVE  /\ o.id \in Byte /\ o.id # END
         /\ o.data \in Seq(Byte) /\ Len(o.data) \in Byte
<1>1. o.data \in Bytes(Radix - 1) /\ Radix - 1 \in Nat /\ o.id \in Byte /\ o.id # END
  BY RadixFacts DEF Options
<1>2. o.data \in Seq(Byte) /\ Len(o.data) <= Radix - 1
  BY <1>1, BytesAreSequences
<1>3. Len(o.data) \in Nat
  BY <1>2, LenProperties
<1> QED
  BY <1>1, <1>2, <1>3, RadixFacts DEF Byte

LEMMA OptionIsOne ==
  ASSUME NEW id \in Byte, id # END, NEW data \in Seq(Byte), Len(data) <= Radix - 1
  PROVE  Option(id, data) \in Options
<1>1. data \in Bytes(Radix - 1)
  BY RadixFacts, BytesAreSequences
<1> QED
  BY <1>1 DEF Option, Options

LEMMA EncodedFacts ==
  ASSUME NEW o \in Options
  PROVE  /\ Encoded(o) \in Seq(Byte)
         /\ Len(Encoded(o)) = 2 + Len(o.data) /\ Len(o.data) \in Nat
         /\ Encoded(o)[1] = o.id /\ Encoded(o)[2] = Len(o.data)
         /\ \A i \in 1 .. Len(o.data) : Encoded(o)[2 + i] = o.data[i]
<1>0. <<o.id, Len(o.data)>> \in Seq(Byte)
  BY OptionFacts
<1>1. PICK b \in Seq(Byte) : b = <<o.id, Len(o.data)>>
  BY <1>0
<1>2. Len(b) = 2 /\ b[1] = o.id /\ b[2] = Len(o.data)
  BY <1>1, OptionFacts
<1>3. PICK d \in Seq(Byte) : d = o.data
  BY OptionFacts
<1>4. Len(d) \in Nat
  BY LenProperties
<1>5. /\ b \o d \in Seq(Byte) /\ Len(b \o d) = Len(b) + Len(d)
      /\ \A i \in 1 .. Len(b) + Len(d) : (b \o d)[i] =
                 IF i <= Len(b) THEN b[i] ELSE d[i - Len(b)]
  BY ConcatProperties
<1>6. Encoded(o) = b \o d
  BY <1>1, <1>3 DEF Encoded
<1>7. 1 \in 1 .. 2 + Len(d) /\ 2 \in 1 .. 2 + Len(d)
  BY <1>4
<1>8. ASSUME NEW i \in 1 .. Len(d) PROVE (b \o d)[2 + i] = d[i]
  <2>1. PICK m \in 1 .. 2 + Len(d) : m = 2 + i
    BY <1>4
  <2>2. m - 2 = i /\ ~ (m <= 2)
    BY <2>1
  <2> QED
    BY <1>2, <1>5, <2>1, <2>2
<1> QED
  BY <1>2, <1>3, <1>4, <1>5, <1>6, <1>7, <1>8

LEMMA FlatAppend ==
  ASSUME NEW opts \in Seq(Options), NEW o \in Options
  PROVE  /\ Flat(opts) \in Seq(Byte)
         /\ Flat(Append(opts, o)) = Flat(opts) \o Encoded(o)
<1>1. PICK s : s = [k \in 1 .. Len(opts) |-> Encoded(opts[k])]
  OBVIOUS
<1>2. PICK n \in Nat : n = Len(opts)
  BY LenProperties
<1>3. \A k \in 1 .. n : opts[k] \in Options /\ Encoded(opts[k]) \in Seq(Byte)
  BY <1>2, ElementOfSeq, EncodedFacts
<1>4. s \in [1 .. n -> Seq(Byte)]
  BY <1>1, <1>2, <1>3
<1>5. s \in Seq(Seq(Byte)) /\ Len(s) = n
  BY <1>4, SeqDef, LenProperties
<1>6. PICK l \in Seq(Options) : l = Append(opts, o)
  BY AppendProperties
<1>7. Len(l) = n + 1 /\ l[n + 1] = o /\ \A k \in 1 .. n : l[k] = opts[k]
  BY <1>2, <1>6, AppendProperties
<1>8. PICK u : u = [k \in 1 .. Len(l) |-> Encoded(l[k])]
  OBVIOUS
<1>9. PICK e \in Seq(Byte) : e = Encoded(o)
  BY EncodedFacts
<1>10. PICK v \in Seq(Seq(Byte)) : v = Append(s, e)
  BY <1>5, AppendProperties
<1>11. Len(v) = n + 1 /\ v[n + 1] = e /\ \A k \in 1 .. n : v[k] = s[k]
  BY <1>5, <1>10, AppendProperties
<1>12. v = [k \in 1 .. n + 1 |-> v[k]]
  BY <1>11, LenProperties
<1>13. ASSUME NEW k \in 1 .. n + 1 PROVE v[k] = Encoded(l[k])
  <2>1. CASE k = n + 1
    BY <2>1, <1>7, <1>9, <1>11
  <2>2. CASE k # n + 1
    <3>1. k \in 1 .. n
      BY <2>2
    <3> QED
      BY <3>1, <1>1, <1>2, <1>7, <1>11
  <2> QED
    BY <2>1, <2>2
<1>14. v = u
  BY <1>7, <1>8, <1>12, <1>13
<1>15. FlattenSeq(s) \in Seq(Byte) /\ FlattenSeq(v) = FlattenSeq(s) \o e
  BY <1>5, <1>10, FlattenAppend
<1> QED
  BY <1>1, <1>6, <1>8, <1>9, <1>14, <1>15 DEF Flat

LEMMA FlatType == \A opts \in Seq(Options) : Flat(opts) \in Seq(Byte) /\ Len(Flat(opts)) \in Nat
<1>1. PICK o : o \in Options
  <2>1. 0 \in Byte /\ 0 # END
    BY RadixFacts DEF PAD
  <2>2. <<>> \in Seq(Byte) /\ Len(<<>>) <= Radix - 1
    BY RadixFacts, EmptySeq
  <2> QED
    BY <2>1, <2>2, OptionIsOne
<1> QED
  BY <1>1, FlatAppend, LenProperties

LEMMA FlatEmpty == Flat(<<>>) = <<>>
<1>1. [k \in 1 .. Len(<<>>) |-> Encoded(<<>>[k])] = <<>>
  OBVIOUS
<1> QED
  BY <1>1 DEF Flat, FlattenSeq

\* The bytes of the first k options, and of one more.
LEMMA FlatNext ==
  ASSUME NEW opts \in Seq(Options), NEW k \in 0 .. Len(opts) - 1
  PROVE  /\ opts[k + 1] \in Options
         /\ SubSeq(opts, 1, k) \in Seq(Options)
         /\ SubSeq(opts, 1, k + 1) = Append(SubSeq(opts, 1, k), opts[k + 1])
         /\ Flat(SubSeq(opts, 1, k + 1)) = Flat(SubSeq(opts, 1, k)) \o Encoded(opts[k + 1])
<1>1. PICK n \in 1 .. Len(opts) : n = k + 1 /\ n - 1 = k
  BY LenProperties
<1>2. opts[n] \in Options /\ \A i \in 1 .. k : opts[i] \in Options
  BY <1>1, ElementOfSeq, LenProperties
<1>3. PICK p \in Seq(Options) : p = SubSeq(opts, 1, k)
  <2>1. 1 \in Int /\ k \in Int
    BY <1>1
  <2>2. SubSeq(opts, 1, k) \in Seq(Options)
    BY <1>2, <2>1, SubSeqProperties
  <2> QED
    BY <2>2
<1>4. SubSeq(opts, 1, n) = SubSeq(opts, 1, n - 1) \o <<opts[n]>>
  <2>1. 1 \in 1 .. Len(opts) /\ n \in 1 .. Len(opts)
    BY LenProperties
  <2> QED
    BY <2>1, SubSeqRecursiveSecond
<1>5. SubSeq(opts, 1, n) = Append(p, opts[n])
  BY <1>1, <1>2, <1>3, <1>4, AppendIsConcat
<1>6. Flat(Append(p, opts[n])) = Flat(p) \o Encoded(opts[n])
  BY <1>2, FlatAppend
<1> QED
  BY <1>1, <1>2, <1>3, <1>5, <1>6

LEMMA BeginsWithFirst ==
  ASSUME NEW S, NEW u \in Seq(S), NEW s \in Seq(S), NEW t \in Seq(S), Begins(u, s \o t)
  PROVE  Begins(u, s)
<1>1. /\ Len(s \o t) = Len(s) + Len(t)
      /\ \A i \in 1 .. Len(s) + Len(t) : (s \o t)[i] =
                 IF i <= Len(s) THEN s[i] ELSE t[i - Len(s)]
  BY ConcatProperties
<1>2. Len(s) \in Nat /\ Len(t) \in Nat /\ Len(u) \in Nat
  BY LenProperties
<1>3. Len(s) + Len(t) <= Len(u) /\ \A i \in 1 .. Len(s) + Len(t) : u[i] = (s \o t)[i]
  BY <1>1 DEF Begins
<1>4. ASSUME NEW i \in 1 .. Len(s) PROVE u[i] = s[i]
  <2>1. i \in 1 .. Len(s) + Len(t) /\ i <= Len(s)
    BY <1>2
  <2> QED
    BY <2>1, <1>1, <1>3
<1>5. Len(s) <= Len(u)
  BY <1>2, <1>3
<1> QED
  BY <1>4, <1>5 DEF Begins

\* The bytes of a list begin with those of its first k options.
LEMMA FlatBegins ==
  ASSUME NEW opts \in Seq(Options), NEW k \in 0 .. Len(opts)
  PROVE  Begins(Flat(opts), Flat(SubSeq(opts, 1, k)))
<1>1. PICK n \in Nat : n = Len(opts)
  BY LenProperties
<1> DEFINE T == {d \in 0 .. n : Begins(Flat(opts), Flat(SubSeq(opts, 1, n - d)))}
<1>2. 0 \in T
  <2>1. SubSeq(opts, 1, n - 0) = opts
    BY <1>1, SubSeqFull
  <2>2. Flat(opts) \in Seq(Byte) /\ Len(Flat(opts)) \in Nat
    BY FlatType
  <2>3. Begins(Flat(opts), Flat(opts))
    BY <2>2 DEF Begins
  <2>4. 0 \in 0 .. n
    OBVIOUS
  <2> QED
    BY <2>1, <2>3, <2>4
<1>3. ASSUME NEW d \in 0 .. n - 1, d \in T PROVE d + 1 \in T
  <2>1. PICK m \in 0 .. Len(opts) - 1 : m + 1 = n - d /\ m = n - (d + 1)
    BY <1>1
  <2>2. /\ opts[m + 1] \in Options /\ SubSeq(opts, 1, m) \in Seq(Options)
        /\ Flat(SubSeq(opts, 1, m + 1)) = Flat(SubSeq(opts, 1, m)) \o Encoded(opts[m + 1])
    BY FlatNext
  <2>3. /\ Flat(opts) \in Seq(Byte) /\ Flat(SubSeq(opts, 1, m)) \in Seq(Byte)
        /\ Encoded(opts[m + 1]) \in Seq(Byte)
    BY <2>2, FlatType, EncodedFacts
  <2>4. Begins(Flat(opts), Flat(SubSeq(opts, 1, m)))
    BY <1>3, <2>1, <2>2, <2>3, BeginsWithFirst
  <2>5. d + 1 \in 0 .. n
    OBVIOUS
  <2> QED
    BY <2>1, <2>4, <2>5
<1> HIDE DEF T
<1>4. 0 .. n \subseteq T
  BY <1>2, <1>3, UpTo
<1>5. PICK d \in 0 .. n : k = n - d
  <2>1. n - k \in 0 .. n /\ k = n - (n - k)
    BY <1>1
  <2> QED
    BY <2>1
<1>6. d \in T
  BY <1>4
<1> QED
  BY <1>5, <1>6 DEF T

\* Concatenation is associative: the two instances the list needs.
LEMMA ConcatBytes ==
  ASSUME NEW e \in Seq(Byte), NEW f \in Seq(Byte), NEW c \in Seq(Byte)
  PROVE  (e \o f) \o c = e \o (f \o c)
  BY ConcatAssociative, SMTT(30)

LEMMA ConcatOptions ==
  ASSUME NEW s \in Seq(Options), NEW t \in Seq(Options), NEW u \in Seq(Options)
  PROVE  (s \o t) \o u = s \o (t \o u)
  BY ConcatAssociative, SMTT(30)

\* What is appended to the second of two lists is appended to both.
LEMMA AppendBehind ==
  \A s, t \in Seq(Options), x \in Options : s \o Append(t, x) = Append(s \o t, x)
<1> SUFFICES ASSUME NEW s \in Seq(Options), NEW t \in Seq(Options), NEW x \in Options
             PROVE  s \o Append(t, x) = Append(s \o t, x)
  OBVIOUS
<1>1. PICK last \in Seq(Options) : last = <<x>>
  <2>1. <<x>> \in Seq(Options)
    OBVIOUS
  <2> QED
    BY <2>1
<1>2. s \o t \in Seq(Options)
  BY ConcatProperties
<1>3. Append(t, x) = t \o last
  BY <1>1, AppendIsConcat
<1>4. Append(s \o t, x) = (s \o t) \o last
  BY <1>1, <1>2, AppendIsConcat
<1>5. s \o (t \o last) = (s \o t) \o last
  BY ConcatOptions
<1> QED
  BY <1>3, <1>4, <1>5, Zenon

\* The bytes of a list are those of its first option and of the others.
LEMMA FlatCons ==
  ASSUME NEW o \in Options, NEW opts \in Seq(Options)
  PROVE  /\ <<o>> \o opts \in Seq(Options)
         /\ Flat(<<o>> \o opts) = Encoded(o) \o Flat(opts)
<1>1. PICK n \in Nat : n = Len(opts)
  BY LenProperties
<1>2. PICK one \in Seq(Options) : one = <<o>>
  <2>1. <<o>> \in Seq(Options)
    OBVIOUS
  <2> QED
    BY <2>1
<1>3. PICK e \in Seq(Byte) : e = Encoded(o)
  BY EncodedFacts
<1> DEFINE T == {k \in 0 .. n : Flat(one \o SubSeq(opts, 1, k)) = e \o Flat(SubSeq(opts, 1, k))}
<1>4. 0 \in T
  <2>1. SubSeq(opts, 1, 0) = <<>>
    BY SubSeqEmpty
  <2>2. one \o <<>> = one /\ <<>> \o e = e /\ e \o <<>> = e
    BY ConcatEmptySeq
  <2>3. <<>> \in Seq(Options) /\ Append(<<>>, o) = one
    BY <1>2
  <2>4. Flat(Append(<<>>, o)) = Flat(<<>>) \o Encoded(o)
    BY <2>3, FlatAppend
  <2>5. Flat(one \o <<>>) = e \o Flat(<<>>)
    BY <1>3, <2>2, <2>3, <2>4, FlatEmpty
  <2>6. 0 \in 0 .. n
    OBVIOUS
  <2> QED
    BY <2>1, <2>5, <2>6
<1>5. ASSUME NEW k \in 0 .. n - 1, k \in T PROVE k + 1 \in T
  <2>1. PICK p : p = SubSeq(opts, 1, k)
    OBVIOUS
  <2>2. PICK x : x = opts[k + 1]
    OBVIOUS
  <2>3. /\ x \in Options /\ p \in Seq(Options)
        /\ SubSeq(opts, 1, k + 1) = Append(p, x)
        /\ Flat(Append(p, x)) = Flat(p) \o Encoded(x)
    BY <1>1, <2>1, <2>2, FlatNext
  <2>4. PICK f \in Seq(Byte) : f = Flat(p)
    BY <2>3, FlatType
  <2>5. PICK c \in Seq(Byte) : c = Encoded(x)
    BY <2>3, EncodedFacts
  <2>6. PICK q \in Seq(Options) : q = one \o p
    BY <2>3, ConcatProperties
  <2>7. one \o Append(p, x) = Append(q, x)
    <3>1. one \o Append(p, x) = Append(one \o p, x)
      BY <2>3, AppendBehind
    <3> QED
      BY <2>6, <3>1
  <2>8. Flat(q) = e \o f
    BY <1>5, <2>1, <2>4, <2>6
  <2>9. Flat(Append(q, x)) = (e \o f) \o c
    BY <2>3, <2>5, <2>8, FlatAppend
  <2>10. (e \o f) \o c = e \o (f \o c)
    BY ConcatBytes
  <2>11. Flat(Append(p, x)) = f \o c
    BY <2>3, <2>4, <2>5
  <2>12. Flat(one \o Append(p, x)) = e \o Flat(Append(p, x))
    BY <2>7, <2>9, <2>10, <2>11
  <2>13. k + 1 \in 0 .. n
    OBVIOUS
  <2> QED
    BY <2>3, <2>12, <2>13
<1> HIDE DEF T
<1>6. 0 .. n \subseteq T
  BY <1>4, <1>5, UpTo
<1>7. n \in T
  BY <1>6
<1>8. SubSeq(opts, 1, n) = opts
  BY <1>1, SubSeqFull
<1>9. one \o opts \in Seq(Options)
  BY ConcatProperties
<1> QED
  BY <1>2, <1>3, <1>7, <1>8, <1>9 DEF T

-----------------------------------------------------------------------------
(* The parser of the library *)

\* An option stands complete at place i, with a byte behind it: where it ends
\* and what it is.
Complete(bytes, i) ==
  i < Len(bytes) /\ bytes[i] # END /\ i + 2 + bytes[i + 1] <= Len(bytes)
Behind(bytes, i) == i + 2 + bytes[i + 1]
OptionAt(bytes, i) == Option(bytes[i], SubSeq(bytes, i + 2, Behind(bytes, i) - 1))

\* from is the function Parsed defines.
Parses(from, bytes) ==
  from = [i \in 1 .. Len(bytes) + 1 |->
            IF i > Len(bytes) THEN [ok |-> 0, opts |-> <<>>]
            ELSE IF bytes[i] = END THEN [ok |-> 1, opts |-> <<>>]
            ELSE IF i = Len(bytes) \/ i + 2 + bytes[i + 1] > Len(bytes)
              THEN [ok |-> 0, opts |-> <<>>]
            ELSE LET next == i + 2 + bytes[i + 1]
                     o == Option(bytes[i], SubSeq(bytes, i + 2, next - 1))
                 IN [ok |-> from[next].ok, opts |-> <<o>> \o from[next].opts]]

\* What it is at a place where no option stands.
Refusal(bytes, i) == [ok |-> IF i <= Len(bytes) /\ bytes[i] = END THEN 1 ELSE 0, opts |-> <<>>]

LEMMA CompleteFacts ==
  ASSUME NEW bytes \in Seq(Byte), NEW i \in 1 .. Len(bytes) + 1, Complete(bytes, i)
  PROVE  /\ i \in 1 .. Len(bytes) /\ bytes[i] \in Byte /\ bytes[i + 1] \in Byte
         /\ Behind(bytes, i) \in 1 .. Len(bytes) /\ Behind(bytes, i) > i
         /\ Behind(bytes, i) = i + 2 + bytes[i + 1]
         /\ OptionAt(bytes, i) \in Options
         /\ OptionAt(bytes, i).id = bytes[i]
         /\ Len(OptionAt(bytes, i).data) = bytes[i + 1]
         /\ \A j \in 1 .. bytes[i + 1] : OptionAt(bytes, i).data[j] = bytes[i + 1 + j]
<1>1. PICK n \in Nat : n = Len(bytes)
  BY LenProperties
<1>2. i \in 1 .. n /\ i + 1 \in 1 .. n
  BY <1>1 DEF Complete
<1>3. bytes[i] \in Byte /\ bytes[i + 1] \in Byte
  BY <1>1, <1>2, ElementOfSeq
<1>4. PICK b \in Byte : b = bytes[i + 1]
  BY <1>3
<1>5. b \in Nat /\ b <= Radix - 1 /\ i + 2 + b <= n /\ bytes[i] # END
  BY <1>1, <1>4, RadixFacts DEF Complete, Byte
<1>6. PICK first, last \in Int : first = i + 2 /\ last = i + 1 + b
  BY <1>2, <1>5
<1>7. PICK d : d = SubSeq(bytes, first, last)
  OBVIOUS
<1>8. /\ d \in Seq(Byte) /\ Len(d) = IF first <= last THEN last - first + 1 ELSE 0
      /\ \A j \in 1 .. last - first + 1 : d[j] = bytes[first + j - 1]
  <2>1. \A j \in first .. last : j \in 1 .. Len(bytes)
    BY <1>1, <1>2, <1>5, <1>6
  <2>2. \A j \in first .. last : bytes[j] \in Byte
    BY <2>1, ElementOfSeq
  <2> QED
    BY <1>7, <2>2, SubSeqProperties
<1>9. Len(d) = b
  BY <1>2, <1>5, <1>6, <1>8
<1>10. ASSUME NEW j \in 1 .. b PROVE d[j] = bytes[i + 1 + j]
  <2>1. j \in 1 .. last - first + 1 /\ first + j - 1 = i + 1 + j
    BY <1>2, <1>5, <1>6
  <2> QED
    BY <1>8, <2>1
<1>11. Behind(bytes, i) = i + 2 + b /\ Behind(bytes, i) - 1 = i + 1 + b
  BY <1>2, <1>4, <1>5 DEF Behind
<1>12. OptionAt(bytes, i) = Option(bytes[i], d)
  BY <1>6, <1>7, <1>11 DEF OptionAt
<1>13. Option(bytes[i], d) \in Options
  BY <1>3, <1>5, <1>8, <1>9, OptionIsOne
<1>14. Option(bytes[i], d).id = bytes[i] /\ Option(bytes[i], d).data = d
  BY DEF Option
<1>15. i + 2 + b \in 1 .. n /\ i + 2 + b > i
  BY <1>2, <1>5
<1> QED
  BY <1>1, <1>2, <1>3, <1>4, <1>9, <1>10, <1>11, <1>12, <1>13, <1>14, <1>15

\* The function at one place, in terms of the next.
LEMMA ParserSteps ==
  ASSUME NEW bytes \in Seq(Byte), NEW from, Parses(from, bytes),
         NEW i \in 1 .. Len(bytes) + 1
  PROVE  IF Complete(bytes, i)
           THEN from[i] = [ok |-> from[Behind(bytes, i)].ok,
                           opts |-> <<OptionAt(bytes, i)>> \o from[Behind(bytes, i)].opts]
           ELSE from[i] = Refusal(bytes, i)
<1>1. PICK n \in Nat : n = Len(bytes)
  BY LenProperties
<1>2. from[i] = IF i > n THEN [ok |-> 0, opts |-> <<>>]
                ELSE IF bytes[i] = END THEN [ok |-> 1, opts |-> <<>>]
                ELSE IF i = n \/ i + 2 + bytes[i + 1] > n
                  THEN [ok |-> 0, opts |-> <<>>]
                ELSE [ok |-> from[Behind(bytes, i)].ok,
                      opts |-> <<OptionAt(bytes, i)>> \o from[Behind(bytes, i)].opts]
  BY <1>1 DEF Parses, Behind, OptionAt
<1>3. i < n => i + 1 \in 1 .. n /\ bytes[i + 1] \in Nat
  <2>1. i < n => i + 1 \in 1 .. n
    OBVIOUS
  <2> QED
    BY <1>1, <2>1, ElementOfSeq, RadixFacts
<1>4. CASE Complete(bytes, i)
  BY <1>1, <1>2, <1>3, <1>4 DEF Complete
<1>5. CASE ~ Complete(bytes, i)
  BY <1>1, <1>2, <1>3, <1>5 DEF Complete, Refusal
<1> QED
  BY <1>4, <1>5

LEMMA ParserExists ==
  ASSUME NEW bytes \in Seq(Byte)
  PROVE  \E from : Parses(from, bytes)
<1>1. PICK n \in Nat : n = Len(bytes)
  BY LenProperties
<1>2. PICK N \in Nat : N = n + 1
  OBVIOUS
<1> DEFINE V == [ok : {0, 1}, opts : Seq(Options)]
           stop == {i \in 1 .. N : ~ Complete(bytes, i)}
           base == [i \in 1 .. N |-> Refusal(bytes, i)]
           next == [i \in 1 .. N |-> IF i \in stop THEN i ELSE Behind(bytes, i)]
           step == [iv \in (1 .. N) \X V |->
                      IF iv[1] \in stop THEN iv[2]
                      ELSE [ok |-> iv[2].ok, opts |-> <<OptionAt(bytes, iv[1])>> \o iv[2].opts]]
<1>3. base \in [1 .. N -> V]
  BY EmptySeq DEF Refusal
<1>4. \A i \in 1 .. N : i \notin stop => /\ Behind(bytes, i) \in 1 .. N /\ Behind(bytes, i) > i
                                         /\ OptionAt(bytes, i) \in Options
  <2> SUFFICES ASSUME NEW i \in 1 .. N, Complete(bytes, i)
               PROVE  /\ Behind(bytes, i) \in 1 .. N /\ Behind(bytes, i) > i
                      /\ OptionAt(bytes, i) \in Options
    OBVIOUS
  <2>1. i \in 1 .. Len(bytes) + 1
    BY <1>1, <1>2
  <2>2. /\ Behind(bytes, i) \in 1 .. Len(bytes) /\ Behind(bytes, i) > i
        /\ OptionAt(bytes, i) \in Options
    BY <2>1, CompleteFacts
  <2> QED
    BY <1>1, <1>2, <2>2
<1>5. next \in [1 .. N -> 1 .. N] /\ Later(N, stop, next)
  BY <1>4 DEF Later
<1>6. step \in [(1 .. N) \X V -> V]
  <2>1. ASSUME NEW iv \in (1 .. N) \X V
        PROVE  (IF iv[1] \in stop THEN iv[2]
                ELSE [ok |-> iv[2].ok,
                      opts |-> <<OptionAt(bytes, iv[1])>> \o iv[2].opts]) \in V
    <3>1. PICK i \in 1 .. N : i = iv[1]
      OBVIOUS
    <3>2. PICK v \in V : v = iv[2]
      OBVIOUS
    <3>3. i \notin stop => <<OptionAt(bytes, i)>> \o v.opts \in Seq(Options)
      BY <1>4, FlatCons
    <3>4. i \notin stop => [ok |-> v.ok, opts |-> <<OptionAt(bytes, i)>> \o v.opts] \in V
      BY <3>3
    <3> QED
      BY <3>1, <3>2, <3>4
  <2> QED
    BY <2>1
<1> HIDE DEF V, stop, base, next, step
<1>7. PICK f \in [1 .. N -> V] : Recurs(f, N, stop, base, next, step)
  BY <1>3, <1>5, <1>6, BackwardRecursion
<1>8. ASSUME NEW i \in 1 .. N
      PROVE  f[i] = IF i > n THEN [ok |-> 0, opts |-> <<>>]
                    ELSE IF bytes[i] = END THEN [ok |-> 1, opts |-> <<>>]
                    ELSE IF i = n \/ i + 2 + bytes[i + 1] > n
                      THEN [ok |-> 0, opts |-> <<>>]
                    ELSE [ok |-> f[Behind(bytes, i)].ok,
                          opts |-> <<OptionAt(bytes, i)>> \o f[Behind(bytes, i)].opts]
  <2>1. CASE i \in stop
    <3>1. f[i] = Refusal(bytes, i) /\ ~ Complete(bytes, i)
      BY <1>7, <2>1 DEF base, stop, Recurs
    <3>2. i < n => i + 1 \in 1 .. n /\ bytes[i + 1] \in Nat
      <4>1. i < n => i + 1 \in 1 .. n
        OBVIOUS
      <4> QED
        BY <1>1, <4>1, ElementOfSeq, RadixFacts
    <3> QED
      BY <1>1, <1>2, <3>1, <3>2 DEF Complete, Refusal
  <2>2. CASE i \notin stop
    <3>1. Complete(bytes, i)
      BY <2>2 DEF stop
    <3>2. next[i] = Behind(bytes, i) /\ next[i] \in 1 .. N
      BY <1>5, <2>2 DEF next
    <3>3. f[next[i]] \in V
      BY <3>2
    <3>4. f[i] = [ok |-> f[next[i]].ok, opts |-> <<OptionAt(bytes, i)>> \o f[next[i]].opts]
      BY <1>7, <2>2, <3>3 DEF step, Recurs
    <3>5. bytes[i + 1] \in Nat
      BY <1>1, <1>2, <3>1, CompleteFacts, RadixFacts
    <3> QED
      BY <1>1, <1>2, <3>1, <3>2, <3>4, <3>5 DEF Complete
  <2> QED
    BY <2>1, <2>2
<1>9. f = [i \in 1 .. N |-> f[i]]
  OBVIOUS
<1>10. Parses(f, bytes)
  BY <1>1, <1>2, <1>8, <1>9 DEF Parses, Behind, OptionAt
<1> QED
  BY <1>10

LEMMA ParsedIs ==
  ASSUME NEW bytes \in Seq(Byte)
  PROVE  \E from : Parses(from, bytes) /\ Parsed(bytes) = from[1]
<1>1. PICK h : h = CHOOSE f : Parses(f, bytes)
  OBVIOUS
<1>2. Parses(h, bytes)
  BY <1>1, ParserExists
<1>3. Parsed(bytes) = h[1]
  BY <1>1 DEF Parsed, Parses
<1> QED
  BY <1>2, <1>3

\* What the parser finds from place i on: options that stand there one behind
\* the other, and END behind them if and only if it accepts.
FoundFrom(p, bytes, i) ==
  LET size == Len(Flat(p.opts)) IN
  /\ i + size <= Len(bytes)
  /\ \A j \in 1 .. size : Flat(p.opts)[j] = bytes[i + j - 1]
  /\ p.ok = 1 <=> bytes[i + size] = END

ParsesFrom(p, bytes, i) ==
  /\ p.ok \in {0, 1} /\ p.opts \in Seq(Options)
  /\ i <= Len(bytes) => FoundFrom(p, bytes, i)
  /\ i > Len(bytes) => p.opts = <<>> /\ p.ok = 0

\* One more option in front.
LEMMA FoundOneMore ==
  ASSUME NEW bytes \in Seq(Byte), NEW i \in 1 .. Len(bytes) + 1, Complete(bytes, i),
         NEW p, NEW q, p.opts \in Seq(Options), FoundFrom(p, bytes, Behind(bytes, i)),
         q.ok = p.ok, q.opts = <<OptionAt(bytes, i)>> \o p.opts
  PROVE  FoundFrom(q, bytes, i)
<1>1. PICK o \in Options : o = OptionAt(bytes, i)
  BY CompleteFacts
<1>2. PICK b \in Nat : b = bytes[i + 1]
  BY CompleteFacts, RadixFacts
<1>3. /\ Behind(bytes, i) = i + 2 + b /\ i + 2 + b <= Len(bytes) /\ bytes[i] = o.id
      /\ Len(o.data) = b /\ \A j \in 1 .. b : o.data[j] = bytes[i + 1 + j]
      /\ Len(bytes) \in Nat
  <2>1. /\ Behind(bytes, i) \in 1 .. Len(bytes)
        /\ Behind(bytes, i) = i + 2 + bytes[i + 1]
        /\ OptionAt(bytes, i).id = bytes[i]
        /\ Len(OptionAt(bytes, i).data) = bytes[i + 1]
        /\ \A j \in 1 .. bytes[i + 1] : OptionAt(bytes, i).data[j] = bytes[i + 1 + j]
    BY CompleteFacts
  <2>2. Len(bytes) \in Nat
    BY LenProperties
  <2>3. Behind(bytes, i) = i + 2 + b /\ i + 2 + b <= Len(bytes)
    BY <1>2, <2>1, <2>2
  <2>4. /\ bytes[i] = o.id /\ Len(o.data) = b
        /\ \A j \in 1 .. b : o.data[j] = bytes[i + 1 + j]
    BY <1>1, <1>2, <2>1
  <2> QED
    BY <2>2, <2>3, <2>4
<1>4. PICK e \in Seq(Byte) : e = Encoded(o)
  BY EncodedFacts
<1>5. PICK f \in Seq(Byte) : f = Flat(p.opts)
  BY FlatType
<1>6. PICK g \in Seq(Byte) : g = Flat(q.opts)
  BY <1>1, FlatCons, FlatType
<1>7. g = e \o f
  BY <1>1, <1>4, <1>5, <1>6, FlatCons
<1>8. Len(e) = 2 + b /\ Len(f) \in Nat
  BY <1>3, <1>4, EncodedFacts, LenProperties
<1>9. /\ Len(g) = 2 + b + Len(f)
      /\ \A j \in 1 .. Len(g) : g[j] = IF j <= 2 + b THEN e[j] ELSE f[j - (2 + b)]
  <2>1. /\ Len(e \o f) = Len(e) + Len(f)
        /\ \A j \in 1 .. Len(e) + Len(f) : (e \o f)[j] =
                   IF j <= Len(e) THEN e[j] ELSE f[j - Len(e)]
    BY ConcatProperties
  <2> QED
    BY <1>7, <1>8, <2>1
<1>10. ASSUME NEW j \in 1 .. 2 + b PROVE e[j] = bytes[i + j - 1]
  <2>0. e[1] = bytes[i] /\ e[2] = bytes[i + 1]
    BY <1>2, <1>3, <1>4, EncodedFacts
  <2>1. CASE j = 1
    <3>1. i + j - 1 = i
      BY <2>1
    <3> QED
      BY <2>0, <2>1, <3>1
  <2>2. CASE j = 2
    <3>1. i + j - 1 = i + 1
      BY <2>2
    <3> QED
      BY <2>0, <2>2, <3>1
  <2>3. CASE j > 2
    <3>1. PICK k \in 1 .. b : k = j - 2
      BY <2>3
    <3>2. 2 + k = j /\ i + 1 + k = i + j - 1
      BY <3>1
    <3>3. e[2 + k] = o.data[k]
      BY <1>3, <1>4, EncodedFacts
    <3> QED
      BY <1>3, <3>2, <3>3
  <2> QED
    BY <2>1, <2>2, <2>3
<1>11. /\ i + 2 + b + Len(f) <= Len(bytes)
       /\ \A j \in 1 .. Len(f) : f[j] = bytes[i + 2 + b + j - 1]
       /\ p.ok = 1 <=> bytes[i + 2 + b + Len(f)] = END
  BY <1>3, <1>5 DEF FoundFrom
<1>12. ASSUME NEW j \in 1 .. Len(g) PROVE g[j] = bytes[i + j - 1]
  <2>1. CASE j <= 2 + b
    <3>1. j \in 1 .. 2 + b
      BY <2>1
    <3> QED
      BY <1>9, <1>10, <2>1, <3>1
  <2>2. CASE ~ (j <= 2 + b)
    <3>1. PICK k \in 1 .. Len(f) : k = j - (2 + b)
      BY <1>8, <1>9, <2>2
    <3>2. i + 2 + b + k - 1 = i + j - 1
      BY <3>1
    <3> QED
      BY <1>9, <1>11, <2>2, <3>1, <3>2
  <2> QED
    BY <2>1, <2>2
<1>13. i + Len(g) = i + 2 + b + Len(f)
  BY <1>8, <1>9
<1> QED
  BY <1>6, <1>11, <1>12, <1>13 DEF FoundFrom

LEMMA ParserFinds ==
  ASSUME NEW bytes \in Seq(Byte), NEW from, Parses(from, bytes)
  PROVE  \A i \in 1 .. Len(bytes) + 1 : ParsesFrom(from[i], bytes, i)
<1>1. PICK n \in Nat : n = Len(bytes)
  BY LenProperties
<1>2. PICK N \in Nat : N = n + 1
  OBVIOUS
<1> DEFINE T == {i \in 1 .. N : ParsesFrom(from[i], bytes, i)}
<1>3. ASSUME NEW i \in 1 .. N, \A j \in 1 .. N : j > i => j \in T
      PROVE  i \in T
  <2>1. i \in 1 .. Len(bytes) + 1
    BY <1>1, <1>2
  <2>2. CASE Complete(bytes, i)
    <3>1. PICK next : next = Behind(bytes, i)
      OBVIOUS
    <3>2. next \in 1 .. n /\ next > i /\ OptionAt(bytes, i) \in Options /\ i \in 1 .. n
      BY <1>1, <2>1, <2>2, <3>1, CompleteFacts
    <3>3. PICK p : p = from[next]
      OBVIOUS
    <3>4. PICK q : q = from[i]
      OBVIOUS
    <3>5. ParsesFrom(p, bytes, next)
      BY <1>2, <1>3, <3>2, <3>3
    <3>6. q = [ok |-> p.ok, opts |-> <<OptionAt(bytes, i)>> \o p.opts]
      BY <2>1, <2>2, <3>1, <3>3, <3>4, ParserSteps
    <3>7. q.ok = p.ok /\ q.opts = <<OptionAt(bytes, i)>> \o p.opts
      BY <3>6
    <3>8. p.ok \in {0, 1} /\ p.opts \in Seq(Options) /\ FoundFrom(p, bytes, next)
      BY <1>1, <3>2, <3>5 DEF ParsesFrom
    <3>9. q.opts \in Seq(Options)
      BY <3>2, <3>7, <3>8, FlatCons
    <3>10. FoundFrom(q, bytes, i)
      BY <2>1, <2>2, <3>1, <3>7, <3>8, FoundOneMore
    <3>11. ParsesFrom(q, bytes, i)
      BY <1>1, <3>2, <3>7, <3>8, <3>9, <3>10 DEF ParsesFrom
    <3> QED
      BY <3>4, <3>11
  <2>3. CASE ~ Complete(bytes, i)
    <3>1. PICK q : q = from[i]
      OBVIOUS
    <3>2. q = Refusal(bytes, i)
      BY <2>1, <2>3, <3>1, ParserSteps
    <3>3. /\ q.opts = <<>> /\ q.ok \in {0, 1}
          /\ q.ok = 1 <=> i <= n /\ bytes[i] = END
      BY <1>1, <3>2 DEF Refusal
    <3>4. /\ q.opts \in Seq(Options) /\ Len(Flat(q.opts)) = 0
      BY <3>3, FlatEmpty, EmptySeq
    <3>5. i <= n => FoundFrom(q, bytes, i)
      BY <1>1, <3>3, <3>4 DEF FoundFrom
    <3>6. ParsesFrom(q, bytes, i)
      BY <1>1, <3>3, <3>4, <3>5 DEF ParsesFrom
    <3> QED
      BY <3>1, <3>6
  <2> QED
    BY <2>2, <2>3
<1> HIDE DEF T
<1>4. 1 .. N \subseteq T
  BY <1>3, Downwards
<1> QED
  BY <1>1, <1>2, <1>4 DEF T

\* What parse_options_to_list makes of any bytes.
LEMMA ParsedFacts ==
  ASSUME NEW bytes \in Seq(Byte)
  PROVE  ParsesFrom(Parsed(bytes), bytes, 1)
<1>1. PICK from : Parses(from, bytes) /\ Parsed(bytes) = from[1]
  BY ParsedIs
<1>2. 1 \in 1 .. Len(bytes) + 1
  BY LenProperties
<1> QED
  BY <1>1, <1>2, ParserFinds

-----------------------------------------------------------------------------
(* What is written is read *)

\* Where the bytes of the options behind the first k begin.
Place(opts, k) == Len(Flat(SubSeq(opts, 1, k))) + 1

\* What serialize_option_list writes.
Serialized(opts) == Append(Flat(opts), END)

LEMMA SerializedFacts ==
  ASSUME NEW opts \in Seq(Options)
  PROVE  /\ Serialized(opts) \in Seq(Byte)
         /\ Len(Serialized(opts)) = Len(Flat(opts)) + 1
         /\ Serialized(opts)[Len(Flat(opts)) + 1] = END
         /\ \A i \in 1 .. Len(Flat(opts)) : Serialized(opts)[i] = Flat(opts)[i]
<1>1. PICK f \in Seq(Byte) : f = Flat(opts)
  BY FlatType
<1>2. PICK e \in Byte : e = END
  BY RadixFacts
<1>3. /\ Append(f, e) \in Seq(Byte) /\ Len(Append(f, e)) = Len(f) + 1
      /\ Append(f, e)[Len(f) + 1] = e
      /\ \A i \in 1 .. Len(f) : Append(f, e)[i] = f[i]
  BY AppendProperties
<1> QED
  BY <1>1, <1>2, <1>3 DEF Serialized

\* Behind the first m options stands the next one.
LEMMA NextStands ==
  ASSUME NEW opts \in Seq(Options), NEW m \in 0 .. Len(opts) - 1,
         NEW bytes, bytes = Serialized(opts)
  PROVE  /\ Place(opts, m) \in 1 .. Len(bytes)
         /\ Complete(bytes, Place(opts, m))
         /\ Behind(bytes, Place(opts, m)) = Place(opts, m + 1)
         /\ OptionAt(bytes, Place(opts, m)) = opts[m + 1]
<1>1. PICK x \in Options : x = opts[m + 1]
  BY FlatNext
<1>2. PICK a \in Seq(Byte) : a = Flat(SubSeq(opts, 1, m))
  BY FlatNext, FlatType
<1>3. PICK e \in Seq(Byte) : e = Encoded(x)
  BY EncodedFacts
<1>4. PICK f \in Seq(Byte) : f = Flat(opts)
  BY FlatType
<1>4a. PICK l \in Nat : l = Len(f)
  BY LenProperties
<1>5. PICK b \in Nat : b = Len(x.data)
  BY EncodedFacts
<1>6. /\ Len(e) = 2 + b /\ e[1] = x.id /\ e[2] = b
      /\ \A j \in 1 .. b : e[2 + j] = x.data[j]
  BY <1>3, <1>5, EncodedFacts
<1>7. PICK i \in Nat : i = Len(a) + 1
  BY LenProperties
<1>8. i >= 1 /\ i = Place(opts, m) /\ Len(a) = i - 1
  BY <1>2, <1>7, LenProperties DEF Place
<1>9. Flat(SubSeq(opts, 1, m + 1)) = a \o e
  BY <1>1, <1>2, <1>3, FlatNext
<1>10. /\ Len(a \o e) = i + 1 + b
       /\ \A j \in 1 .. i + 1 + b : (a \o e)[j] = IF j <= i - 1 THEN a[j] ELSE e[j - (i - 1)]
  <2>1. /\ Len(a \o e) = Len(a) + Len(e)
        /\ \A j \in 1 .. Len(a) + Len(e) : (a \o e)[j] =
                   IF j <= Len(a) THEN a[j] ELSE e[j - Len(a)]
    BY ConcatProperties
  <2>2. Len(a) + Len(e) = i + 1 + b
    BY <1>6, <1>8
  <2> QED
    BY <1>8, <2>1, <2>2
<1>11. i + 1 + b <= l /\ \A j \in 1 .. i + 1 + b : f[j] = (a \o e)[j]
  <2>1. m + 1 \in 0 .. Len(opts)
    BY LenProperties
  <2>2. Begins(f, a \o e)
    BY <1>4, <1>9, <2>1, FlatBegins
  <2> QED
    BY <1>4a, <1>10, <2>2 DEF Begins
<1>12. /\ bytes \in Seq(Byte) /\ Len(bytes) = l + 1
       /\ \A j \in 1 .. l : bytes[j] = f[j]
  BY <1>4, <1>4a, SerializedFacts
<1>13. ASSUME NEW j \in 1 .. 2 + b PROVE bytes[i + j - 1] = e[j]
  <2>1. PICK k \in 1 .. i + 1 + b : k = i + j - 1
    BY <1>8
  <2>2. ~ (k <= i - 1) /\ k - (i - 1) = j
    BY <2>1
  <2>3. k \in 1 .. l
    <3>1. i + 1 + b <= l
      BY <1>11
    <3> QED
      BY <3>1
  <2>4. (a \o e)[k] = e[j]
    BY <1>10, <2>2
  <2> QED
    BY <1>11, <1>12, <2>1, <2>3, <2>4
<1>14. bytes[i] = x.id /\ bytes[i + 1] = b
  <2>1. 1 \in 1 .. 2 + b /\ 2 \in 1 .. 2 + b /\ i + 1 - 1 = i /\ i + 2 - 1 = i + 1
    BY <1>8
  <2>2. bytes[i + 1 - 1] = e[1] /\ bytes[i + 2 - 1] = e[2]
    BY <1>13, <2>1
  <2> QED
    BY <1>6, <2>1, <2>2
<1>15. i \in 1 .. Len(bytes) /\ Complete(bytes, i)
  <2>1. i < Len(bytes) /\ i + 2 + b <= Len(bytes)
    <3>1. i + 1 + b <= l /\ Len(bytes) = l + 1
      BY <1>11, <1>12
    <3> QED
      BY <3>1
  <2>2. bytes[i] # END
    BY <1>14, OptionFacts
  <2> QED
    BY <1>8, <1>12, <1>14, <2>1, <2>2 DEF Complete
<1>16. Behind(bytes, i) = Place(opts, m + 1)
  <2>1. Place(opts, m + 1) = i + 1 + b + 1
    BY <1>9, <1>10 DEF Place
  <2>2. Behind(bytes, i) = i + 2 + b
    BY <1>14 DEF Behind
  <2> QED
    BY <2>1, <2>2
<1>17. PICK y \in Options : y = OptionAt(bytes, i)
  BY <1>12, <1>15, CompleteFacts
<1>18. y.id = x.id /\ Len(y.data) = b /\ \A j \in 1 .. b : y.data[j] = bytes[i + 1 + j]
  <2>1. i \in 1 .. Len(bytes) + 1
    BY <1>12, <1>15
  <2>2. /\ OptionAt(bytes, i).id = bytes[i]
        /\ Len(OptionAt(bytes, i).data) = bytes[i + 1]
        /\ \A j \in 1 .. bytes[i + 1] : OptionAt(bytes, i).data[j] = bytes[i + 1 + j]
    BY <1>12, <1>15, <2>1, CompleteFacts
  <2> QED
    BY <1>14, <1>17, <2>2
<1>19. y.data = x.data
  <2>1. PICK c \in Seq(Byte) : c = y.data
    BY OptionFacts
  <2>2. PICK d \in Seq(Byte) : d = x.data
    BY OptionFacts
  <2>3. ASSUME NEW j \in 1 .. Len(c) PROVE c[j] = d[j]
    <3>0. j \in 1 .. b
      BY <1>18, <2>1
    <3>1. 2 + j \in 1 .. 2 + b /\ i + (2 + j) - 1 = i + 1 + j
      BY <3>0
    <3>2. bytes[i + (2 + j) - 1] = e[2 + j]
      BY <1>13, <3>1
    <3> QED
      BY <1>6, <1>18, <2>1, <2>2, <3>0, <3>1, <3>2
  <2>4. Len(c) = Len(d)
    BY <1>5, <1>18, <2>1, <2>2
  <2>5. c = d
    BY <2>3, <2>4, SeqEqual
  <2> QED
    BY <2>1, <2>2, <2>5
<1>20. y = x
  BY <1>18, <1>19 DEF Options
<1> QED
  BY <1>1, <1>8, <1>15, <1>16, <1>17, <1>20

LEMMA WrittenIsParsed ==
  ASSUME NEW opts \in Seq(Options)
  PROVE  Parsed(Serialized(opts)) = [ok |-> 1, opts |-> opts]
<1>1. PICK n \in Nat : n = Len(opts)
  BY LenProperties
<1>2. PICK bytes \in Seq(Byte) : bytes = Serialized(opts)
  BY SerializedFacts
<1>3. PICK from : Parses(from, bytes) /\ Parsed(bytes) = from[1]
  BY ParsedIs
<1>4. Len(bytes) \in Nat
  BY LenProperties
<1> DEFINE T == {d \in 0 .. n : from[Place(opts, n - d)] =
                                 [ok |-> 1, opts |-> SubSeq(opts, n - d + 1, n)]}
<1>5. 0 \in T
  <2>1. SubSeq(opts, 1, n) = opts /\ SubSeq(opts, n + 1, n) = <<>>
    BY <1>1, SubSeqFull, SubSeqEmpty
  <2>2. PICK i : i = Len(Flat(opts)) + 1
    OBVIOUS
  <2>3. Place(opts, n) = i
    BY <2>1, <2>2 DEF Place
  <2>4. i = Len(bytes) /\ bytes[i] = END /\ i \in 1 .. Len(bytes) + 1
    BY <1>2, <1>4, <2>2, SerializedFacts, FlatType
  <2>5. ~ Complete(bytes, i)
    BY <2>4 DEF Complete
  <2>6. from[i] = Refusal(bytes, i)
    BY <1>3, <2>4, <2>5, ParserSteps
  <2>7. from[i] = [ok |-> 1, opts |-> <<>>]
    BY <1>4, <2>4, <2>6 DEF Refusal
  <2>8. n - 0 = n /\ n - 0 + 1 = n + 1 /\ 0 \in 0 .. n
    OBVIOUS
  <2> QED
    BY <2>1, <2>3, <2>7, <2>8
<1>6. ASSUME NEW d \in 0 .. n - 1, d \in T PROVE d + 1 \in T
  <2>1. PICK m \in 0 .. Len(opts) - 1 : m + 1 = n - d /\ m = n - (d + 1)
    <3>1. n - (d + 1) \in 0 .. Len(opts) - 1 /\ n - (d + 1) + 1 = n - d
      BY <1>1
    <3> QED
      BY <3>1
  <2>2. PICK i : i = Place(opts, m)
    OBVIOUS
  <2>3. PICK j : j = Place(opts, m + 1)
    OBVIOUS
  <2>4. /\ i \in 1 .. Len(bytes) /\ Complete(bytes, i)
        /\ Behind(bytes, i) = j /\ OptionAt(bytes, i) = opts[m + 1]
    BY <1>2, <2>2, <2>3, NextStands
  <2>5. i \in 1 .. Len(bytes) + 1
    BY <1>4, <2>4
  <2>6. from[i] = [ok |-> from[j].ok, opts |-> <<opts[m + 1]>> \o from[j].opts]
    BY <1>3, <2>4, <2>5, ParserSteps
  <2>7. from[j] = [ok |-> 1, opts |-> SubSeq(opts, m + 1 + 1, n)]
    BY <1>6, <2>1, <2>3
  <2>8. SubSeq(opts, m + 1, n) = <<opts[m + 1]>> \o SubSeq(opts, m + 1 + 1, n)
    <3>1. m + 1 \in 1 .. Len(opts) /\ n \in m + 1 .. Len(opts)
      BY <1>1
    <3> QED
      BY <3>1, SubSeqRecursiveFirst
  <2>9. from[i] = [ok |-> 1, opts |-> SubSeq(opts, m + 1, n)]
    <3>1. from[j].ok = 1 /\ from[j].opts = SubSeq(opts, m + 1 + 1, n)
      BY <2>7
    <3> QED
      BY <2>6, <2>8, <3>1, Zenon
  <2>10. d + 1 \in 0 .. n
    OBVIOUS
  <2> QED
    BY <2>1, <2>2, <2>9, <2>10
<1> HIDE DEF T
<1>7. 0 .. n \subseteq T
  BY <1>5, <1>6, UpTo
<1>8. n \in T
  BY <1>7
<1>9. from[Place(opts, n - n)] = [ok |-> 1, opts |-> SubSeq(opts, n - n + 1, n)]
  BY <1>8 DEF T
<1>10. n - n = 0 /\ n - n + 1 = 1 /\ SubSeq(opts, 1, n) = opts
  BY <1>1, SubSeqFull
<1>11. Place(opts, 0) = 1
  <2>1. SubSeq(opts, 1, 0) = <<>>
    BY SubSeqEmpty
  <2>2. Len(Flat(SubSeq(opts, 1, 0))) = 0
    BY <2>1, FlatEmpty, EmptySeq
  <2> QED
    BY <2>2 DEF Place
<1> QED
  BY <1>2, <1>3, <1>9, <1>10, <1>11

\* The tests of serialize_option_list say that the options and END fit.
LEMMA FitsWhenRoom ==
  ASSUME NEW opts \in Seq(Options), NEW n \in Nat
  PROVE  (n >= COOKIE_LEN /\ OptionsFit(n, opts) /\ EndFits(n, opts))
           <=> COOKIE_LEN + Len(Flat(opts)) + 1 <= n
<1>1. PICK l \in Nat : l = Len(Flat(opts))
  BY FlatType
<1>2. ASSUME NEW k \in 1 .. Len(opts)
      PROVE  /\ Len(Flat(SubSeq(opts, 1, k))) \in Nat
             /\ Len(Flat(SubSeq(opts, 1, k))) <= l
  <2>1. k \in 0 .. Len(opts)
    BY LenProperties
  <2>2. Begins(Flat(opts), Flat(SubSeq(opts, 1, k)))
    BY <2>1, FlatBegins
  <2>3. \A i \in 1 .. k : opts[i] \in Options
    BY LenProperties
  <2>4. SubSeq(opts, 1, k) \in Seq(Options)
    BY <2>3, SubSeqProperties
  <2> QED
    BY <1>1, <2>2, <2>4, FlatType DEF Begins
<1> QED
  BY <1>1, <1>2 DEF OptionsFit, EndFits, COOKIE_LEN

-----------------------------------------------------------------------------
(* The scan of the server *)

\* The places of the scan, up to one that only the last step can reach.
ScanPlaces == 1 .. ScanLimit + Radix + 2
Memories == [1 .. ScanLimit + 2 -> Byte]

\* The scan ends at place i, or finds the type there.
Ends(m, i) == i > ScanLimit \/ m[i] = END
Answers(m, i) == m[i] = MessageType /\ m[i + 1] >= 1

\* from is the function TypeFrom defines.
Scans(from, m) ==
  from = [i \in 1 .. ScanLimit + Radix + 2 |->
            IF i > ScanLimit \/ m[i] = END THEN 0
            ELSE IF m[i] = MessageType /\ m[i + 1] >= 1 THEN m[i + 2]
            ELSE from[i + 2 + m[i + 1]]]

LEMMA ScanGoesOn ==
  ASSUME NEW m \in Memories, NEW i \in ScanPlaces, ~ Ends(m, i)
  PROVE  /\ m[i] \in Byte /\ m[i + 1] \in Byte /\ m[i + 2] \in Byte
         /\ Behind(m, i) \in ScanPlaces /\ Behind(m, i) > i
<1>1. ScanLimit \in Nat /\ Radix \in Nat
  BY ScanAssumption, RadixFacts
<1>2. i \in 1 .. ScanLimit
  BY <1>1 DEF Ends, ScanPlaces
<1>3. i \in 1 .. ScanLimit + 2 /\ i + 1 \in 1 .. ScanLimit + 2 /\ i + 2 \in 1 .. ScanLimit + 2
  BY <1>1, <1>2
<1>4. PICK b \in Byte : b = m[i + 1]
  BY <1>3 DEF Memories
<1>5. b \in Nat /\ b <= Radix - 1
  BY <1>1 DEF Byte
<1>6. i + 2 + b \in 1 .. ScanLimit + Radix + 2 /\ i + 2 + b > i
  BY <1>1, <1>2, <1>5
<1> QED
  BY <1>3, <1>4, <1>6 DEF Behind, ScanPlaces, Memories

LEMMA ScanExists ==
  ASSUME NEW m \in Memories
  PROVE  \E from : Scans(from, m)
<1>1. PICK N \in Nat : N = ScanLimit + Radix + 2
  BY ScanAssumption, RadixFacts
<1>2. ScanPlaces = 1 .. N
  BY <1>1 DEF ScanPlaces
<1> DEFINE stop == {i \in 1 .. N : Ends(m, i) \/ Answers(m, i)}
           base == [i \in 1 .. N |-> IF ~ Ends(m, i) THEN m[i + 2] ELSE 0]
           next == [i \in 1 .. N |-> IF i \in stop THEN i ELSE Behind(m, i)]
           step == [iv \in (1 .. N) \X Byte |-> iv[2]]
<1>3. base \in [1 .. N -> Byte]
  BY <1>2, ScanGoesOn, RadixFacts DEF PAD
<1>4. next \in [1 .. N -> 1 .. N] /\ Later(N, stop, next)
  BY <1>2, ScanGoesOn DEF Later
<1>5. step \in [(1 .. N) \X Byte -> Byte]
  OBVIOUS
<1> HIDE DEF stop, base, next, step
<1>6. PICK f \in [1 .. N -> Byte] : Recurs(f, N, stop, base, next, step)
  BY <1>3, <1>4, <1>5, BackwardRecursion
<1>7. ASSUME NEW i \in 1 .. N
      PROVE  f[i] = IF Ends(m, i) THEN 0 ELSE IF Answers(m, i) THEN m[i + 2]
                    ELSE f[Behind(m, i)]
  <2>1. CASE i \in stop
    <3>1. f[i] = base[i]
      BY <1>6, <2>1 DEF Recurs
    <3> QED
      BY <2>1, <3>1 DEF base, stop
  <2>2. CASE i \notin stop
    <3>1. f[i] = step[<<i, f[next[i]]>>] /\ f[next[i]] \in Byte
      BY <1>4, <1>6, <2>2 DEF Recurs
    <3>2. f[i] = f[next[i]]
      BY <3>1 DEF step
    <3> QED
      BY <2>2, <3>2 DEF next, stop
  <2> QED
    BY <2>1, <2>2
<1>8. f = [i \in 1 .. N |-> f[i]]
  OBVIOUS
<1>9. Scans(f, m)
  BY <1>1, <1>7, <1>8 DEF Scans, Ends, Answers, Behind
<1> QED
  BY <1>9

LEMMA ScanSteps ==
  ASSUME NEW m \in Memories, NEW from, Scans(from, m), NEW i \in ScanPlaces
  PROVE  from[i] = IF Ends(m, i) THEN 0 ELSE IF Answers(m, i) THEN m[i + 2]
                   ELSE from[Behind(m, i)]
  BY DEF Scans, ScanPlaces, Ends, Answers, Behind

LEMMA TypeFromIs ==
  ASSUME NEW m \in Memories
  PROVE  \E from : Scans(from, m) /\ TypeFrom(m) = from[1]
<1>1. PICK h : h = CHOOSE f : Scans(f, m)
  OBVIOUS
<1>2. Scans(h, m)
  BY <1>1, ScanExists
<1>3. TypeFrom(m) = h[1]
  BY <1>1 DEF TypeFrom, Scans
<1> QED
  BY <1>2, <1>3

LEMMA TypeIsByte ==
  ASSUME NEW m \in Memories
  PROVE  TypeFrom(m) \in Byte
<1>1. PICK from : Scans(from, m) /\ TypeFrom(m) = from[1]
  BY TypeFromIs
<1>2. PICK N \in Nat : N = ScanLimit + Radix + 2 /\ N >= 1
  BY ScanAssumption, RadixFacts
<1>3. ScanPlaces = 1 .. N
  BY <1>2 DEF ScanPlaces
<1> DEFINE T == {i \in 1 .. N : from[i] \in Byte}
<1>4. ASSUME NEW i \in 1 .. N, \A j \in 1 .. N : j > i => j \in T
      PROVE  i \in T
  <2>1. from[i] = IF Ends(m, i) THEN 0 ELSE IF Answers(m, i) THEN m[i + 2]
                  ELSE from[Behind(m, i)]
    BY <1>1, <1>3, ScanSteps
  <2>2. ~ Ends(m, i) => /\ m[i + 2] \in Byte
                        /\ Behind(m, i) \in 1 .. N /\ Behind(m, i) > i
    BY <1>3, ScanGoesOn
  <2>3. ~ Ends(m, i) => from[Behind(m, i)] \in Byte
    BY <1>4, <2>2
  <2> QED
    BY <2>1, <2>2, <2>3, RadixFacts DEF PAD
<1> HIDE DEF T
<1>5. 1 .. N \subseteq T
  BY <1>4, Downwards
<1>6. 1 \in T
  BY <1>2, <1>5
<1> QED
  BY <1>1, <1>6 DEF T

-----------------------------------------------------------------------------
(* The two readers *)

LEMMA SearchFacts ==
  ASSUME NEW opts \in Seq(Options), NEW id, NEW k, k = search_option(opts, id)
  PROVE  \/ k = 0 /\ \A j \in 1 .. Len(opts) : opts[j].id # id
         \/ /\ k \in 1 .. Len(opts) /\ k # 0 /\ opts[k].id = id
            /\ \A j \in 1 .. k - 1 : opts[j].id # id
<1> DEFINE found == {j \in 1 .. Len(opts) : opts[j].id = id}
<1>1. Len(opts) \in Nat
  BY LenProperties
<1>2. CASE found = {}
  BY <1>2 DEF search_option
<1>3. CASE found # {}
  <2>1. found \in SUBSET Nat
    BY <1>1
  <2>2. PICK x : x \in found
    BY <1>3
  <2>3. \E y \in found : \A z \in found : y <= z
    BY <2>1, <2>2, HasLeast
  <2>4. k = Min(found)
    BY <1>3 DEF search_option
  <2>5. k \in found /\ \A z \in found : k <= z
    BY <2>3, <2>4 DEF Min
  <2> QED
    BY <1>1, <2>5
<1> QED
  BY <1>2, <1>3

\* r is the type in the options: that of the first option that is to hold one.
IsTypeIn(r, opts) ==
  /\ (\A j \in 1 .. Len(opts) : opts[j].id # MessageType) => r = 0
  /\ \A k \in 1 .. Len(opts) :
       /\ opts[k].id = MessageType /\ Len(opts[k].data) # 0
       /\ \A j \in 1 .. k - 1 : opts[j].id # MessageType
       => r = opts[k].data[1]

LEMMA TypeInOneMore ==
  ASSUME NEW o \in Options, NEW opts \in Seq(Options), NEW r,
         IF o.id # MessageType THEN IsTypeIn(r, opts)
         ELSE Len(o.data) # 0 => r = o.data[1]
  PROVE  IsTypeIn(r, <<o>> \o opts)
<1>1. PICK all \in Seq(Options) : all = <<o>> \o opts
  BY FlatCons
<1>2. PICK n \in Nat : n = Len(opts)
  BY LenProperties
<1>3. /\ Len(all) = n + 1 /\ all[1] = o
      /\ \A k \in 1 .. n : all[k + 1] = opts[k]
  <2>1. PICK one \in Seq(Options) : one = <<o>> /\ Len(one) = 1 /\ one[1] = o
    <3>1. <<o>> \in Seq(Options) /\ Len(<<o>>) = 1 /\ <<o>>[1] = o
      OBVIOUS
    <3> QED
      BY <3>1
  <2>2. /\ Len(one \o opts) = Len(one) + Len(opts)
        /\ \A i \in 1 .. Len(one) + Len(opts) : (one \o opts)[i] =
                   IF i <= Len(one) THEN one[i] ELSE opts[i - Len(one)]
    BY ConcatProperties
  <2>3. /\ Len(all) = n + 1
        /\ \A i \in 1 .. n + 1 : all[i] = IF i <= 1 THEN one[i] ELSE opts[i - 1]
    BY <1>1, <1>2, <2>1, <2>2
  <2>4. ASSUME NEW k \in 1 .. n PROVE all[k + 1] = opts[k]
    <3>1. PICK i \in 1 .. n + 1 : i = k + 1 /\ ~ (i <= 1) /\ i - 1 = k
      OBVIOUS
    <3> QED
      BY <2>3, <3>1
  <2> QED
    BY <2>1, <2>3, <2>4
<1>4. CASE o.id = MessageType
  <2>1. 1 \in 1 .. n + 1
    OBVIOUS
  <2>2. ASSUME NEW k \in 1 .. n + 1, \A j \in 1 .. k - 1 : all[j].id # MessageType
        PROVE  k = 1
    <3>1. k # 1 => 1 \in 1 .. k - 1
      OBVIOUS
    <3> QED
      BY <1>3, <1>4, <2>2, <3>1
  <2> QED
    BY <1>1, <1>3, <1>4, <2>1, <2>2 DEF IsTypeIn
<1>5. CASE o.id # MessageType
  <2>1. IsTypeIn(r, opts)
    BY <1>5
  <2>2. ASSUME \A j \in 1 .. n + 1 : all[j].id # MessageType PROVE r = 0
    <3>1. ASSUME NEW j \in 1 .. n PROVE opts[j].id # MessageType
      <4>1. j + 1 \in 1 .. n + 1
        OBVIOUS
      <4> QED
        BY <1>3, <2>2, <4>1
    <3> QED
      BY <1>2, <2>1, <3>1 DEF IsTypeIn
  <2>3. ASSUME NEW k \in 1 .. n + 1, all[k].id = MessageType, Len(all[k].data) # 0,
               \A j \in 1 .. k - 1 : all[j].id # MessageType
        PROVE  r = all[k].data[1]
    <3>1. k # 1
      BY <1>3, <1>5, <2>3
    <3>2. PICK i \in 1 .. n : k = i + 1
      <4>1. k - 1 \in 1 .. n /\ k = (k - 1) + 1
        BY <3>1
      <4> QED
        BY <4>1
    <3>3. all[k] = opts[i]
      BY <1>3, <3>2
    <3>4. ASSUME NEW j \in 1 .. i - 1 PROVE opts[j].id # MessageType
      <4>1. j + 1 \in 1 .. k - 1 /\ j \in 1 .. n
        BY <3>2
      <4> QED
        BY <1>3, <2>3, <4>1
    <3> QED
      BY <1>2, <2>1, <2>3, <3>3, <3>4 DEF IsTypeIn
  <2> QED
    BY <1>1, <1>3, <2>2, <2>3 DEF IsTypeIn
<1> QED
  BY <1>4, <1>5

\* Where the parser accepts, the scan finds the type that is in the options.
LEMMA ReadersAgree ==
  ASSUME NEW bytes \in Seq(Byte), Len(bytes) <= ScanLimit,
         NEW m \in Memories, \A i \in 1 .. Len(bytes) : m[i] = bytes[i],
         Parsed(bytes).ok = 1
  PROVE  IsTypeIn(TypeFrom(m), Parsed(bytes).opts)
<1>1. PICK from : Parses(from, bytes) /\ Parsed(bytes) = from[1]
  BY ParsedIs
<1>2. PICK scan : Scans(scan, m) /\ TypeFrom(m) = scan[1]
  BY TypeFromIs
<1>3. PICK n \in Nat : n = Len(bytes)
  BY LenProperties
<1>4. 1 .. n \subseteq ScanPlaces /\ \A i \in 1 .. n : ~ (i > ScanLimit)
  BY <1>3, ScanAssumption, RadixFacts DEF ScanPlaces
<1> DEFINE T == {i \in 1 .. n : from[i].ok = 1 => IsTypeIn(scan[i], from[i].opts)}
<1>5. ASSUME NEW i \in 1 .. n, \A j \in 1 .. n : j > i => j \in T, from[i].ok = 1
      PROVE  IsTypeIn(scan[i], from[i].opts)
  <2>1. i \in 1 .. Len(bytes) + 1 /\ i \in ScanPlaces /\ m[i] = bytes[i]
    BY <1>3, <1>4
  <2>2. scan[i] = IF Ends(m, i) THEN 0 ELSE IF Answers(m, i) THEN m[i + 2]
                  ELSE scan[Behind(m, i)]
    BY <1>2, <2>1, ScanSteps
  <2>3. Ends(m, i) <=> bytes[i] = END
    BY <1>4, <2>1 DEF Ends
  <2>4. CASE Complete(bytes, i)
    <3>1. PICK next : next = Behind(bytes, i)
      OBVIOUS
    <3>2. PICK o \in Options : o = OptionAt(bytes, i)
      BY <2>1, <2>4, CompleteFacts
    <3>3. PICK b \in Nat : b = bytes[i + 1]
      BY <2>1, <2>4, CompleteFacts, RadixFacts
    <3>4. /\ next \in 1 .. n /\ next > i /\ next = i + 2 + b
          /\ o.id = bytes[i] /\ Len(o.data) = b
          /\ \A j \in 1 .. b : o.data[j] = bytes[i + 1 + j]
      <4>1. /\ Behind(bytes, i) \in 1 .. Len(bytes) /\ Behind(bytes, i) > i
            /\ Behind(bytes, i) = i + 2 + bytes[i + 1]
            /\ OptionAt(bytes, i).id = bytes[i]
            /\ Len(OptionAt(bytes, i).data) = bytes[i + 1]
            /\ \A j \in 1 .. bytes[i + 1] : OptionAt(bytes, i).data[j] = bytes[i + 1 + j]
        BY <2>1, <2>4, CompleteFacts
      <4> QED
        BY <1>3, <3>1, <3>2, <3>3, <4>1
    <3>5. m[i + 1] = b
      <4>1. i + 1 \in 1 .. n
        BY <3>4
      <4> QED
        BY <1>3, <3>3, <4>1
    <3>6. ~ Ends(m, i) /\ Behind(m, i) = next
      BY <2>3, <2>4, <3>4, <3>5 DEF Complete, Behind
    <3>7. PICK p : p = from[next]
      OBVIOUS
    <3>8. p.opts \in Seq(Options)
      <4>1. next \in 1 .. Len(bytes) + 1
        BY <1>3, <3>4
      <4> QED
        BY <1>1, <3>7, <4>1, ParserFinds DEF ParsesFrom
    <3>9. from[i] = [ok |-> p.ok, opts |-> <<o>> \o p.opts]
      BY <1>1, <2>1, <2>4, <3>1, <3>2, <3>7, ParserSteps
    <3>10. p.ok = 1 /\ from[i].opts = <<o>> \o p.opts
      BY <1>5, <3>9
    <3>11. IsTypeIn(scan[next], p.opts)
      BY <1>5, <3>4, <3>7, <3>10
    <3>12. CASE o.id # MessageType
      <4>1. ~ Answers(m, i)
        BY <2>1, <3>4, <3>12 DEF Answers
      <4>2. scan[i] = scan[next]
        BY <2>2, <3>6, <4>1
      <4> QED
        BY <3>8, <3>10, <3>11, <3>12, <4>2, TypeInOneMore
    <3>13. CASE o.id = MessageType
      <4>1. ASSUME b # 0 PROVE scan[i] = o.data[1]
        <5>1. Answers(m, i)
          BY <2>1, <3>4, <3>5, <3>13, <4>1 DEF Answers
        <5>2. scan[i] = m[i + 2]
          BY <2>2, <3>6, <5>1
        <5>3. 1 \in 1 .. b /\ i + 1 + 1 = i + 2 /\ i + 2 \in 1 .. n
          BY <3>4, <4>1
        <5>4. o.data[1] = bytes[i + 1 + 1]
          BY <3>4, <5>3
        <5> QED
          BY <1>3, <5>2, <5>3, <5>4
      <4> QED
        BY <3>4, <3>8, <3>10, <3>13, <4>1, TypeInOneMore
    <3> QED
      BY <3>12, <3>13
  <2>5. CASE ~ Complete(bytes, i)
    <3>1. from[i] = Refusal(bytes, i)
      BY <1>1, <2>1, <2>5, ParserSteps
    <3>2. bytes[i] = END /\ from[i].opts = <<>>
      BY <1>5, <3>1 DEF Refusal
    <3>3. scan[i] = 0
      BY <2>2, <2>3, <3>2
    <3> QED
      BY <3>2, <3>3 DEF IsTypeIn
  <2> QED
    BY <2>4, <2>5
<1>6. \A i \in 1 .. n : (\A j \in 1 .. n : j > i => j \in T) => i \in T
  BY <1>5
<1> HIDE DEF T
<1>7. 1 .. n \subseteq T
  BY <1>6, Downwards
<1>8. n # 0
  <2>1. ParsesFrom(Parsed(bytes), bytes, 1)
    BY ParsedFacts
  <2> QED
    BY <1>3, <2>1 DEF ParsesFrom
<1>9. 1 \in T
  BY <1>7, <1>8
<1> QED
  BY <1>1, <1>2, <1>9 DEF T

-----------------------------------------------------------------------------
(* The calls *)

Calls == {"init_option_list", "get_dhcp_message_type", "parse_options_to_list",
          "parse_option", "serialize_option_list", "delete_option_list"}

\* The inductive invariant: the list is made of options that a length byte and
\* an id can hold, and what the last call left is what it computes from the
\* list and the datagram, which it does not change.
Typed == /\ list \in Seq(Options)
         /\ received \in [magic : BOOLEAN, bytes : Bytes(MaxReceived)]
         /\ written \in Seq(Byte)
         /\ room \in 0 .. MaxRoom
         /\ result \in Nat
         /\ call \in Calls

WrittenRight ==
  call = "serialize_option_list" =>
    IF COOKIE_LEN + Len(Flat(list)) + 1 <= room
      THEN written = Serialized(list) /\ result = COOKIE_LEN + Len(written)
      ELSE written = <<>> /\ result = 0

ScanRight ==
  call = "get_dhcp_message_type" =>
    \E behind \in Byte : result = TypeFrom(Memory(received.bytes, behind))

OInv == Typed /\ WrittenRight /\ ScanRight

LEMMA ReceivedFacts ==
  ASSUME Typed
  PROVE  /\ received.magic \in BOOLEAN
         /\ received.bytes \in Seq(Byte) /\ Len(received.bytes) \in Nat
         /\ Len(received.bytes) <= MaxReceived
         /\ MaxReceived \in Nat /\ MaxReceived <= BufferSize
<1>1. MaxReceived \in Nat /\ MaxReceived <= BufferSize
  BY BoundsAssumption, ScanAssumption
<1>2. PICK b \in Bytes(MaxReceived) : b = received.bytes
  BY DEF Typed
<1>3. b \in Seq(Byte) /\ Len(b) <= MaxReceived
  BY <1>1, <1>2, BytesAreSequences
<1> QED
  BY <1>1, <1>2, <1>3, LenProperties DEF Typed

LEMMA MemoryFacts ==
  ASSUME NEW bytes \in Seq(Byte), Len(bytes) <= BufferSize, NEW behind \in Byte
  PROVE  /\ Memory(bytes, behind) \in Memories
         /\ Len(bytes) <= ScanLimit
         /\ \A i \in 1 .. Len(bytes) : Memory(bytes, behind)[i] = bytes[i]
<1>1. PICK n \in Nat : n = Len(bytes) /\ n <= BufferSize
  BY LenProperties
<1>2. n <= ScanLimit /\ BufferSize \in Nat /\ ScanLimit \in Nat
  BY <1>1, ScanAssumption
<1>3. \A i \in 1 .. n : i \in 1 .. ScanLimit + 2
  BY <1>2
<1>4. ASSUME NEW i \in 1 .. ScanLimit + 2
      PROVE  (IF i <= n THEN bytes[i] ELSE IF i <= BufferSize THEN PAD ELSE behind) \in Byte
  <2>1. i <= n => bytes[i] \in Byte
    BY <1>1, ElementOfSeq
  <2> QED
    BY <2>1, RadixFacts
<1> QED
  BY <1>1, <1>2, <1>3, <1>4 DEF Memory, Memories

LEMMA InitOInv == Init => OInv
<1> SUFFICES ASSUME Init PROVE OInv
  OBVIOUS
<1>1. <<>> \in Seq(Options) /\ <<>> \in Seq(Byte) /\ 0 \in 0 .. MaxRoom
  BY BoundsAssumption, EmptySeq
<1> QED
  BY <1>1 DEF Init, OInv, Typed, WrittenRight, ScanRight, Calls

LEMMA ScanOInv == OInv /\ get_dhcp_message_type => OInv'
<1> SUFFICES ASSUME OInv, get_dhcp_message_type PROVE OInv'
  OBVIOUS
<1>1. PICK behind \in Byte : result' = TypeFrom(Memory(received.bytes, behind))
  BY DEF get_dhcp_message_type
<1>2. Typed
  BY DEF OInv
<1>3. result' \in Nat
  <2>1. received.bytes \in Seq(Byte) /\ Len(received.bytes) <= BufferSize
    BY <1>2, ReceivedFacts, ScanAssumption
  <2>2. PICK m \in Memories : m = Memory(received.bytes, behind)
    BY <2>1, MemoryFacts
  <2> QED
    BY <1>1, <2>2, TypeIsByte, RadixFacts
<1>4. <<>> \in Seq(Byte) /\ 0 \in 0 .. MaxRoom
  BY BoundsAssumption, EmptySeq
<1>5. Typed'
  BY <1>2, <1>3, <1>4 DEF get_dhcp_message_type, NothingWritten, Typed, Calls
<1>6. WrittenRight' /\ ScanRight'
  BY <1>1 DEF get_dhcp_message_type, WrittenRight, ScanRight
<1> QED
  BY <1>5, <1>6 DEF OInv

LEMMA ParseOInv == OInv /\ parse_options_to_list => OInv'
<1> SUFFICES ASSUME OInv, parse_options_to_list PROVE OInv'
  OBVIOUS
<1>1. Typed
  BY DEF OInv
<1>2. PICK p : p = Parsed(received.bytes)
  OBVIOUS
<1>3. p.ok \in {0, 1} /\ p.opts \in Seq(Options)
  BY <1>1, <1>2, ReceivedFacts, ParsedFacts DEF ParsesFrom
<1>4. list \in Seq(Options)
  BY <1>1 DEF Typed
<1>5. list' \in Seq(Options) /\ result' \in Nat
  <2>1. list \o p.opts \in Seq(Options)
    BY <1>3, <1>4, ConcatProperties
  <2>2. \/ list' = list \o p.opts /\ result' = p.ok
        \/ list' = list /\ result' = 0
    BY <1>2 DEF parse_options_to_list
  <2>3. CASE list' = list \o p.opts /\ result' = p.ok
    BY <1>3, <2>1, <2>3
  <2>4. CASE list' = list /\ result' = 0
    BY <1>4, <2>4
  <2> QED
    BY <2>2, <2>3, <2>4
<1>6. <<>> \in Seq(Byte) /\ 0 \in 0 .. MaxRoom
  BY BoundsAssumption, EmptySeq
<1>7. Typed'
  BY <1>1, <1>5, <1>6 DEF parse_options_to_list, NothingWritten, Typed, Calls
<1>8. WrittenRight' /\ ScanRight'
  BY DEF parse_options_to_list, WrittenRight, ScanRight
<1> QED
  BY <1>7, <1>8 DEF OInv

\* The length byte of a value is a length it has.
LEMMA SizeFacts ==
  ASSUME NEW n \in 0 .. Radix + 1
  PROVE  Size(n) \in 0 .. n /\ Size(n) <= Radix - 1
<1>1. Radix \in Nat /\ Radix >= 3 /\ n \in Nat
  BY RadixFacts
<1>2. CASE n < Radix
  <2>1. n % Radix = n
    BY <1>1, <1>2
  <2> QED
    BY <1>1, <1>2, <2>1 DEF Size
<1>3. CASE n >= Radix
  <2>1. n % Radix = n - Radix
    BY <1>1, <1>3
  <2> QED
    BY <1>1, <1>3, <2>1 DEF Size
<1> QED
  BY <1>1, <1>2, <1>3

LEMMA ValueFits ==
  ASSUME NEW id \in WithParser, NEW value \in Values
  PROVE  Option(id, SubSeq(value, 1, Size(Len(value)))) \in Options
<1>1. PICK n \in 0 .. Radix + 1 : value = [k \in 1 .. n |-> 1]
  BY DEF Values
<1>2. n \in Nat /\ 1 \in Byte /\ id \in Byte /\ id # END
  BY RadixFacts DEF WithParser, Byte
<1>3. value \in Seq(Byte) /\ Len(value) = n
  <2>1. value \in [1 .. n -> Byte]
    BY <1>1, <1>2
  <2> QED
    BY <1>2, <2>1, SeqDef, LenProperties
<1>4. PICK s \in 0 .. n : s = Size(n) /\ s <= Radix - 1
  BY SizeFacts
<1>5. \A k \in 1 .. s : value[k] \in Byte
  BY <1>1, <1>2, <1>4
<1>6. /\ SubSeq(value, 1, s) \in Seq(Byte)
      /\ Len(SubSeq(value, 1, s)) = IF 1 <= s THEN s - 1 + 1 ELSE 0
  <2>1. 1 \in Int /\ s \in Int
    OBVIOUS
  <2> QED
    BY <1>5, <2>1, SubSeqProperties
<1>7. Len(SubSeq(value, 1, s)) <= Radix - 1
  BY <1>4, <1>6
<1> QED
  BY <1>2, <1>3, <1>4, <1>6, <1>7, OptionIsOne

LEMMA OptionOInv ==
  ASSUME NEW id \in WithParser, NEW value \in Values, OInv, parse_option(id, value)
  PROVE  OInv'
<1>1. Typed /\ list \in Seq(Options)
  BY DEF OInv, Typed
<1>2. list' \in Seq(Options) /\ result' \in Nat
  <2>1. PICK o \in Options : o = Option(id, SubSeq(value, 1, Size(Len(value))))
    BY ValueFits
  <2>2. Append(list, o) \in Seq(Options)
    BY <1>1, AppendProperties
  <2>3. id \in Nat
    BY RadixFacts DEF WithParser
  <2> QED
    BY <1>1, <2>1, <2>2, <2>3 DEF parse_option
<1>3. <<>> \in Seq(Byte) /\ 0 \in 0 .. MaxRoom
  BY BoundsAssumption, EmptySeq
<1>4. Typed'
  BY <1>1, <1>2, <1>3 DEF parse_option, NothingWritten, Typed, Calls
<1>5. WrittenRight' /\ ScanRight'
  BY DEF parse_option, WrittenRight, ScanRight
<1> QED
  BY <1>4, <1>5 DEF OInv

LEMMA SerializeOInv ==
  ASSUME NEW n \in 0 .. MaxRoom, OInv, serialize_option_list(n)
  PROVE  OInv'
<1>1. Typed /\ list \in Seq(Options) /\ list' = list
  BY DEF OInv, Typed, serialize_option_list
<1>2. n \in Nat /\ room' = n /\ call' = "serialize_option_list"
  BY BoundsAssumption DEF serialize_option_list
<1>3. IF COOKIE_LEN + Len(Flat(list)) + 1 <= n
        THEN written' = Serialized(list) /\ result' = COOKIE_LEN + Len(written')
        ELSE written' = <<>> /\ result' = 0
  BY <1>1, <1>2, FitsWhenRoom DEF serialize_option_list, Serialized
<1>4. WrittenRight' /\ ScanRight'
  BY <1>1, <1>2, <1>3 DEF WrittenRight, ScanRight
<1>5. written' \in Seq(Byte) /\ result' \in Nat
  <2>1. Serialized(list) \in Seq(Byte) /\ <<>> \in Seq(Byte)
    BY <1>1, SerializedFacts, EmptySeq
  <2>2. written' \in Seq(Byte)
    BY <1>3, <2>1
  <2>3. Len(written') \in Nat
    BY <2>2, LenProperties
  <2> QED
    BY <1>3, <2>2, <2>3 DEF COOKIE_LEN
<1>6. Typed'
  BY <1>1, <1>2, <1>5 DEF serialize_option_list, Typed, Calls
<1> QED
  BY <1>4, <1>6 DEF OInv

LEMMA DeleteOInv == OInv /\ delete_option_list => OInv'
<1> SUFFICES ASSUME OInv, delete_option_list PROVE OInv'
  OBVIOUS
<1>1. <<>> \in Seq(Options) /\ <<>> \in Seq(Byte) /\ 0 \in 0 .. MaxRoom
  BY BoundsAssumption, EmptySeq
<1>2. Typed'
  BY <1>1 DEF OInv, delete_option_list, NothingWritten, Typed, Calls
<1>3. WrittenRight' /\ ScanRight'
  BY DEF delete_option_list, WrittenRight, ScanRight
<1> QED
  BY <1>2, <1>3 DEF OInv

LEMMA NextOInv == OInv /\ [Next]_vars => OInv'
<1> SUFFICES ASSUME OInv, [Next]_vars PROVE OInv'
  OBVIOUS
<1>1. CASE get_dhcp_message_type
  BY <1>1, ScanOInv
<1>2. CASE parse_options_to_list
  BY <1>2, ParseOInv
<1>3. CASE \E id \in WithParser, value \in Values : parse_option(id, value)
  BY <1>3, OptionOInv
<1>4. CASE \E n \in 0 .. MaxRoom : serialize_option_list(n)
  BY <1>4, SerializeOInv
<1>5. CASE delete_option_list
  BY <1>5, DeleteOInv
<1>6. CASE UNCHANGED vars
  BY <1>6 DEF OInv, Typed, WrittenRight, ScanRight, vars
<1> QED
  BY <1>1, <1>2, <1>3, <1>4, <1>5, <1>6 DEF Next

\* The inductive invariant holds throughout.
THEOREM OptionsInvariant == Spec => []OInv
<1>1. Init => OInv
  BY InitOInv
<1>2. OInv /\ [Next]_vars => OInv'
  BY NextOInv
<1> QED
  BY <1>1, <1>2, PTL DEF Spec

-----------------------------------------------------------------------------
(* The theorems *)

\* The type invariant: in particular the list holds only options that can be
\* written, whatever bytes are parsed and whatever the parsers return.
THEOREM TypeCorrect == Spec => []TypeOK
<1>1. ASSUME OInv PROVE TypeOK
  <2>1. Typed
    BY <1>1 DEF OInv
  <2>2. /\ \A k \in 1 .. Len(list) : list[k] \in Options
        /\ \A k \in 1 .. Len(written) : written[k] \in Byte
    BY <2>1, ElementOfSeq DEF Typed
  <2> QED
    BY <2>1, <2>2 DEF Typed, TypeOK, Calls
<1>2. OInv => TypeOK
  BY <1>1
<1> QED
  BY <1>2, OptionsInvariant, PTL

\* serialize_option_list uses exactly the room it needs and refuses only when
\* that is more than it is given: the test made for each option and the one
\* for END come to the one comparison with the whole length.
THEOREM RoomIsUsed == Spec => []SerializeUsesRoom
<1>1. ASSUME OInv PROVE SerializeUsesRoom
  <2>1. list \in Seq(Options) /\ room \in Nat
    BY <1>1, BoundsAssumption DEF OInv, Typed
  <2>2. PICK l \in Nat : l = Len(Flat(list))
    BY <2>1, FlatType
  <2>3. Len(Serialized(list)) = l + 1
    BY <2>1, <2>2, SerializedFacts
  <2>4. WrittenRight
    BY <1>1 DEF OInv
  <2> QED
    BY <2>1, <2>2, <2>3, <2>4 DEF WrittenRight, SerializeUsesRoom, COOKIE_LEN
<1>2. OInv => SerializeUsesRoom
  BY <1>1
<1> QED
  BY <1>2, OptionsInvariant, PTL

\* The round trip: parse_options_to_list reads what serialize_option_list wrote
\* as the list it was written from.
THEOREM RoundTrip == Spec => []SerializedIsParsed
<1>1. ASSUME OInv PROVE SerializedIsParsed
  <2>1. list \in Seq(Options) /\ WrittenRight
    BY <1>1 DEF OInv, Typed
  <2>2. call = "serialize_option_list" /\ result > 0 => written = Serialized(list)
    BY <2>1 DEF WrittenRight
  <2> QED
    BY <2>1, <2>2, WrittenIsParsed DEF SerializedIsParsed
<1>2. OInv => SerializedIsParsed
  BY <1>1
<1> QED
  BY <1>2, OptionsInvariant, PTL

\* The scan of get_dhcp_message_type and the library find the same type in a
\* datagram the library accepts, whatever lies behind the bytes received.
THEOREM ScanAgreesWithSearch == Spec => []ScanFindsWhatSearchFinds
<1>1. ASSUME OInv, call = "get_dhcp_message_type", Parsed(received.bytes).ok = 1
      PROVE  IsTypeIn(result, Parsed(received.bytes).opts)
  <2>1. received.bytes \in Seq(Byte) /\ Len(received.bytes) <= BufferSize
    BY <1>1, ReceivedFacts, ScanAssumption DEF OInv
  <2>2. PICK behind \in Byte : result = TypeFrom(Memory(received.bytes, behind))
    BY <1>1 DEF OInv, ScanRight
  <2>3. PICK bytes \in Seq(Byte) : bytes = received.bytes
    BY <2>1
  <2>4. PICK m \in Memories : m = Memory(bytes, behind)
    BY <2>1, <2>3, MemoryFacts
  <2>5. Len(bytes) <= ScanLimit /\ \A i \in 1 .. Len(bytes) : m[i] = bytes[i]
    BY <2>1, <2>3, <2>4, MemoryFacts
  <2> QED
    BY <1>1, <2>2, <2>3, <2>4, <2>5, ReadersAgree
<1>2. ASSUME OInv PROVE ScanFindsWhatSearchFinds
  <2>1. PICK p : p = Parsed(received.bytes)
    OBVIOUS
  <2>2. PICK k : k = search_option(p.opts, MessageType)
    OBVIOUS
  <2>3. p.opts \in Seq(Options)
    BY <1>2, <2>1, ReceivedFacts, ParsedFacts DEF OInv, ParsesFrom
  <2>4. \/ k = 0 /\ \A j \in 1 .. Len(p.opts) : p.opts[j].id # MessageType
        \/ /\ k \in 1 .. Len(p.opts) /\ k # 0 /\ p.opts[k].id = MessageType
           /\ \A j \in 1 .. k - 1 : p.opts[j].id # MessageType
    BY <2>2, <2>3, SearchFacts
  <2>5. ASSUME call = "get_dhcp_message_type", p.ok = 1
        PROVE  /\ k = 0 => result = 0
               /\ k # 0 /\ p.opts[k].data # <<>> => result = p.opts[k].data[1]
    <3>1. IsTypeIn(result, p.opts)
      BY <1>1, <1>2, <2>1, <2>5
    <3>2. k # 0 /\ p.opts[k].data # <<>> => Len(p.opts[k].data) # 0
      <4>1. k # 0 => p.opts[k].data \in Seq(Byte)
        BY <2>3, <2>4, ElementOfSeq, OptionFacts
      <4> QED
        BY <4>1, EmptySeq
    <3> QED
      BY <2>4, <3>1, <3>2 DEF IsTypeIn
  <2> QED
    BY <2>1, <2>2, <2>5 DEF ScanFindsWhatSearchFinds
<1>3. OInv => ScanFindsWhatSearchFinds
  BY <1>2
<1> QED
  BY <1>3, OptionsInvariant, PTL

\* The action of ParseKeepsWhatIsThere.
KeepsWhatIsThere ==
  call' = "parse_options_to_list" /\ (list' # list \/ result' = 1)
    => LET parsed == SubSeq(list', Len(list) + 1, Len(list'))
           size == Len(Flat(parsed))
       IN /\ received.magic
          /\ SubSeq(list', 1, Len(list)) = list
          /\ IsPrefix(Flat(parsed), received.bytes)
          /\ size < Len(received.bytes)
          /\ result' = 1 <=> received.bytes[size + 1] = END

\* The two parts of a concatenation.
LEMMA PartsOfConcat ==
  ASSUME NEW S, NEW s \in Seq(S), NEW t \in Seq(S)
  PROVE  /\ SubSeq(s \o t, 1, Len(s)) = s
         /\ SubSeq(s \o t, Len(s) + 1, Len(s \o t)) = t
<1>1. PICK n \in Nat : n = Len(s)
  BY LenProperties
<1>2. PICK k \in Nat : k = Len(t)
  BY LenProperties
<1>3. PICK u \in Seq(S) : u = s \o t
  BY ConcatProperties
<1>4. Len(u) = n + k /\ \A i \in 1 .. n + k : u[i] = IF i <= n THEN s[i] ELSE t[i - n]
  BY <1>1, <1>2, <1>3, ConcatProperties
<1>5. PICK N \in Nat : N = n + k
  OBVIOUS
<1>6. \A i \in 1 .. N : u[i] \in S
  BY <1>4, <1>5, ElementOfSeq
<1>7. SubSeq(u, 1, n) = s
  <2>1. \A i \in 1 .. n : u[i] \in S
    BY <1>5, <1>6
  <2>2. PICK a : a = SubSeq(u, 1, n)
    OBVIOUS
  <2>3. /\ a \in Seq(S) /\ Len(a) = IF 1 <= n THEN n - 1 + 1 ELSE 0
        /\ \A i \in 1 .. n - 1 + 1 : a[i] = u[1 + i - 1]
    BY <2>1, <2>2, SubSeqProperties
  <2>4. Len(a) = n
    BY <2>3
  <2>5. ASSUME NEW i \in 1 .. n PROVE a[i] = s[i]
    <3>1. i \in 1 .. n - 1 + 1 /\ 1 + i - 1 = i /\ i \in 1 .. n + k /\ i <= n
      OBVIOUS
    <3> QED
      BY <1>4, <2>3, <3>1
  <2>6. a = s
    BY <1>1, <2>3, <2>4, <2>5, SeqEqual
  <2> QED
    BY <2>2, <2>6
<1>8. SubSeq(u, n + 1, N) = t
  <2>1. PICK first \in Int : first = n + 1
    OBVIOUS
  <2>2. \A i \in first .. N : u[i] \in S
    BY <1>6, <2>1
  <2>3. PICK a : a = SubSeq(u, first, N)
    OBVIOUS
  <2>4. /\ a \in Seq(S) /\ Len(a) = IF first <= N THEN N - first + 1 ELSE 0
        /\ \A i \in 1 .. N - first + 1 : a[i] = u[first + i - 1]
    BY <2>2, <2>3, SubSeqProperties
  <2>5. Len(a) = k
    BY <1>5, <2>1, <2>4
  <2>6. ASSUME NEW i \in 1 .. k PROVE a[i] = t[i]
    <3>1. i \in 1 .. N - first + 1 /\ first + i - 1 = n + i
      BY <1>5, <2>1
    <3>2. n + i \in 1 .. n + k /\ ~ (n + i <= n) /\ n + i - n = i
      OBVIOUS
    <3> QED
      BY <1>4, <2>4, <3>1, <3>2
  <2>7. a = t
    BY <1>2, <2>4, <2>5, <2>6, SeqEqual
  <2> QED
    BY <2>1, <2>3, <2>7
<1> QED
  BY <1>1, <1>3, <1>4, <1>5, <1>7, <1>8

LEMMA PrefixWhenSame ==
  ASSUME NEW S, NEW s \in Seq(S), NEW t \in Seq(S), Len(s) <= Len(t),
         \A i \in 1 .. Len(s) : s[i] = t[i]
  PROVE  IsPrefix(s, t)
<1>1. PICK n \in Nat : n = Len(s)
  BY LenProperties
<1>2. \A i \in 1 .. n : t[i] \in S
  BY <1>1, ElementOfSeq
<1>3. PICK a : a = SubSeq(t, 1, n)
  OBVIOUS
<1>4. /\ a \in Seq(S) /\ Len(a) = IF 1 <= n THEN n - 1 + 1 ELSE 0
      /\ \A i \in 1 .. n - 1 + 1 : a[i] = t[1 + i - 1]
  BY <1>2, <1>3, SubSeqProperties
<1>5. a = s
  <2>1. Len(a) = Len(s) /\ \A i \in 1 .. Len(a) : a[i] = s[i]
    BY <1>1, <1>4
  <2> QED
    BY <1>4, <2>1, SeqEqual
<1>6. SubSeq(s, 1, Len(s)) = s
  BY SubSeqFull
<1> QED
  BY <1>1, <1>3, <1>5, <1>6 DEF IsPrefix

LEMMA ParsingKeeps == Typed /\ [Next]_vars => [KeepsWhatIsThere]_vars
<1> SUFFICES ASSUME Typed, parse_options_to_list, list' # list \/ result' = 1
             PROVE  LET parsed == SubSeq(list', Len(list) + 1, Len(list'))
                        size == Len(Flat(parsed))
                    IN /\ received.magic
                       /\ SubSeq(list', 1, Len(list)) = list
                       /\ IsPrefix(Flat(parsed), received.bytes)
                       /\ size < Len(received.bytes)
                       /\ result' = 1 <=> received.bytes[size + 1] = END
  BY DEF KeepsWhatIsThere, Next, get_dhcp_message_type, parse_option,
         serialize_option_list, delete_option_list
<1>1. PICK l \in Seq(Options) : l = list
  BY DEF Typed
<1>2. PICK bytes \in Seq(Byte) : bytes = received.bytes
  BY ReceivedFacts
<1>3. PICK p : p = Parsed(bytes)
  OBVIOUS
<1>4. ParsesFrom(p, bytes, 1)
  BY <1>3, ParsedFacts
<1>5. PICK q \in Seq(Options) : q = p.opts
  BY <1>4 DEF ParsesFrom
<1>6. l \o <<>> = l
  BY ConcatEmptySeq
<1>7. received.magic /\ list' = l \o q /\ result' = p.ok
  BY <1>1, <1>2, <1>3, <1>5 DEF parse_options_to_list
<1>8. 1 <= Len(bytes)
  <2>1. q # <<>> \/ p.ok = 1
    BY <1>1, <1>6, <1>7
  <2>2. Len(bytes) \in Nat
    BY LenProperties
  <2> QED
    BY <1>4, <1>5, <2>1, <2>2 DEF ParsesFrom
<1>9. PICK f \in Seq(Byte) : f = Flat(q)
  BY FlatType
<1>10. Len(f) \in Nat /\ Len(bytes) \in Nat
  BY LenProperties
<1>11. /\ 1 + Len(f) <= Len(bytes)
       /\ \A j \in 1 .. Len(f) : f[j] = bytes[1 + j - 1]
       /\ p.ok = 1 <=> bytes[1 + Len(f)] = END
  <2>1. FoundFrom(p, bytes, 1)
    BY <1>4, <1>8 DEF ParsesFrom
  <2> QED
    BY <1>5, <1>9, <2>1 DEF FoundFrom
<1>12. Len(f) < Len(bytes) /\ 1 + Len(f) = Len(f) + 1
  BY <1>10, <1>11
<1>13. \A j \in 1 .. Len(f) : f[j] = bytes[j]
  <2>1. \A j \in 1 .. Len(f) : 1 + j - 1 = j
    BY <1>10
  <2> QED
    BY <1>11, <2>1
<1>14. IsPrefix(f, bytes)
  <2>1. Len(f) <= Len(bytes)
    BY <1>10, <1>12
  <2> QED
    BY <1>13, <2>1, PrefixWhenSame
<1>15. /\ SubSeq(list', 1, Len(list)) = list
       /\ SubSeq(list', Len(list) + 1, Len(list')) = q
  BY <1>1, <1>7, PartsOfConcat
<1> QED
  BY <1>2, <1>7, <1>9, <1>11, <1>12, <1>14, <1>15

\* What parse_options_to_list appends to the list is what the datagram holds, up
\* to where it breaks off, and the return value tells whether END is there.
THEOREM ParserKeeps == Spec => ParseKeepsWhatIsThere
<1>1. OInv /\ [Next]_vars => [KeepsWhatIsThere]_vars
  BY ParsingKeeps DEF OInv
<1> QED
  BY <1>1, OptionsInvariant, PTL DEF Spec, ParseKeepsWhatIsThere, KeepsWhatIsThere
==============================================================================
