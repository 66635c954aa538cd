-------------------------- MODULE ConfigReaderProofs --------------------------
(***************************************************************************)
(* Proofs about ConfigReader, for files of any length.                     *)
(***************************************************************************)
EXTENDS ConfigReader, SequenceTheorems, TLAPS

-----------------------------------------------------------------------------
(* Lemmas about a line and a file. *)

\* The next line of a file is one of Lines.
LEMMA LineOfFile ==
  ASSUME TypeOK, read < Len(file)
  PROVE  /\ file[read + 1] \in Lines
         /\ read + 1 \in 1 .. Len(file)
<1>1. PICK n \in 0 .. MaxLines : file \in [1 .. n -> Lines]
  BY DEF TypeOK, Files
<1>2. n \in Nat
  BY <1>1, BoundsAssumption
<1>3. DOMAIN file = 1 .. n
  BY <1>1
<1>4. Len(file) = n
  BY <1>1, <1>2, <1>3
<1>5. read \in Nat /\ read + 1 \in 1 .. n
  BY <1>2, <1>4 DEF TypeOK
<1> QED
  BY <1>1, <1>4, <1>5

\* The texts behind a keyword are words or numbers.
LEMMA WordsOfLine ==
  ASSUME NEW l \in Lines
  PROVE  /\ l.keyword \in {"range", "subnet", "domain-name-servers"}
              => l.words \in UpToTwo
         /\ l.keyword \in {"default-lease-time", "max-lease-time"}
              => Number(l) \in LeaseTimes \union {Junk}
<1>1. CASE l \in [keyword : {"range", "subnet", "domain-name-servers"}, words : UpToTwo]
  BY <1>1
<1>2. CASE l \in [keyword : {"default-lease-time", "max-lease-time"},
                  words : {<<n>> : n \in Numbers}]
  <2>1. PICK n \in Numbers : l.words = <<n>>
    BY <1>2
  <2>2. n.text \in LeaseTimes \union {Junk}
    BY DEF Numbers
  <2> QED
    BY <1>2, <2>1, <2>2 DEF Number
<1>3. CASE l = [keyword |-> "other", words |-> <<>>]
  BY <1>3
<1> QED
  BY <1>1, <1>2, <1>3 DEF Lines

\* What %15s yields for a word begins with a text inet_addr can be given.
LEMMA CapturedWord ==
  ASSUME NEW w \in Words
  PROVE  /\ w.text \in Addresses \union {Junk}
         /\ w.mark \in Marks
         /\ Captured(w) \in Seq(Addresses \union {Junk})
         /\ Len(Captured(w)) \in Nat /\ Len(Captured(w)) >= 1
         /\ Captured(w)[1] \in {w.text, Junk}
         /\ w.mark = "" => Captured(w) = <<w.text>>
<1> DEFINE Texts == Addresses \union {Junk}
<1>1. w.text \in Texts /\ w.mark \in Marks /\ Junk \in Texts
  BY DEF Words
<1>2. w.mark = "" => Captured(w) = <<w.text>>
  BY DEF Captured
<1>3. Captured(w) \in {<<w.text>>, <<w.text, Junk>>, <<Junk>>}
  BY DEF Captured
<1>4. /\ <<w.text>> \in Seq(Texts) /\ Len(<<w.text>>) = 1
      /\ <<w.text, Junk>> \in Seq(Texts) /\ Len(<<w.text, Junk>>) = 2
      /\ <<Junk>> \in Seq(Texts) /\ Len(<<Junk>>) = 1
  BY <1>1
<1>5. /\ Captured(w) \in Seq(Texts)
      /\ Len(Captured(w)) \in Nat /\ Len(Captured(w)) >= 1
  <2>1. CASE Captured(w) = <<w.text>>
    BY <1>4, <2>1
  <2>2. CASE Captured(w) = <<w.text, Junk>>
    BY <1>4, <2>2
  <2>3. CASE Captured(w) = <<Junk>>
    BY <1>4, <2>3
  <2> QED
    BY <1>3, <2>1, <2>2, <2>3
<1>6. Captured(w)[1] \in {w.text, Junk}
  BY <1>3
<1> QED
  BY <1>1, <1>2, <1>5, <1>6

LEMMA TextToNumber ==
  ASSUME NEW text \in Addresses \union {Junk}
  PROVE  inet_addr(text) \in Numbers32
  BY AddressAssumption DEF inet_addr, Numbers32

\* The number made of a word.
LEMMA WordToNumber ==
  ASSUME NEW w \in Words
  PROVE  /\ inet_addr(w.text) \in AddressOrUnset
         /\ inet_addr(Captured(w)[1]) \in AddressOrUnset
  BY CapturedWord, TextToNumber DEF AddressOrUnset

\* The words of a line, one by one.
LEMMA TheWords ==
  ASSUME NEW ws \in UpToTwo
  PROVE  \/ ws = <<>>
         \/ Len(ws) = 1 /\ ws[1] \in Words
         \/ Len(ws) = 2 /\ ws[1] \in Words /\ ws[2] \in Words
  BY DEF UpToTwo

\* All texts of a line are ones inet_addr can be given.
LEMMA CapturedLine ==
  ASSUME NEW ws \in UpToTwo
  PROVE  CapturedAll(ws) \in Seq(Addresses \union {Junk})
<1> DEFINE Texts == Addresses \union {Junk}
<1>1. CASE ws = <<>>
  BY <1>1 DEF CapturedAll
<1>2. CASE Len(ws) = 1 /\ ws[1] \in Words
  <2>1. ws # <<>> /\ Len(ws) # 2
    BY <1>2
  <2> QED
    BY <1>2, <2>1, CapturedWord DEF CapturedAll
<1>3. CASE Len(ws) = 2 /\ ws[1] \in Words /\ ws[2] \in Words
  <2>1. ws # <<>> /\ Len(ws) # 1
    BY <1>3
  <2>2. Captured(ws[1]) \in Seq(Texts) /\ Captured(ws[2]) \in Seq(Texts)
    BY <1>3, CapturedWord
  <2>3. Captured(ws[1]) \o Captured(ws[2]) \in Seq(Texts)
    BY <2>2
  <2> QED
    BY <1>3, <2>1, <2>3 DEF CapturedAll
<1> QED
  BY <1>1, <1>2, <1>3, TheWords

-----------------------------------------------------------------------------
(* One line keeps the types. *)

LEMMA RangeTypes ==
  ASSUME TypeOK, NEW l \in Lines, ReadRange(l)
  PROVE  config' \in Configs /\ pool' \in Pools
<1> DEFINE texts == CapturedAll(l.words)
<1>1. texts \in Seq(Addresses \union {Junk})
  BY WordsOfLine, CapturedLine DEF ReadRange
<1>2. CASE Len(texts) >= 2
  <2> DEFINE start == inet_addr(texts[1])
             end == inet_addr(texts[2])
  <2>1. texts[1] \in Addresses \union {Junk} /\ texts[2] \in Addresses \union {Junk}
    BY <1>1, <1>2
  <2>2. start \in AddressOrUnset /\ end \in AddressOrUnset
    BY <2>1, TextToNumber DEF AddressOrUnset
  <2>3. /\ config' = [config EXCEPT !.ip_pool_start = start, !.ip_pool_end = end]
        /\ pool' = [ip_first |-> start, ip_last |-> end, ip_current |-> start]
    BY <1>2 DEF ReadRange
  <2> HIDE DEF start, end
  <2> QED
    BY <2>2, <2>3 DEF TypeOK, Configs, Pools
<1>3. CASE ~ Len(texts) >= 2
  BY <1>3 DEF ReadRange, TypeOK
<1> QED
  BY <1>2, <1>3

LEMMA LeaseTypes ==
  ASSUME TypeOK, NEW l \in Lines, ReadLeaseTime(l)
  PROVE  config' \in Configs /\ pool' \in Pools
<1>1. Number(l) # Junk => Number(l) \in TimeOrUnset
  BY WordsOfLine DEF ReadLeaseTime, TimeOrUnset
<1> QED
  BY <1>1 DEF ReadLeaseTime, TypeOK, Configs

LEMMA SubnetTypes ==
  ASSUME TypeOK, NEW l \in Lines, ReadSubnet(l)
  PROVE  config' \in Configs /\ pool' \in Pools
<1>1. l.words \in UpToTwo
  BY WordsOfLine DEF ReadSubnet
<1>2. PICK anything \in Addresses \union {Largest, Unset},
           something \in Addresses \union {Largest, Unset}, damaged \in BOOLEAN :
        LET both == Len(l.words) = 2 /\ Len(Captured(l.words[1])) = 1 IN
        config' = [config EXCEPT
                     !.subnet = IF l.words = <<>> \/ (both /\ damaged) THEN anything
                                ELSE inet_addr(Captured(l.words[1])[1]),
                     !.netmask = IF both THEN inet_addr(Captured(l.words[2])[1])
                                 ELSE something]
  BY DEF ReadSubnet
<1>3. anything \in AddressOrUnset /\ something \in AddressOrUnset
  BY <1>2, AddressAssumption DEF AddressOrUnset, Numbers32
<1>4. l.words # <<>> => inet_addr(Captured(l.words[1])[1]) \in AddressOrUnset
  BY <1>1, TheWords, WordToNumber
<1>5. Len(l.words) = 2 => inet_addr(Captured(l.words[2])[1]) \in AddressOrUnset
  BY <1>1, TheWords, WordToNumber
<1> DEFINE both == Len(l.words) = 2 /\ Len(Captured(l.words[1])) = 1
           subnet == IF l.words = <<>> \/ (both /\ damaged) THEN anything
                     ELSE inet_addr(Captured(l.words[1])[1])
           netmask == IF both THEN inet_addr(Captured(l.words[2])[1]) ELSE something
<1>6. subnet \in AddressOrUnset /\ netmask \in AddressOrUnset
  BY <1>3, <1>4, <1>5
<1>7. config' = [config EXCEPT !.subnet = subnet, !.netmask = netmask]
  BY <1>2
<1> HIDE DEF subnet, netmask
<1> QED
  BY <1>6, <1>7 DEF ReadSubnet, TypeOK, Configs

LEMMA DnsTypes ==
  ASSUME TypeOK, NEW l \in Lines, ReadDnsServers(l)
  PROVE  config' \in Configs /\ pool' \in Pools
<1>1. l.words \in UpToTwo
  BY WordsOfLine DEF ReadDnsServers
<1>2. Len(l.words) = 2 => /\ inet_addr(l.words[1].text) \in AddressOrUnset
                          /\ inet_addr(Captured(l.words[2])[1]) \in AddressOrUnset
  BY <1>1, TheWords, WordToNumber
<1> QED
  BY <1>2 DEF ReadDnsServers, TypeOK, Configs

\* Every branch of the loop.
LEMMA LineTypes ==
  ASSUME TypeOK, ReadLine
  PROVE  config' \in Configs /\ pool' \in Pools
<1> DEFINE l == file[read + 1]
<1>1. l \in Lines
  BY LineOfFile DEF ReadLine
<1>2. \/ ReadRange(l) \/ ReadLeaseTime(l) \/ ReadSubnet(l) \/ ReadDnsServers(l)
      \/ Skip(l)
  BY DEF ReadLine
<1>3. CASE Skip(l)
  BY <1>3 DEF Skip, TypeOK
<1> HIDE DEF l
<1> QED
  BY <1>1, <1>2, <1>3, RangeTypes, LeaseTypes, SubnetTypes, DnsTypes

\* The configuration and the pool hold 32-bit numbers or what the stack held,
\* for every file.
THEOREM TypeCorrect == Spec => []TypeOK
<1>1. Init => TypeOK
  <2> SUFFICES ASSUME Init PROVE TypeOK
    OBVIOUS
  <2>1. PICK n \in 0 .. MaxLines : file \in [1 .. n -> Lines]
    BY DEF Init, Files
  <2>2. Len(file) \in Nat
    BY <2>1, BoundsAssumption
  <2> QED
    BY <2>2 DEF Init, TypeOK, Configs, Pools, AddressOrUnset, TimeOrUnset
<1>2. TypeOK /\ [Next]_vars => TypeOK'
  <2> SUFFICES ASSUME TypeOK, [Next]_vars PROVE TypeOK'
    OBVIOUS
  <2>1. CASE ReadLine
    <3>1. config' \in Configs /\ pool' \in Pools
      BY <2>1, LineTypes
    <3>2. read + 1 \in 0 .. Len(file)
      BY <2>1, LineOfFile DEF ReadLine
    <3> QED
      BY <2>1, <3>1, <3>2 DEF ReadLine, TypeOK
  <2>2. CASE EndOfFile
    BY <2>2 DEF EndOfFile, TypeOK
  <2>3. CASE CannotOpen
    BY <2>3 DEF CannotOpen, TypeOK
  <2>4. CASE UNCHANGED vars
    BY <2>4 DEF vars, TypeOK
  <2> QED
    BY <2>1, <2>2, <2>3, <2>4 DEF Next, Rest
<1> QED
  BY <1>1, <1>2, PTL DEF Spec

-----------------------------------------------------------------------------
(* What the lines of one keyword leave of the fields of the others. *)

LEMMA OtherLines ==
  ASSUME TypeOK, NEW l \in Lines,
         \/ ReadRange(l) \/ ReadLeaseTime(l) \/ ReadSubnet(l) \/ ReadDnsServers(l)
         \/ Skip(l)
  PROVE  /\ l.keyword # "range"
              => /\ pool' = pool
                 /\ config'.ip_pool_start = config.ip_pool_start
                 /\ config'.ip_pool_end = config.ip_pool_end
         /\ l.keyword # "domain-name-servers" => config'.dns = config.dns
         /\ l.keyword # "default-lease-time"
              => config'.default_lease_time = config.default_lease_time
         /\ l.keyword # "max-lease-time"
              => config'.max_lease_time = config.max_lease_time
<1> USE DEF TypeOK, Configs
<1>1. CASE ReadRange(l)
  BY <1>1 DEF ReadRange
<1>2. CASE ReadLeaseTime(l)
  BY <1>2 DEF ReadLeaseTime
<1>3. CASE ReadSubnet(l)
  <2>1. PICK anything \in Addresses \union {Largest, Unset},
             something \in Addresses \union {Largest, Unset}, damaged \in BOOLEAN :
          LET both == Len(l.words) = 2 /\ Len(Captured(l.words[1])) = 1 IN
          config' = [config EXCEPT
                       !.subnet = IF l.words = <<>> \/ (both /\ damaged) THEN anything
                                  ELSE inet_addr(Captured(l.words[1])[1]),
                       !.netmask = IF both THEN inet_addr(Captured(l.words[2])[1])
                                   ELSE something]
    BY <1>3 DEF ReadSubnet
  <2> QED
    BY <1>3, <2>1 DEF ReadSubnet
<1>4. CASE ReadDnsServers(l)
  BY <1>4 DEF ReadDnsServers
<1>5. CASE Skip(l)
  BY <1>5 DEF Skip
<1> QED
  BY <1>1, <1>2, <1>3, <1>4, <1>5

\* One text in front of others.
LEMMA Behind ==
  ASSUME NEW S, NEW f \in Seq(S), NEW c \in Seq(S), Len(f) = 1, Len(c) >= 1
  PROVE  Len(f \o c) >= 2 /\ (f \o c)[1] = f[1] /\ (f \o c)[2] = c[1]
<1>1. Len(f \o c) = Len(f) + Len(c)
  BY ConcatProperties
<1>2. \A i \in 1 .. Len(f) + Len(c) :
        (f \o c)[i] = IF i <= Len(f) THEN f[i] ELSE c[i - Len(f)]
  BY ConcatProperties
<1>3. Len(c) \in Nat
  BY LenProperties
<1>4. \A i \in 1 .. 1 + Len(c) : (f \o c)[i] = IF i <= 1 THEN f[i] ELSE c[i - 1]
  BY <1>2
<1>5. (f \o c)[1] = f[1]
  BY <1>3, <1>4
<1>6. (f \o c)[2] = c[1]
  <2>1. 2 \in 1 .. 1 + Len(c) /\ ~ 2 <= 1 /\ 2 - 1 = 1
    BY <1>3
  <2> QED
    BY <1>4, <2>1
<1> QED
  BY <1>1, <1>3, <1>5, <1>6

LEMMA Single ==
  ASSUME NEW S, NEW text \in S, NEW f, f = <<text>>
  PROVE  f \in Seq(S) /\ Len(f) = 1 /\ f[1] = text
  OBVIOUS

\* The texts of two words, the first without a mark.
LEMMA InFront ==
  ASSUME NEW v \in Words, NEW w \in Words, v.mark = ""
  PROVE  /\ Len(Captured(v) \o Captured(w)) >= 2
         /\ (Captured(v) \o Captured(w))[1] = v.text
         /\ (Captured(v) \o Captured(w))[2] = Captured(w)[1]
<1> DEFINE Texts == Addresses \union {Junk}
           f == Captured(v)
           c == Captured(w)
           text == v.text
<1>1. text \in Texts /\ f = <<text>>
  BY CapturedWord
<1>2. c \in Seq(Texts) /\ Len(c) >= 1
  BY CapturedWord
<1> HIDE DEF Texts, f, c, text
<1>3. f \in Seq(Texts) /\ Len(f) = 1 /\ f[1] = text
  BY <1>1, Single
<1>4. Len(f \o c) >= 2 /\ (f \o c)[1] = text /\ (f \o c)[2] = c[1]
  BY <1>2, <1>3, Behind
<1> QED
  BY <1>4 DEF f, c, text

\* A text is read as what it names or as the largest number.
LEMMA AsNamedOrLargest ==
  ASSUME NEW text, NEW t \in {text, Junk}
  PROVE  inet_addr(t) \in {text, Largest}
  BY DEF inet_addr

\* Two words that name addresses, the first without a mark: the texts begin
\* with the first address, and the second is the one it names when its mark is
\* not taken along.
LEMMA TwoAddresses ==
  ASSUME NEW v \in Words, NEW w \in Words,
         v.mark = "", v.text # Junk, w.text # Junk
  PROVE  LET texts == Captured(v) \o Captured(w) IN
         /\ Len(texts) >= 2
         /\ inet_addr(texts[1]) = v.text
         /\ inet_addr(texts[2]) \in {w.text, Largest}
         /\ Clean(w) => inet_addr(texts[2]) = w.text
<1> DEFINE texts == Captured(v) \o Captured(w)
<1>1. v.text \in Addresses /\ w.text \in Addresses
  BY CapturedWord
<1>2. Len(texts) >= 2 /\ texts[1] = v.text /\ texts[2] \in {w.text, Junk}
  BY InFront, CapturedWord
<1>3. Clean(w) => texts[2] = w.text
  <2> SUFFICES ASSUME Clean(w) PROVE texts[2] = w.text
    OBVIOUS
  <2>1. Captured(w)[1] = w.text
    BY DEF Clean, Captured
  <2> QED
    BY <2>1, InFront
<1> HIDE DEF texts
<1>4. inet_addr(texts[1]) = v.text
  BY <1>2 DEF inet_addr
<1>5. inet_addr(texts[2]) \in {w.text, Largest}
  BY <1>2, AsNamedOrLargest
<1>6. Clean(w) => inet_addr(texts[2]) = w.text
  BY <1>3 DEF inet_addr
<1> QED
  BY <1>2, <1>4, <1>5, <1>6 DEF texts

\* What PoolFromLastRange says of the pool that line l gave.
PoolOf(l) == /\ pool.ip_first = l.words[1].text
             /\ pool.ip_current = pool.ip_first
             /\ pool.ip_last \in {l.words[2].text, Largest}
             /\ Clean(l.words[2]) => pool.ip_last = l.words[2].text
             /\ config.ip_pool_start = pool.ip_first
             /\ config.ip_pool_end = pool.ip_last

\* A line that names a range is always taken over.
LEMMA RangeTaken ==
  ASSUME TypeOK, NEW l \in Lines, ReadRange(l), NamesRange(l)
  PROVE  PoolOf(l)'
<1> DEFINE texts == CapturedAll(l.words)
<1>1. l.words \in UpToTwo /\ Len(l.words) = 2
  BY WordsOfLine DEF ReadRange, NamesRange
<1>2. l.words[1] \in Words /\ l.words[2] \in Words /\ l.words # <<>>
  BY <1>1, TheWords
<1>3. texts = Captured(l.words[1]) \o Captured(l.words[2])
  BY <1>1, <1>2 DEF CapturedAll
<1>4. /\ Len(texts) >= 2
      /\ inet_addr(texts[1]) = l.words[1].text
      /\ inet_addr(texts[2]) \in {l.words[2].text, Largest}
      /\ Clean(l.words[2]) => inet_addr(texts[2]) = l.words[2].text
  <2>1. l.words[1].mark = "" /\ l.words[1].text # Junk /\ l.words[2].text # Junk
    <3>1. 1 \in 1 .. 2 /\ 2 \in 1 .. 2
      OBVIOUS
    <3> QED
      BY <3>1, Zenon DEF NamesRange
  <2> QED
    BY <1>2, <1>3, <2>1, TwoAddresses
<1>5. /\ config' = [config EXCEPT !.ip_pool_start = inet_addr(texts[1]),
                                  !.ip_pool_end = inet_addr(texts[2])]
      /\ pool' = [ip_first |-> inet_addr(texts[1]), ip_last |-> inet_addr(texts[2]),
                  ip_current |-> inet_addr(texts[1])]
  BY <1>4 DEF ReadRange
<1>6. Clean(l.words[2])' = Clean(l.words[2])
  BY DEF Clean
<1> HIDE DEF texts
<1> QED
  BY <1>4, <1>5, <1>6 DEF PoolOf, TypeOK, Configs

\* A range line without words leaves the pool as it is.
LEMMA EmptyRange ==
  ASSUME NEW l, ReadRange(l), l.words = <<>>
  PROVE  pool' = pool /\ config' = config
<1>1. CapturedAll(l.words) = <<>>
  BY DEF CapturedAll
<1>2. ~ Len(CapturedAll(l.words)) >= 2
  BY <1>1
<1> QED
  BY <1>2 DEF ReadRange

\* The pool is that of the last line that names a range, its end included,
\* whatever lines stand around it, for every file.
THEOREM PoolAsConfigured == Spec => []PoolFromLastRange
<1>1. Init => PoolFromLastRange
  BY DEF Init, PoolFromLastRange
<1>2. TypeOK /\ PoolFromLastRange /\ [Next]_vars => PoolFromLastRange'
  <2> SUFFICES ASSUME TypeOK, PoolFromLastRange, [Next]_vars PROVE PoolFromLastRange'
    OBVIOUS
  <2>1. CASE ReadLine
    <3> DEFINE l == file[read + 1]
    <3>1. l \in Lines
      BY <2>1, LineOfFile DEF ReadLine
    <3>2. \/ ReadRange(l) \/ ReadLeaseTime(l) \/ ReadSubnet(l) \/ ReadDnsServers(l)
          \/ Skip(l)
      BY <2>1 DEF ReadLine
    <3>3. file' = file /\ read' = read + 1 /\ read \in Nat
      BY <2>1 DEF ReadLine, TypeOK
    <3> SUFFICES ASSUME NEW p \in 1 .. read', LastRange(p)'
                 PROVE  PoolOf(file[p])'
      BY <3>3 DEF PoolFromLastRange, PoolOf
    <3>4. CASE p = read + 1
      <4>1. ReadRange(l) /\ NamesRange(l)
        BY <3>2, <3>3, <3>4
           DEF LastRange, NamesRange, ReadLeaseTime, ReadSubnet, ReadDnsServers, Skip
      <4>2. file'[p] = l
        BY <3>3, <3>4
      <4> QED
        BY <3>1, <4>1, <4>2, RangeTaken DEF PoolOf, Clean
    <3>5. CASE p # read + 1
      <4>1. p \in 1 .. read /\ LastRange(p)
        <5>1. p \in 1 .. read
          BY <3>3, <3>5
        <5>2. \A q \in p + 1 .. read :
                file[q].keyword = "range" => file[q].words = <<>>
          <6>1. \A q \in p + 1 .. read + 1 :
                  file[q].keyword = "range" => file[q].words = <<>>
            BY <3>3, Zenon DEF LastRange
          <6> QED
            BY <3>3, <6>1
        <5>3. file[p].keyword = "range" /\ NamesRange(file[p])
          BY <3>3, Zenon DEF LastRange, NamesRange
        <5> QED
          BY <5>1, <5>2, <5>3, Zenon DEF LastRange
      <4>2. l.keyword = "range" => l.words = <<>>
        BY <3>3, <3>5 DEF LastRange
      <4> HIDE DEF l
      <4>3. /\ pool' = pool
            /\ config'.ip_pool_start = config.ip_pool_start
            /\ config'.ip_pool_end = config.ip_pool_end
        <5>1. CASE l.keyword = "range"
          <6>1. ReadRange(l)
            BY <3>2, <5>1 DEF ReadLeaseTime, ReadSubnet, ReadDnsServers, Skip
          <6> QED
            BY <4>2, <5>1, <6>1, EmptyRange
        <5>2. CASE l.keyword # "range"
          BY <3>1, <3>2, <5>2, OtherLines
        <5> QED
          BY <5>1, <5>2
      <4>4. PoolOf(file[p])
        BY <4>1 DEF PoolFromLastRange, PoolOf
      <4> QED
        BY <3>3, <4>3, <4>4 DEF PoolOf, Clean
    <3> QED
      BY <3>4, <3>5
  <2>2. CASE EndOfFile \/ CannotOpen \/ UNCHANGED vars
    <3>1. file' = file /\ read' = read /\ pool' = pool /\ config' = config
      BY <2>2 DEF EndOfFile, CannotOpen, vars
    <3> QED
      BY <3>1 DEF PoolFromLastRange, LastRange, NamesRange, Clean
  <2> QED
    BY <2>1, <2>2 DEF Next, Rest
<1> QED
  BY <1>1, <1>2, TypeCorrect, PTL DEF Spec

LEMMA FullText ==
  ASSUME NEW text \in FullLength
  PROVE  inet_addr(text) = text
  BY AddressAssumption, TextAssumption DEF inet_addr

\* No DNS server is taken over alone, nor with one of another line, for every
\* file.
THEOREM DnsServersTogether == Spec => []DnsFromOneLine
<1>1. Init => DnsFromOneLine
  BY DEF Init, DnsFromOneLine
<1>2. TypeOK /\ DnsFromOneLine /\ [Next]_vars => DnsFromOneLine'
  <2> SUFFICES ASSUME TypeOK, DnsFromOneLine, [Next]_vars PROVE DnsFromOneLine'
    OBVIOUS
  <2>1. ASSUME file' = file, read' >= read, read' \in Nat, read \in Nat,
               config'.dns = config.dns
        PROVE  DnsFromOneLine'
    BY <2>1 DEF DnsFromOneLine
  <2>2. CASE ReadLine
    <3> DEFINE l == file[read + 1]
    <3>1. l \in Lines
      BY <2>2, LineOfFile DEF ReadLine
    <3>2. \/ ReadRange(l) \/ ReadLeaseTime(l) \/ ReadSubnet(l) \/ ReadDnsServers(l)
          \/ Skip(l)
      BY <2>2 DEF ReadLine
    <3>3. file' = file /\ read' = read + 1 /\ read \in Nat /\ read' \in Nat
      BY <2>2 DEF ReadLine, TypeOK
    <3> DEFINE taken == /\ l.keyword = "domain-name-servers"
                        /\ Len(l.words) = 2
                        /\ l.words[1].text \in FullLength
                        /\ l.words[1].mark = ","
    <3>4. CASE ~ taken
      <4>1. config'.dns = config.dns
        <5>1. CASE ReadDnsServers(l)
          BY <3>4, <5>1 DEF ReadDnsServers
        <5>2. CASE ~ ReadDnsServers(l)
          <6>1. l.keyword # "domain-name-servers"
            BY <3>2, <5>2 DEF ReadRange, ReadLeaseTime, ReadSubnet, Skip
          <6> HIDE DEF l
          <6> QED
            BY <3>1, <3>2, <6>1, OtherLines
        <5> QED
          BY <5>1, <5>2
      <4> QED
        BY <2>1, <3>3, <4>1
    <3>5. CASE taken
      <4>1. l.words[1] \in Words /\ l.words[2] \in Words
        <5>1. l.words \in UpToTwo /\ Len(l.words) = 2
          BY <3>1, <3>5, WordsOfLine
        <5> QED
          BY <5>1, TheWords
      <4>2. config'.dns = <<inet_addr(l.words[1].text),
                            inet_addr(Captured(l.words[2])[1])>>
        <5>1. ReadDnsServers(l)
          BY <3>2, <3>5 DEF ReadRange, ReadLeaseTime, ReadSubnet, Skip
        <5> QED
          BY <3>5, <5>1 DEF ReadDnsServers, TypeOK, Configs
      <4>3. inet_addr(l.words[1].text) = l.words[1].text
        BY <3>5, FullText
      <4>4. inet_addr(Captured(l.words[2])[1]) \in {l.words[2].text, Largest}
        BY <4>1, CapturedWord, AsNamedOrLargest
      <4>5. /\ config'.dns[1] = l.words[1].text
            /\ config'.dns[2] \in {l.words[2].text, Largest}
        BY <4>2, <4>3, <4>4
      <4>6. read + 1 \in 1 .. read'
        BY <3>3
      <4> QED
        BY <3>3, <3>5, <4>5, <4>6 DEF DnsFromOneLine
    <3> QED
      BY <3>4, <3>5
  <2>3. CASE EndOfFile \/ CannotOpen \/ UNCHANGED vars
    BY <2>1, <2>3 DEF EndOfFile, CannotOpen, vars, TypeOK
  <2> QED
    BY <2>2, <2>3 DEF Next, Rest
<1> QED
  BY <1>1, <1>2, TypeCorrect, PTL DEF Spec

\* A line that gives a number for a keyword is its last one; any other leaves
\* the lines that do as they are.
LEMMA OneLineMore ==
  ASSUME read \in Nat, file' = file, read' = read + 1,
         NEW keyword, NEW old, NEW new, AsNamed(old, keyword),
         new = IF file[read + 1].keyword = keyword /\ Number(file[read + 1]) # Junk
                 THEN Number(file[read + 1]) ELSE old
  PROVE  AsNamed(new, keyword)'
<1> DEFINE l == file[read + 1]
<1>1. \A p : p \in Named(keyword)' <=>
               \/ p \in Named(keyword)
               \/ p = read + 1 /\ l.keyword = keyword /\ Number(l) # Junk
  BY DEF Named, Number
<1>2. \A p \in Named(keyword) : p \in 1 .. read
  BY DEF Named
<1>3. CASE l.keyword = keyword /\ Number(l) # Junk
  <2>1. PICK last : last = read + 1
    OBVIOUS
  <2>2. last \in Named(keyword)' /\ \A q \in Named(keyword)' : q <= last
    BY <1>1, <1>2, <1>3, <2>1
  <2>3. new = Number(file[last])'
    BY <1>3, <2>1 DEF Number
  <2> QED
    BY <2>2, <2>3 DEF AsNamed
<1>4. CASE ~ (l.keyword = keyword /\ Number(l) # Junk)
  <2>1. new = old /\ Named(keyword)' = Named(keyword)
    BY <1>1, <1>4
  <2>2. \A p : Number(file[p])' = Number(file[p])
    BY DEF Number
  <2> QED
    BY <2>1, <2>2 DEF AsNamed
<1> QED
  BY <1>3, <1>4

\* Each lease time is that of the last line of its own that gives a number,
\* for every file.
THEOREM LeasesAsConfigured == Spec => []LeaseAsNamed
<1>1. Init => LeaseAsNamed
  BY DEF Init, LeaseAsNamed, AsNamed, Named
<1>2. TypeOK /\ LeaseAsNamed /\ [Next]_vars => LeaseAsNamed'
  <2> SUFFICES ASSUME TypeOK, LeaseAsNamed, [Next]_vars PROVE LeaseAsNamed'
    OBVIOUS
  <2>1. CASE ReadLine
    <3>1. PICK l : l = file[read + 1]
      OBVIOUS
    <3>2. l \in Lines
      BY <2>1, <3>1, LineOfFile DEF ReadLine
    <3>3. \/ ReadRange(l) \/ ReadLeaseTime(l) \/ ReadSubnet(l) \/ ReadDnsServers(l)
          \/ Skip(l)
      BY <2>1, <3>1 DEF ReadLine
    <3>4. file' = file /\ read' = read + 1 /\ read \in Nat
      BY <2>1 DEF ReadLine, TypeOK
    <3>5. /\ config'.default_lease_time =
               IF l.keyword = "default-lease-time" /\ Number(l) # Junk
                 THEN Number(l) ELSE config.default_lease_time
          /\ config'.max_lease_time =
               IF l.keyword = "max-lease-time" /\ Number(l) # Junk
                 THEN Number(l) ELSE config.max_lease_time
      <4>1. CASE ReadLeaseTime(l)
        BY <4>1 DEF ReadLeaseTime, TypeOK, Configs
      <4>2. CASE ~ ReadLeaseTime(l)
        <5>1. l.keyword \notin {"default-lease-time", "max-lease-time"}
          BY <3>3, <4>2 DEF ReadRange, ReadSubnet, ReadDnsServers, Skip
        <5> QED
          BY <3>2, <3>3, <5>1, OtherLines
      <4> QED
        BY <4>1, <4>2
    <3>6. PICK byDefault, atMost : /\ byDefault = config'.default_lease_time
                                   /\ atMost = config'.max_lease_time
      OBVIOUS
    <3>7. AsNamed(byDefault, "default-lease-time")'
      <4>1. PICK old : old = config.default_lease_time
        OBVIOUS
      <4>2. AsNamed(old, "default-lease-time")
        BY <4>1 DEF LeaseAsNamed, AsNamed
      <4>3. byDefault = IF /\ file[read + 1].keyword = "default-lease-time"
                       /\ Number(file[read + 1]) # Junk
                     THEN Number(file[read + 1]) ELSE old
        BY <3>1, <3>5, <3>6, <4>1
      <4> QED
        BY <3>4, <4>2, <4>3, OneLineMore
    <3>8. AsNamed(atMost, "max-lease-time")'
      <4>1. PICK old : old = config.max_lease_time
        OBVIOUS
      <4>2. AsNamed(old, "max-lease-time")
        BY <4>1 DEF LeaseAsNamed, AsNamed
      <4>3. atMost = IF /\ file[read + 1].keyword = "max-lease-time"
                       /\ Number(file[read + 1]) # Junk
                     THEN Number(file[read + 1]) ELSE old
        BY <3>1, <3>5, <3>6, <4>1
      <4> QED
        BY <3>4, <4>2, <4>3, OneLineMore
    <3> QED
      BY <3>6, <3>7, <3>8 DEF LeaseAsNamed, AsNamed
  <2>2. CASE EndOfFile \/ CannotOpen \/ UNCHANGED vars
    <3>1. file' = file /\ read' = read /\ config' = config
      BY <2>2 DEF EndOfFile, CannotOpen, vars
    <3> QED
      BY <3>1 DEF LeaseAsNamed, AsNamed, Named, Number
  <2> QED
    BY <2>1, <2>2 DEF Next, Rest
<1> QED
  BY <1>1, <1>2, TypeCorrect, PTL DEF Spec
=============================================================================
