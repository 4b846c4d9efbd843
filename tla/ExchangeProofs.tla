--------------------------- MODULE ExchangeProofs ----------------------------
(***************************************************************************)
(* Proofs about Exchange: what a receiver reads in a message that the      *)
(* proxy has committed, and from that and the lemmas on the parsers the    *)
(* inductive invariant of the exchange.                                    *)
(***************************************************************************)
EXTENDS Exchange, HttpProofs, FiniteSetTheorems

-----------------------------------------------------------------------------
(* The meaning of a message in chunks.                                     *)

(* The types of what has been read.                                        *)
LEMMA ReadingFields ==
  ASSUME NEW r \in Reading
  PROVE  r.body \in Text /\ r.rest \in Text /\ r.whole \in BOOLEAN
BY DEF Reading

(* The length of one text after another.                                   *)
LEMMA JoinLength ==
  ASSUME NEW s \in Text, NEW t \in Text
  PROVE  /\ s \o t \in Text /\ Len(s) \in Nat /\ Len(t) \in Nat
         /\ Len(s \o t) = Len(s) + Len(t)
BY TextJoin

(* Of a text between two others.                                           *)
LEMMA MiddlePart ==
  ASSUME NEW l \in Text, NEW c \in Text, NEW t \in Text
  PROVE  SubSeq(l \o (c \o t), Len(l) + 1, Len(l) + Len(c)) = c
<1>1. PICK i \in Nat, k \in Nat, s \in Text, n \in Nat :
        /\ i = Len(l) /\ k = Len(c) /\ s = l \o (c \o t) /\ n = i + k
        /\ \A x \in 1..k : s[i + x] = c[x]
        /\ n <= Len(s)
  <2>1. Between(l, c, t)
    BY TextBetween
  <2>2. PICK i \in Nat, k \in Nat, n \in Nat : i = Len(l) /\ k = Len(c) /\ n = i + k
    BY LenProperties DEF Text
  <2>3. PICK s \in Text : s = l \o (c \o t) /\ \A x \in 1..k : s[i + x] = c[x]
    BY <2>1, <2>2 DEF Between
  <2>4. PICK a \in Text : a = c \o t
    BY TextJoin
  <2>5. Len(a) = Len(c) + Len(t) /\ Len(t) \in Nat
    BY <2>4, JoinLength
  <2>6. Len(s) = Len(l) + Len(a)
    BY <2>3, <2>4, JoinLength
  <2>7. n <= Len(s)
    BY <2>2, <2>5, <2>6
  <2> QED
    BY <2>2, <2>3, <2>7
<1>2. PICK first : first = i + 1 /\ first \in Nat
  OBVIOUS
<1>3. /\ SubSeq(s, first, n) \in Text /\ Len(SubSeq(s, first, n)) = k
      /\ \A x \in 1..k : SubSeq(s, first, n)[x] = s[i + x]
  <2>1. \A x \in first..n : s[x] \in Symbol
    <3>1. \A x \in first..n : x \in 1..Len(s)
      BY <1>1, <1>2, LenProperties DEF Text
    <3> QED
      BY <3>1, ElementOfSeq DEF Text
  <2>2. /\ SubSeq(s, first, n) \in Seq(Symbol)
        /\ Len(SubSeq(s, first, n)) = IF first <= n THEN n - first + 1 ELSE 0
        /\ \A x \in 1..(n - first + 1) : SubSeq(s, first, n)[x] = s[first + x - 1]
    BY <1>2, <2>1, SubSeqProperties
  <2>3. n - first + 1 = k /\ \A x \in 1..k : first + x - 1 = i + x
    BY <1>1, <1>2
  <2>4. \A x \in 1..k : SubSeq(s, first, n)[x] = s[i + x]
    BY <2>2, <2>3
  <2>5. Len(SubSeq(s, first, n)) = k
    BY <1>1, <1>2, <2>2
  <2> QED
    BY <2>2, <2>4, <2>5 DEF Text
<1>4. PICK v \in Text : v = SubSeq(s, first, n)
  BY <1>3
<1>5. Len(v) = Len(c) /\ \A x \in 1..Len(v) : v[x] = c[x]
  BY <1>1, <1>3, <1>4, ZenonT(30)
<1>6. v = c
  BY <1>5, TextEqual
<1> QED
  BY <1>1, <1>2, <1>4, <1>6

(* A chunk that is here is read.                                           *)
LEMMA DechunkOne ==
  ASSUME NEW r \in Reading, ~r.whole, NEW p \in Text, NEW z \in Text,
         r.rest = Chunk(p) \o z
  PROVE  DechunkStep(r) = [body |-> r.body \o p, rest |-> z, whole |-> Len(p) = 0]
<1>1. PICK k \in Nat : k = Len(p)
  BY LenProperties DEF Text
<1>2. PICK c \in Text, num \in Text :
        /\ c = CRLF /\ Len(c) = 2
        /\ num = <<Num(k)>> /\ Len(num) = 1 /\ num[1] = Num(k)
  BY Symbols, NumberAlone
<1>3. PICK cz \in Text : cz = c \o z
  BY TextJoin
<1>4. PICK pcz \in Text : pcz = p \o cz
  BY TextJoin
<1>5. PICK y \in Text : y = c \o pcz
  BY TextJoin
<1>6. PICK s \in Text : s = r.rest /\ s = num \o y
  <2>1. Chunk(p) \o z = <<Num(Len(p))>> \o (CRLF \o (p \o (CRLF \o z)))
    BY ChunkParts
  <2> QED
    BY <1>1, <1>2, <1>3, <1>4, <1>5, <2>1, ReadingFields
<1>7. PICK l \in Text : l = num \o c /\ Len(l) = 3
  <2>1. num \o c \in Text /\ Len(num \o c) = Len(num) + Len(c)
    BY JoinLength
  <2>2. Len(num \o c) = 3
    BY <1>2, <2>1
  <2> QED
    BY <2>1, <2>2
<1>8. s = l \o (p \o cz)
  <2>1. Between(num, c, pcz)
    BY TextBetween
  <2> QED
    BY <1>4, <1>5, <1>6, <1>7, <2>1 DEF Between
<1>9. SubSeq(s, 4, k + 3) = p
  <2>1. SubSeq(l \o (p \o cz), Len(l) + 1, Len(l) + Len(p)) = p
    BY MiddlePart
  <2>2. Len(l) + 1 = 4 /\ Len(l) + Len(p) = k + 3
    BY <1>1, <1>7
  <2> QED
    BY <1>8, <2>1, <2>2
<1>10. PICK ch \in Text : ch = Chunk(p) /\ Len(ch) = k + 5
  <2>1. PICK lp \in Text : lp = l \o p /\ Len(lp) = 3 + k
    <3>1. l \o p \in Text /\ Len(l \o p) = Len(l) + Len(p)
      BY JoinLength
    <3> QED
      BY <1>1, <1>7, <3>1
  <2>2. lp \o c \in Text /\ Len(lp \o c) = Len(lp) + Len(c)
    BY JoinLength
  <2>3. Chunk(p) = lp \o c
    BY <1>1, <1>2, <1>7, <2>1 DEF Chunk
  <2>4. Len(lp \o c) = k + 5
    BY <1>2, <2>1, <2>2
  <2> QED
    BY <2>2, <2>3, <2>4
<1>11. k + 5 <= Len(s) /\ From(s, k + 5) = z
  <2>1. s = ch \o z
    BY <1>6, <1>10
  <2>2. Len(ch \o z) = Len(ch) + Len(z) /\ Len(z) \in Nat
    BY TextJoin
  <2>3. Len(ch) <= Len(s)
    BY <1>10, <2>1, <2>2
  <2>4. PICK e \in Text : e = <<>>
    BY Symbols
  <2>5. s \o e = ch \o z
    BY <2>1, <2>4, ConcatEmptySeq DEF Text
  <2>6. Divided(s, e, ch, z)
    BY <2>3, <2>5, SplitAt
  <2>7. PICK w \in Text : w = From(s, Len(ch)) /\ w \o e = z
    BY <2>6 DEF Divided
  <2>8. w = z
    BY <2>4, <2>7, ConcatEmptySeq DEF Text
  <2> QED
    BY <1>10, <2>3, <2>7, <2>8
<1>12. Find(s, CRLF) = 1
  <2>1. PICK e \in Text : e = <<>>
    BY Symbols
  <2>2. s # <<>>
    <3>1. Len(s) # 0
      BY <1>1, <1>11
    <3> QED
      BY <3>1
  <2>3. s \o e = <<Num(k)>> \o (CRLF \o pcz)
    BY <1>2, <1>5, <1>6, <2>1, ConcatEmptySeq DEF Text
  <2>4. SizeRead(s, e, k, pcz)
    BY <2>2, <2>3, NextSize
  <2>5. Len(s) >= 3
    BY <1>11, LenProperties DEF Text
  <2> QED
    BY <2>4, <2>5 DEF SizeRead
<1>13. s[1][2] = k
  <2>1. PICK one \in Nat : one = 1 /\ one \in 1..Len(num)
    BY <1>2
  <2>2. (num \o y)[one] = num[one]
    BY <2>1, TextJoin
  <2>3. s[1] = Num(k)
    BY <1>2, <1>6, <2>1, <2>2
  <2> QED
    BY <2>3 DEF Num
<1>14. ~(Len(s) < k + 5)
  BY <1>11, LenProperties DEF Text
<1> QED
  BY <1>1, <1>6, <1>9, <1>11, <1>12, <1>13, <1>14 DEF DechunkStep

(* The loop over chunks ends.                                              *)
LEMMA DechunkStepType ==
  ASSUME NEW r \in Reading
  PROVE  /\ DechunkStep(r) \in Reading
         /\ DechunkStep(r) # r => Len(DechunkStep(r).rest) < Len(r.rest)
<1>1. PICK s \in Text, n \in {DechunkStep(r)} : s = r.rest /\ n = DechunkStep(r)
  BY ReadingFields
<1>2. CASE n = r
  BY <1>1, <1>2
<1>3. CASE n # r
  <2>1. PICK size : size = s[1][2]
    OBVIOUS
  <2>2. /\ Find(s, CRLF) = 1 /\ ~(Len(s) < size + 5)
        /\ n = [body |-> r.body \o SubSeq(s, 4, size + 3),
                rest |-> From(s, size + 5), whole |-> size = 0]
    BY <1>1, <1>3, <2>1 DEF DechunkStep
  <2>3. size \in Nat
    <3>1. 1 + 2 <= Len(s)
      BY <2>2, FindLineEnd, SMTT(30) DEF LineEndAt
    <3>2. 1 \in 1..Len(s)
      BY <3>1, LenProperties DEF Text
    <3>3. s[1] \in Symbol
      BY <3>2, ElementOfSeq DEF Text
    <3> QED
      BY <2>1, <3>3 DEF Symbol
  <2>4. PICK k \in Nat, last \in Nat, len \in Nat :
          /\ k = size + 5 /\ last = size + 3 /\ len = Len(s)
          /\ k > 0 /\ k <= len /\ last <= len
    <3>1. PICK len \in Nat : len = Len(s)
      BY LenProperties DEF Text
    <3>2. PICK k \in Nat, last \in Nat : k = size + 5 /\ last = size + 3 /\ k > 0 /\ last <= k
      BY <2>3
    <3>3. k <= len
      BY <2>2, <3>1, <3>2
    <3> QED
      BY <3>1, <3>2, <3>3
  <2>5. From(s, k) \in Text /\ Len(From(s, k)) = len - k
    BY <2>4, TextParts
  <2>6. SubSeq(s, 4, last) \in Text
    <3>1. \A i \in 4..last : s[i] \in Symbol
      <4>1. \A i \in 4..last : i \in 1..Len(s)
        BY <2>4
      <4> QED
        BY <4>1, ElementOfSeq DEF Text
    <3>2. PICK four \in Nat : four = 4
      OBVIOUS
    <3>3. SubSeq(s, four, last) \in Seq(Symbol)
      BY <3>1, <3>2, SubSeqProperties
    <3> QED
      BY <3>2, <3>3 DEF Text
  <2>7. PICK b \in Text : b = r.body \o SubSeq(s, 4, last)
    BY <2>6, ReadingFields, JoinLength
  <2>8. PICK v \in Text, w \in BOOLEAN :
          v = From(s, k) /\ w = (size = 0) /\ Len(v) < len
    <3>1. PICK v \in Text, w \in BOOLEAN : v = From(s, k) /\ w = (size = 0)
      BY <2>5
    <3>2. Len(v) < len
      BY <2>4, <2>5, <3>1
    <3> QED
      BY <3>1, <3>2
  <2>9. n = [body |-> b, rest |-> v, whole |-> w]
    BY <2>2, <2>4, <2>7, <2>8
  <2> QED
    BY <1>1, <2>4, <2>8, <2>9 DEF Reading
<1> QED
  BY <1>2, <1>3

(* The reading of chunks stays in every set that is closed under a step of *)
(* it, and stops where a step changes nothing.                             *)
LEMMA DechunkRun ==
  ASSUME NEW T \in SUBSET Reading, \A r \in T : DechunkStep(r) \in T, NEW r \in T
  PROVE  Dechunk[r] \in T /\ DechunkStep(Dechunk[r]) = Dechunk[r]
<1> DEFINE F == [x \in Reading |-> DechunkStep(x)]
           size == [x \in Reading |-> Len(x.rest)]
<1>1. F \in [Reading -> Reading] /\ size \in [Reading -> Nat]
  BY DechunkStepType, ReadingFields, LenProperties DEF Text
<1>2. \A x \in Reading : F[x] # x => size[F[x]] < size[x]
  BY DechunkStepType
<1>3. \A x \in T : F[x] \in T
  OBVIOUS
<1>4. \A h : Loop(Reading, F, h) <=>
        h = [x \in Reading |-> IF DechunkStep(x) = x THEN x ELSE h[DechunkStep(x)]]
  <2>1. SUFFICES ASSUME NEW h
                 PROVE  [x \in Reading |-> IF F[x] = x THEN x ELSE h[F[x]]]
                        = [x \in Reading |-> IF DechunkStep(x) = x THEN x
                                             ELSE h[DechunkStep(x)]]
    BY DEF Loop
  <2>2. \A x \in Reading : (IF F[x] = x THEN x ELSE h[F[x]])
                           = IF DechunkStep(x) = x THEN x ELSE h[DechunkStep(x)]
    OBVIOUS
  <2> QED
    BY <2>2
<1>5. \E h : Loop(Reading, F, h)
  <2> HIDE DEF F
  <2> QED
    BY <1>1, LoopExists
<1>6. Dechunk = [x \in Reading |-> IF DechunkStep(x) = x THEN x
                                   ELSE Dechunk[DechunkStep(x)]]
  <2>1. \E h : h = [x \in Reading |-> IF DechunkStep(x) = x THEN x
                                      ELSE h[DechunkStep(x)]]
    BY <1>4, <1>5
  <2> QED
    BY <2>1 DEF Dechunk
<1>7. Loop(Reading, F, Dechunk)
  BY <1>4, <1>6
<1>8. Dechunk[r] \in T /\ F[Dechunk[r]] = Dechunk[r]
  <2> HIDE DEF F, size
  <2> QED
    BY <1>1, <1>2, <1>3, <1>7, LoopEnds
<1> QED
  BY <1>8

(* A receiver on its way to the body.                                      *)
Dechunking(r, body) ==
  /\ r \in Reading
  /\ \/ r.whole /\ r.body = body
     \/ /\ ~r.whole
        /\ \E P \in Seq(Part), j \in Text :
             /\ r.rest = ChunksText(P) \o (LastChunk \o j)
             /\ r.body \o FlattenSeq(P) = body

(* A step keeps it on its way, and changes something until it is there.    *)
LEMMA DechunkStepOn ==
  ASSUME NEW r, NEW body \in Text, Dechunking(r, body)
  PROVE  /\ Dechunking(DechunkStep(r), body)
         /\ ~r.whole => DechunkStep(r) # r
<1>1. r \in Reading /\ DechunkStep(r) \in Reading
  BY DechunkStepType DEF Dechunking
<1>2. CASE r.whole
  <2>1. DechunkStep(r) = r
    BY <1>2 DEF DechunkStep
  <2> QED
    BY <1>2, <2>1
<1>3. CASE ~r.whole
  <2>1. PICK b \in Text, s \in Text : b = r.body /\ s = r.rest
    BY <1>1, ReadingFields
  <2>2. PICK P \in Seq(Part), j \in Text :
          s = ChunksText(P) \o (LastChunk \o j) /\ b \o FlattenSeq(P) = body
    BY <1>3, <2>1 DEF Dechunking
  <2>3. PICK lj \in Text : lj = LastChunk \o j
    BY LastChunkParts, JoinLength DEF LastChunkText
  <2>4. CASE P = <<>>
    <3>1. ChunksText(P) = <<>> /\ FlattenSeq(P) = <<>>
      BY <2>4, ChunksParts, Symbols DEF FlattenSeq
    <3>2. s = Chunk(<<>>) \o j
      BY <2>2, <2>3, <3>1, EmptyChunk, ConcatEmptySeq DEF Text
    <3>3. b \o <<>> = b
      BY ConcatEmptySeq DEF Text
    <3>4. DechunkStep(r) = [body |-> b, rest |-> j, whole |-> TRUE]
      <4>1. PICK e \in Text : e = <<>> /\ Len(e) = 0
        BY Symbols
      <4>2. r.rest = Chunk(e) \o j
        BY <2>1, <3>2, <4>1
      <4>3. DechunkStep(r) = [body |-> r.body \o e, rest |-> j, whole |-> Len(e) = 0]
        BY <1>1, <1>3, <4>2, DechunkOne
      <4> QED
        BY <2>1, <3>3, <4>1, <4>3
    <3>5. b = body
      BY <2>2, <3>1, <3>3
    <3> QED
      BY <1>1, <1>3, <3>4, <3>5 DEF Dechunking
  <2>5. CASE P # <<>>
    <3>1. PICK p \in Text, Q \in Seq(Part) :
            /\ p = Head(P) /\ Q = Tail(P) /\ p # <<>>
            /\ ChunksText(P) = Chunk(p) \o ChunksText(Q)
      BY <2>5, ChunksParts DEF Part
    <3>2. PICK ch \in Text, x \in Text : ch = Chunk(p) /\ x = ChunksText(Q)
      BY <3>1, Symbols, ChunkParts, ChunksParts
    <3>3. PICK z \in Text : z = x \o lj
      BY JoinLength
    <3>4. s = Chunk(p) \o z
      <4>1. Between(ch, x, lj)
        BY TextBetween
      <4> QED
        BY <2>2, <2>3, <3>1, <3>2, <3>3, <4>1 DEF Between
    <3>5. PICK d \in Text : d = b \o p
      BY JoinLength
    <3>6. Len(p) # 0
      BY <3>1, EmptySeq DEF Text
    <3>7. DechunkStep(r) = [body |-> d, rest |-> z, whole |-> FALSE]
      <4>1. r.rest = Chunk(p) \o z
        BY <2>1, <3>4
      <4>2. DechunkStep(r) = [body |-> r.body \o p, rest |-> z, whole |-> Len(p) = 0]
        BY <1>1, <1>3, <4>1, DechunkOne
      <4> QED
        BY <2>1, <3>5, <3>6, <4>2
    <3>8. d \o FlattenSeq(Q) = body
      <4>1. P \in Seq(Text) /\ Q \in Seq(Text)
        BY DEF Part
      <4>2. PICK f \in Text : f = FlattenSeq(Q)
        BY <4>1, Flatten
      <4>3. FlattenSeq(P) = p \o f
        BY <2>5, <3>1, <4>1, <4>2, Flatten
      <4>4. Between(b, p, f)
        BY TextBetween
      <4> QED
        BY <2>2, <3>5, <4>2, <4>3, <4>4 DEF Between
    <3>9. Dechunking(DechunkStep(r), body)
      <4>1. PICK n \in Reading : n = DechunkStep(r) /\ n.body = d /\ n.rest = z /\ ~n.whole
        BY <1>1, <3>7
      <4>2. n.rest = ChunksText(Q) \o (LastChunk \o j)
        BY <2>3, <3>2, <3>3, <4>1
      <4> QED
        BY <3>8, <4>1, <4>2 DEF Dechunking
    <3>10. DechunkStep(r) # r
      <4>1. Len(z) < Len(s)
        <5>1. Len(ch \o z) = Len(ch) + Len(z) /\ Len(z) \in Nat /\ Len(ch) \in Nat
          BY JoinLength
        <5>2. Len(ch) # 0
          <6>1. ch = <<Num(Len(p))>> \o (CRLF \o (p \o (CRLF \o <<>>)))
            <7>1. ch \o <<>> = ch
              BY ConcatEmptySeq DEF Text
            <7> QED
              BY <3>2, <7>1, Symbols, ChunkParts
          <6>2. PICK num \in Text, y \in Text :
                  /\ num = <<Num(Len(p))>> /\ Len(num) = 1
                  /\ y = CRLF \o (p \o (CRLF \o <<>>))
            <7>1. Len(p) \in Nat
              BY LenProperties DEF Text
            <7> QED
              BY <7>1, NumberAlone, Symbols, JoinLength
          <6>3. Len(num \o y) = Len(num) + Len(y) /\ Len(y) \in Nat
            BY JoinLength
          <6> QED
            BY <6>1, <6>2, <6>3
        <5> QED
          BY <3>2, <3>4, <5>1, <5>2
      <4> QED
        BY <2>1, <3>7, <4>1
    <3> QED
      BY <3>9, <3>10
  <2> QED
    BY <2>4, <2>5
<1> QED
  BY <1>2, <1>3

(* What EncodeChunks writes is text.                                       *)
LEMMA EncodedType ==
  ASSUME NEW body \in Text
  PROVE  EncodeChunks(body) \in Text
<1>1. PICK P \in Seq(Part), j \in Text :
        EncodeChunks(body) = ChunksText(P) \o (LastChunk \o j)
  BY EncodeChunksText
<1>2. ChunksText(P) \in Text /\ LastChunk \in Text
  BY ChunksParts, LastChunkParts DEF LastChunkText
<1>3. LastChunk \o j \in Text
  BY <1>2, JoinLength
<1> QED
  BY <1>1, <1>2, <1>3, JoinLength

(* Chunks mean the body that has been put into them.                       *)
LEMMA DechunkEncoded ==
  ASSUME NEW body \in Text
  PROVE  LET r == Dechunk[[body |-> <<>>, rest |-> EncodeChunks(body), whole |-> FALSE]]
         IN  r.whole /\ r.body = body
<1>1. PICK P \in Seq(Part), j \in Text :
        /\ EncodeChunks(body) = ChunksText(P) \o (LastChunk \o j)
        /\ FlattenSeq(P) = body
  BY EncodeChunksText
<1>2. PICK s \in Text : s = EncodeChunks(body)
  BY EncodedType
<1>3. PICK r \in Reading : r = [body |-> <<>>, rest |-> s, whole |-> FALSE]
  BY Symbols DEF Reading
<1>4. <<>> \o body = body
  BY ConcatEmptySeq DEF Text
<1>5. Dechunking(r, body)
  BY <1>1, <1>2, <1>3, <1>4 DEF Dechunking
<1> DEFINE T == {x \in Reading : Dechunking(x, body)}
<1>6. r \in T /\ \A x \in T : DechunkStep(x) \in T
  BY <1>5, DechunkStepOn, DechunkStepType
<1>7. Dechunk[r] \in T /\ DechunkStep(Dechunk[r]) = Dechunk[r]
  <2> HIDE DEF T
  <2>1. T \in SUBSET Reading
    BY DEF T
  <2> QED
    BY <1>6, <2>1, DechunkRun
<1>8. PICK d : d = Dechunk[r] /\ Dechunking(d, body) /\ DechunkStep(d) = d
  BY <1>7
<1>9. d.whole
  BY <1>8, DechunkStepOn
<1>10. d.body = body
  BY <1>8, <1>9 DEF Dechunking
<1> QED
  BY <1>2, <1>3, <1>8, <1>9, <1>10

-----------------------------------------------------------------------------
(* The texts that client and origin write.                                 *)

(* A first line, header lines and a body.                                  *)
LEMMA HeadTextIs ==
  ASSUME NEW title \in Text, NEW hs \in Seq(Line), NEW after \in Text
  PROVE  /\ Lines(hs) \o (CRLF \o after) \in Text
         /\ HeadText(title, hs) \o after
              = title \o (CRLF \o (Lines(hs) \o (CRLF \o after)))
<1>1. PICK c \in Text, ls \in Text : c = CRLF /\ ls = Lines(hs)
  BY Symbols, LinesParts
<1>2. FlattenSeq([i \in 1..Len(hs) |-> hs[i] \o CRLF]) = ls
  <2>1. \A i \in 1..Len(hs) : LineText[hs[i]] = hs[i] \o CRLF
    <3>1. \A i \in 1..Len(hs) : hs[i] \in Line
      BY ElementOfSeq
    <3> QED
      BY <3>1 DEF LineText
  <2>2. Mapped(hs, LineText) = [i \in 1..Len(hs) |-> hs[i] \o CRLF]
    BY <2>1 DEF Mapped
  <2> QED
    BY <1>1, <2>2 DEF Lines
<1>3. PICK tc \in Text : tc = title \o c
  BY JoinLength
<1>4. PICK tl \in Text : tl = tc \o ls
  BY JoinLength
<1>5. HeadText(title, hs) = tl \o c
  BY <1>1, <1>2, <1>3, <1>4 DEF HeadText
<1>6. PICK x \in Text : x = c \o after
  BY JoinLength
<1>7. PICK t \in Text : t = ls \o x
  BY JoinLength
<1>8. Between(tl, c, after) /\ Between(tc, ls, x) /\ Between(title, c, t)
  BY TextBetween
<1>9. (tl \o c) \o after = tl \o x
  BY <1>6, <1>8 DEF Between
<1>10. tl \o x = tc \o t
  BY <1>4, <1>7, <1>8 DEF Between
<1>11. tc \o t = title \o (c \o t)
  BY <1>3, <1>8 DEF Between
<1> QED
  BY <1>1, <1>5, <1>6, <1>7, <1>9, <1>10, <1>11

(* Three words with spaces between them.                                   *)
LEMMA TitleParts ==
  ASSUME NEW a \in Text, NEW b \in Text, NEW d \in Text
  PROVE  /\ a \o (<<SP>> \o (b \o (<<SP>> \o d))) \in Text
         /\ (((a \o <<SP>>) \o b) \o <<SP>>) \o d = a \o (<<SP>> \o (b \o (<<SP>> \o d)))
<1>1. PICK c \in Text : c = <<SP>>
  BY Symbols
<1>2. PICK ac \in Text : ac = a \o c
  BY JoinLength
<1>3. PICK acb \in Text : acb = ac \o b
  BY JoinLength
<1>4. PICK cd \in Text : cd = c \o d
  BY JoinLength
<1>5. PICK bcd \in Text : bcd = b \o cd
  BY JoinLength
<1>6. PICK cbcd \in Text : cbcd = c \o bcd
  BY JoinLength
<1>7. Between(acb, c, d) /\ Between(ac, b, cd) /\ Between(a, c, bcd)
  BY TextBetween
<1>8. (acb \o c) \o d = acb \o cd
  BY <1>4, <1>7 DEF Between
<1>9. acb \o cd = ac \o bcd
  BY <1>3, <1>5, <1>7 DEF Between
<1>10. ac \o bcd = a \o cbcd /\ a \o cbcd \in Text
  BY <1>2, <1>6, <1>7 DEF Between
<1> QED
  BY <1>1, <1>2, <1>3, <1>4, <1>5, <1>6, <1>8, <1>9, <1>10

(* What the parsers are to know of the header lines.                       *)
LEMMA HeadingsMean ==
  ASSUME NEW hs, NEW length, Headings(hs, length)
  PROVE  /\ hs \in Seq(Line) /\ Measured(ToSet(hs), length)
         /\ \A name : Named(ToSet(hs), name) <=> name \in Names(hs)
<1>1. hs \in Seq(Line) /\ ToSet(hs) = {hs[i] : i \in 1..Len(hs)}
  BY LenProperties DEF Headings, ToSet
<1>2. \A i \in 1..Len(hs) : hs[i] # <<>>
  BY <1>1, ElementOfSeq DEF Line
<1>3. Measured(ToSet(hs), length)
  BY <1>1 DEF Headings, Measured
<1>4. \A name : Named(ToSet(hs), name) <=> name \in Names(hs)
  BY <1>1, <1>2 DEF Named, Names
<1> QED
  BY <1>1, <1>3, <1>4

(* A request of the client, and its text.                                  *)
RequestParts(q, s1, t) ==
  /\ q.title \in Word \X Word \X Word /\ Len(q.title[3]) > 1
  /\ q.body \in Text /\ q.headers \in Seq(Line)
  /\ Measured(ToSet(q.headers), Len(q.body))
  /\ Named(ToSet(q.headers), "Content-Length") \/ q.body = <<>>
  /\ ~Named(ToSet(q.headers), "Transfer-Encoding")
  /\ s1 \in Junk /\ t \in Text
  /\ s1 = RequestLine(q) /\ t = Lines(q.headers) \o (CRLF \o q.body)
  /\ s1 = q.title[1] \o (<<SP>> \o (q.title[2] \o (<<SP>> \o q.title[3])))
  /\ q.title[2] \o (<<SP>> \o q.title[3]) \in Junk
  /\ RequestText(q) \in Text /\ RequestText(q) = s1 \o (CRLF \o t)

(* Every request of the client has these parts.                            *)
LEMMA RequestIs ==
  ASSUME NEW q \in Requests
  PROVE  \E s1, t : RequestParts(q, s1, t)
<1>1. /\ q \in [title : Word \X Word \X Word, headers : Seq(Line), body : Text]
      /\ Len(q.title[3]) > 1
      /\ Headings(q.headers, Len(q.body))
      /\ "Transfer-Encoding" \notin Names(q.headers)
      /\ "Content-Length" \in Names(q.headers) \/ q.body = <<>>
  BY RequestsAssumption
<1>2. PICK w1 \in Word, w2 \in Word, w3 \in Word :
        q.title[1] = w1 /\ q.title[2] = w2 /\ q.title[3] = w3
  BY <1>1
<1>3. w1 \in Junk /\ w2 \in Junk /\ w3 \in Junk
  BY WordIsJunk
<1>4. PICK s2 \in Junk : s2 = w2 \o (<<SP>> \o w3)
  BY <1>3, JunkJoin
<1>5. PICK s1 \in Junk : s1 = w1 \o (<<SP>> \o s2)
  BY <1>3, JunkJoin
<1>6. s1 \in Text /\ w1 \in Text /\ w2 \in Text /\ w3 \in Text
  BY <1>3, JunkIsLine
<1>7. s1 = RequestLine(q)
  <2>1. RequestLine(q) = (((w1 \o <<SP>>) \o w2) \o <<SP>>) \o w3
    BY <1>2 DEF RequestLine
  <2>2. (((w1 \o <<SP>>) \o w2) \o <<SP>>) \o w3
        = w1 \o (<<SP>> \o (w2 \o (<<SP>> \o w3)))
    BY <1>6, TitleParts
  <2> QED
    BY <1>4, <1>5, <2>1, <2>2
<1>8. PICK body \in Text, hs \in Seq(Line) : body = q.body /\ hs = q.headers
  BY <1>1
<1>9. PICK t \in Text : /\ t = Lines(hs) \o (CRLF \o body)
                        /\ HeadText(s1, hs) \o body = s1 \o (CRLF \o t)
  <2>1. /\ Lines(hs) \o (CRLF \o body) \in Text
        /\ HeadText(s1, hs) \o body = s1 \o (CRLF \o (Lines(hs) \o (CRLF \o body)))
    BY <1>6, HeadTextIs
  <2> QED
    BY <2>1
<1>10. RequestText(q) = s1 \o (CRLF \o t)
  BY <1>7, <1>8, <1>9 DEF RequestText
<1>11. s1 \o (CRLF \o t) \in Text
  <2>1. CRLF \o t \in Text
    BY Symbols, JoinLength
  <2> QED
    BY <1>6, <2>1, JoinLength
<1>12. /\ Measured(ToSet(q.headers), Len(q.body))
       /\ Named(ToSet(q.headers), "Content-Length") \/ q.body = <<>>
       /\ ~Named(ToSet(q.headers), "Transfer-Encoding")
  BY <1>1, HeadingsMean
<1> QED
  BY <1>1, <1>2, <1>4, <1>5, <1>7, <1>8, <1>9, <1>10, <1>11, <1>12 DEF RequestParts

(* The first piece of a request.                                           *)
LEMMA FirstPieceOfRequest ==
  ASSUME NEW q \in Requests, NEW data \in Text, data # <<>>, NEW rest \in Text,
         data \o rest = RequestText(q)
  PROVE  FirstRead(AppendRequest(NewMessage, data), q.title, ToSet(q.headers),
                   data, rest, Len(RequestLine(q)) + 2, q.body)
<1>1. PICK s1, t : RequestParts(q, s1, t)
  BY RequestIs
<1>2. PICK w1 \in Word, w2 \in Word, w3 \in Word :
        /\ q.title = <<w1, w2, w3>> /\ Len(w3) > 1
        /\ q.title[1] = w1 /\ q.title[2] = w2 /\ q.title[3] = w3
  <2>1. PICK title : title = q.title
    OBVIOUS
  <2>2. title \in Word \X Word \X Word /\ Len(title[3]) > 1
    BY <1>1, <2>1 DEF RequestParts
  <2>3. PICK w1 \in Word, w2 \in Word, w3 \in Word : title = <<w1, w2, w3>>
    BY <2>2
  <2>4. title[1] = w1 /\ title[2] = w2 /\ title[3] = w3
    BY <2>3
  <2> QED
    BY <2>1, <2>2, <2>3, <2>4
<1>3. PICK s2 \in Junk : s2 = w2 \o (<<SP>> \o w3)
  BY <1>1, <1>2 DEF RequestParts
<1>4. PICK hs \in Seq(Line), whole \in Text : hs = q.headers /\ whole = q.body
  BY <1>1 DEF RequestParts
<1>5. /\ s1 \in Junk /\ t \in Text /\ s1 = RequestLine(q)
      /\ s1 = w1 \o (<<SP>> \o s2) /\ t = Lines(hs) \o (CRLF \o whole)
      /\ data \o rest = s1 \o (CRLF \o t)
      /\ Measured(ToSet(hs), Len(whole))
      /\ Named(ToSet(hs), "Content-Length") \/ whole = <<>>
  BY <1>1, <1>2, <1>3, <1>4 DEF RequestParts
<1>6. FirstRead(AppendRequest(NewMessage, data), <<w1, w2, w3>>, ToSet(hs),
                data, rest, Len(s1) + 2, whole)
  BY <1>2, <1>3, <1>5, FirstOfRequest
<1> QED
  BY <1>2, <1>4, <1>5, <1>6

(* The line of a status, and the text of a response.                       *)
ResponseAfter(a) ==
  IF InChunks(a) THEN ChunksText(a.parts) \o LastChunk ELSE FlattenSeq(a.parts)

ResponseParts(a, r1, r2, t) ==
  /\ a.title = <<a.title[1], a.title[2]>> /\ a.title[1] \in Nat /\ a.title[2] \in Text
  /\ \A i \in 1..Len(a.title[2]) : a.title[2][i] # CR
  /\ a.headers \in Seq(Line) /\ FlattenSeq(a.parts) \in Text
  /\ ResponseAfter(a) \in Text
  /\ r1 \in Text /\ r2 \in Text /\ t \in Text
  /\ t = Lines(a.headers) \o (CRLF \o ResponseAfter(a))
  /\ r2 = a.title[2] \o (CRLF \o t)
  /\ r1 = <<Num(a.title[1])>> \o (<<SP>> \o r2)
  /\ ResponseText(a) \in Text /\ ResponseText(a) = Version \o (<<SP>> \o r1)
  /\ Len(StatusLine(a)) + 2 = Len(Version) + 3 + Len(a.title[2]) + 2
  /\ AsItIs(ToSet(a.headers), ResponseAfter(a), FlattenSeq(a.parts))
       \/ InChunkForm(ToSet(a.headers), ResponseAfter(a), FlattenSeq(a.parts))

(* The number of a status, with a space on either side.                    *)
LEMMA StatusParts ==
  ASSUME NEW n \in Nat
  PROVE  /\ <<SP, Num(n), SP>> \in Text
         /\ <<SP, Num(n), SP>> = <<SP>> \o (<<Num(n)>> \o <<SP>>)
<1>1. Num(n) \in Symbol /\ SP \in Symbol
  BY Symbols DEF Num, Symbol
<1>2. PICK c \in Text, num \in Text :
        c = <<SP>> /\ Len(c) = 1 /\ c[1] = SP
        /\ num = <<Num(n)>> /\ Len(num) = 1 /\ num[1] = Num(n)
  BY Symbols, NumberAlone
<1>3. PICK s \in Text : /\ s = <<SP, Num(n), SP>> /\ Len(s) = 3
                        /\ s[1] = SP /\ s[2] = Num(n) /\ s[3] = SP
  <2>1. PICK x \in Symbol, y \in Symbol : x = SP /\ y = Num(n)
    BY <1>1
  <2>2. <<x, y, x>> \in Text
    BY DEF Text
  <2>3. /\ Len(<<x, y, x>>) = 3
        /\ <<x, y, x>>[1] = x /\ <<x, y, x>>[2] = y /\ <<x, y, x>>[3] = x
    OBVIOUS
  <2>4. PICK s \in Text : s = <<x, y, x>>
    BY <2>2
  <2> QED
    BY <2>1, <2>3, <2>4
<1>4. PICK one : one = 1 /\ one \in 1..Len(c) /\ one \in 1..Len(num)
  BY <1>2
<1>5. PICK nc \in Text : nc = num \o c /\ Len(nc) = 2 /\ nc[1] = Num(n) /\ nc[2] = SP
  <2>1. num \o c \in Text /\ Len(num \o c) = Len(num) + Len(c)
    BY JoinLength
  <2>2. (num \o c)[one] = num[one] /\ (num \o c)[Len(num) + one] = c[one]
    BY <1>4, TextJoin
  <2>3. Len(num) + one = 2 /\ Len(num) + Len(c) = 2
    BY <1>2, <1>4
  <2> QED
    BY <1>2, <1>4, <2>1, <2>2, <2>3
<1>6. PICK one2 \in 1..Len(nc), two \in 1..Len(nc) : one2 = 1 /\ two = 2
  BY <1>5
<1>7. PICK x \in Text : x = c \o nc /\ Len(x) = 3 /\ x[1] = SP /\ x[2] = Num(n) /\ x[3] = SP
  <2>1. c \o nc \in Text /\ Len(c \o nc) = Len(c) + Len(nc)
    BY JoinLength
  <2>2. /\ (c \o nc)[one] = c[one] /\ (c \o nc)[Len(c) + one2] = nc[one2]
        /\ (c \o nc)[Len(c) + two] = nc[two]
    BY <1>4, TextJoin
  <2>3. Len(c) + one2 = 2 /\ Len(c) + two = 3 /\ Len(c) + Len(nc) = 3
    BY <1>2, <1>5, <1>6
  <2>4. PICK x \in Text : x = c \o nc
    BY <2>1
  <2>5. Len(x) = 3
    BY <2>1, <2>3, <2>4
  <2>6. x[1] = SP /\ x[2] = Num(n) /\ x[3] = SP
    BY <1>2, <1>4, <1>5, <1>6, <2>2, <2>3, <2>4
  <2> QED
    BY <2>4, <2>5, <2>6
<1>8. \A i \in 1..Len(s) : s[i] = x[i]
  <2>1. \A i \in 1..Len(s) : i = 1 \/ i = 2 \/ i = 3
    BY <1>3
  <2> QED
    BY <1>3, <1>7, <2>1
<1>9. s = x
  BY <1>3, <1>7, <1>8, TextEqual
<1> QED
  BY <1>2, <1>3, <1>5, <1>7, <1>9

(* The body of a response stands in its text as it is, or in chunks.       *)
LEMMA ResponseBodyIs ==
  ASSUME NEW a \in Responses
  PROVE  /\ a.parts \in Seq(Part) /\ FlattenSeq(a.parts) \in Text
         /\ ResponseAfter(a) \in Text
         /\ \/ AsItIs(ToSet(a.headers), ResponseAfter(a), FlattenSeq(a.parts))
            \/ InChunkForm(ToSet(a.headers), ResponseAfter(a), FlattenSeq(a.parts))
<1>1. /\ a \in [title : Nat \X (Line \cup {<<>>}), headers : Seq(Line), parts : Seq(Text)]
      /\ \A i \in 1..Len(a.parts) : a.parts[i] # <<>>
      /\ Headings(a.headers, Len(FlattenSeq(a.parts)))
      /\ "Transfer-Encoding" \in Names(a.headers)
           => /\ <<Chunked>> \in ToSet(a.headers)
              /\ "Content-Length" \notin Names(a.headers)
      /\ \/ Names(a.headers) \cap {"Transfer-Encoding", "Content-Length"} # {}
         \/ a.parts = <<>>
  BY ResponsesAssumption
<1>2. a.parts \in Seq(Part)
  <2>1. PICK P \in Seq(Text), n \in Nat : P = a.parts /\ n = Len(P) /\ P = [i \in 1..n |-> P[i]]
    BY <1>1, LenProperties
  <2>2. \A i \in 1..n : P[i] \in Part
    BY <1>1, <2>1, ElementOfSeq DEF Part
  <2>3. P \in [1..n -> Part]
    BY <2>1, <2>2
  <2> QED
    BY <2>1, <2>3
<1>3. PICK P \in Seq(Part) : P = a.parts
  BY <1>2
<1>4. PICK whole \in Text : whole = FlattenSeq(P)
  <2>1. P \in Seq(Text)
    BY <1>1, <1>3
  <2> QED
    BY <2>1, Flatten
<1>5. PICK H : H = ToSet(a.headers)
  OBVIOUS
<1>6. /\ Measured(H, Len(whole))
      /\ \A name : Named(H, name) <=> name \in Names(a.headers)
  <2>1. Headings(a.headers, Len(whole))
    BY <1>1, <1>3, <1>4
  <2> QED
    BY <1>5, <2>1, HeadingsMean
<1>7. InChunks(a) <=> "Transfer-Encoding" \in Names(a.headers)
  <2>1. InChunks(a) => Named(H, "Transfer-Encoding")
    BY <1>5 DEF InChunks, Named, Chunked
  <2> QED
    BY <1>1, <1>6, <2>1 DEF InChunks
<1>8. CASE InChunks(a)
  <2>1. PICK after \in Text : after = ChunksText(P) \o LastChunk
    <3>1. ChunksText(P) \in Text /\ LastChunk \in Text
      BY ChunksParts, LastChunkParts DEF LastChunkText
    <3> QED
      BY <3>1, JoinLength
  <2>2. ResponseAfter(a) = after
    BY <1>3, <1>8, <2>1 DEF ResponseAfter
  <2>3. InChunkForm(H, after, whole)
    BY <1>1, <1>4, <1>6, <1>7, <1>8, <2>1 DEF InChunkForm
  <2> QED
    BY <1>2, <1>3, <1>4, <1>5, <2>2, <2>3
<1>9. CASE ~InChunks(a)
  <2>1. ResponseAfter(a) = whole
    BY <1>3, <1>4, <1>9 DEF ResponseAfter
  <2>2. AsItIs(H, whole, whole)
    <3>1. CASE "Content-Length" \in Names(a.headers)
      BY <1>6, <3>1 DEF AsItIs
    <3>2. CASE "Content-Length" \notin Names(a.headers)
      <4>1. P = <<>>
        BY <1>1, <1>3, <1>7, <1>9, <3>2
      <4>2. whole = <<>>
        BY <1>4, <4>1, Symbols DEF FlattenSeq
      <4> QED
        BY <1>6, <1>7, <1>9, <3>2, <4>2 DEF AsItIs
    <3> QED
      BY <3>1, <3>2
  <2> QED
    BY <1>2, <1>3, <1>4, <1>5, <2>1, <2>2
<1> QED
  BY <1>8, <1>9

(* The text of a response.                                                 *)
LEMMA ResponseIs ==
  ASSUME NEW a \in Responses
  PROVE  \E r1, r2, t : ResponseParts(a, r1, r2, t)
<1>1. /\ a \in [title : Nat \X (Line \cup {<<>>}), headers : Seq(Line), parts : Seq(Text)]
      /\ Version \in Word
  BY ResponsesAssumption
<1>2. PICK v \in Text, hs \in Seq(Line) : v = Version /\ hs = a.headers
  BY <1>1, WordIsJunk, JunkIsLine
<1>3. PICK n \in Nat, reason \in Text :
        /\ a.title = <<n, reason>> /\ a.title[1] = n /\ a.title[2] = reason
        /\ \A i \in 1..Len(reason) : reason[i] # CR
  <2>1. PICK title \in Nat \X (Line \cup {<<>>}) : title = a.title
    BY <1>1
  <2>2. PICK n \in Nat, reason \in Line \cup {<<>>} : title = <<n, reason>>
    BY <2>1
  <2>3. reason \in Text /\ \A i \in 1..Len(reason) : reason[i] # CR
    <3>1. CASE reason = <<>>
      BY <3>1, Symbols
    <3>2. CASE reason \in Line
      BY <3>2 DEF Line
    <3> QED
      BY <3>1, <3>2
  <2>4. title[1] = n /\ title[2] = reason
    BY <2>2
  <2> QED
    BY <2>1, <2>2, <2>3, <2>4
<1>4. PICK after \in Text : after = ResponseAfter(a)
  BY ResponseBodyIs
<1>5. PICK c \in Text, num \in Text, crlf \in Text, line \in Text :
        /\ c = <<SP>> /\ Len(c) = 1 /\ num = <<Num(n)>> /\ Len(num) = 1
        /\ crlf = CRLF /\ line = v \o (<<SP, Num(n), SP>> \o reason)
  <2>1. <<SP, Num(n), SP>> \in Text
    BY StatusParts
  <2>2. <<SP, Num(n), SP>> \o reason \in Text
    BY <2>1, JoinLength
  <2>3. v \o (<<SP, Num(n), SP>> \o reason) \in Text
    BY <2>2, JoinLength
  <2> QED
    BY <2>3, Symbols, NumberAlone
<1>6. PICK mid \in Text : mid = <<SP, Num(n), SP>> /\ mid = c \o (num \o c)
  BY <1>5, StatusParts
<1>7. StatusLine(a) = line /\ Len(line) = Len(v) + 3 + Len(reason)
  <2>1. Between(v, mid, reason)
    BY TextBetween
  <2>2. StatusLine(a) = (v \o mid) \o reason
    BY <1>2, <1>3, <1>6 DEF StatusLine
  <2>3. StatusLine(a) = line
    BY <1>5, <1>6, <2>1, <2>2 DEF Between
  <2>4. PICK nc \in Text : nc = num \o c
    BY JoinLength
  <2>5. Len(nc) = Len(num) + Len(c) /\ Len(c \o nc) = Len(c) + Len(nc)
    BY <2>4, JoinLength
  <2>6. Len(mid) = 3
    BY <1>5, <1>6, <2>4, <2>5
  <2>7. PICK mr \in Text : mr = mid \o reason
    BY JoinLength
  <2>8. /\ Len(mr) = Len(mid) + Len(reason) /\ Len(v \o mr) = Len(v) + Len(mr)
        /\ Len(v) \in Nat /\ Len(reason) \in Nat
    BY <2>7, JoinLength
  <2>9. Len(line) = Len(v) + (3 + Len(reason))
    BY <1>5, <1>6, <2>6, <2>7, <2>8
  <2> QED
    BY <2>3, <2>8, <2>9
<1>8. PICK t \in Text : /\ t = Lines(hs) \o (CRLF \o after)
                        /\ HeadText(line, hs) \o after = line \o (CRLF \o t)
  <2>1. /\ Lines(hs) \o (CRLF \o after) \in Text
        /\ HeadText(line, hs) \o after = line \o (CRLF \o (Lines(hs) \o (CRLF \o after)))
    BY HeadTextIs, ZenonT(30)
  <2> QED
    BY <2>1
<1>9. PICK x \in Text : x = crlf \o t
  BY JoinLength
<1>10. PICK r2 \in Text : r2 = reason \o x
  BY JoinLength
<1>11. PICK cr2 \in Text : cr2 = c \o r2
  BY JoinLength
<1>12. PICK r1 \in Text : r1 = num \o cr2
  BY JoinLength
<1>13. PICK cr1 \in Text : cr1 = c \o r1
  BY JoinLength
<1>14. line \o x = v \o cr1
  <2>1. PICK mr \in Text, nc \in Text : mr = mid \o reason /\ nc = num \o c
    BY JoinLength
  <2>2. Between(v, mr, x) /\ Between(mid, reason, x) /\ Between(c, nc, r2) /\ Between(num, c, r2)
    BY TextBetween
  <2>3. line \o x = v \o (mr \o x)
    BY <1>5, <1>6, <2>1, <2>2 DEF Between
  <2>4. mr \o x = mid \o r2
    BY <1>10, <2>1, <2>2 DEF Between
  <2>5. mid \o r2 = c \o (nc \o r2)
    BY <1>6, <2>1, <2>2 DEF Between
  <2>6. nc \o r2 = num \o cr2
    BY <1>11, <2>1, <2>2 DEF Between
  <2> QED
    BY <1>12, <1>13, <2>3, <2>4, <2>5, <2>6
<1>15. ResponseText(a) = line \o x
  <2>1. ResponseText(a) = HeadText(line, hs) \o after
    <3>1. CASE InChunks(a)
      <4>1. FlattenSeq([i \in 1..Len(a.parts) |-> Chunk(a.parts[i])]) = ChunksText(a.parts)
        <5>1. PICK P \in Seq(Part) : P = a.parts
          BY ResponseBodyIs
        <5>2. \A i \in 1..Len(P) : ChunkText[P[i]] = Chunk(P[i])
          <6>1. \A i \in 1..Len(P) : P[i] \in Part
            BY ElementOfSeq
          <6> QED
            BY <6>1 DEF ChunkText
        <5>3. Mapped(P, ChunkText) = [i \in 1..Len(P) |-> Chunk(P[i])]
          BY <5>2 DEF Mapped
        <5> QED
          BY <5>1, <5>3 DEF ChunksText
      <4> QED
        BY <1>2, <1>4, <1>7, <3>1, <4>1 DEF ResponseText, ResponseAfter
    <3>2. CASE ~InChunks(a)
      BY <1>2, <1>4, <1>7, <3>2 DEF ResponseText, ResponseAfter
    <3> QED
      BY <3>1, <3>2
  <2> QED
    BY <1>5, <1>8, <1>9, <2>1
<1>16. line \o x \in Text
  BY JoinLength
<1>17. Len(StatusLine(a)) + 2 = Len(Version) + 3 + Len(a.title[2]) + 2
  BY <1>2, <1>3, <1>7
<1>18. /\ FlattenSeq(a.parts) \in Text
       /\ AsItIs(ToSet(a.headers), ResponseAfter(a), FlattenSeq(a.parts))
            \/ InChunkForm(ToSet(a.headers), ResponseAfter(a), FlattenSeq(a.parts))
  BY ResponseBodyIs
<1>19. r2 = a.title[2] \o (CRLF \o t) /\ r1 = <<Num(a.title[1])>> \o (<<SP>> \o r2)
  BY <1>3, <1>5, <1>9, <1>10, <1>11, <1>12
<1>20. ResponseText(a) = Version \o (<<SP>> \o r1) /\ ResponseText(a) \in Text
  BY <1>2, <1>5, <1>13, <1>14, <1>15, <1>16
<1>21. t = Lines(a.headers) \o (CRLF \o ResponseAfter(a)) /\ a.headers \in Seq(Line)
  BY <1>2, <1>4, <1>8
<1> QED
  BY <1>3, <1>4, <1>17, <1>18, <1>19, <1>20, <1>21 DEF ResponseParts

(* The first piece of a response, which goes beyond the status line.       *)
ResponseOn(m, a, rest) ==
  /\ m.title = a.title
  /\ ResponseAt(m, rest, ToSet(a.headers), ResponseAfter(a), FlattenSeq(a.parts))

(* It is parsed as far as it goes, by AppendResponse.                      *)
LEMMA FirstPieceOfResponse ==
  ASSUME NEW a \in Responses, NEW data \in Text, NEW rest \in Text,
         data \o rest = ResponseText(a), Len(data) >= Len(StatusLine(a)) + 2
  PROVE  ResponseOn(AppendResponse(NewMessage, data), a, rest)
<1>1. PICK r1, r2, t : ResponseParts(a, r1, r2, t)
  BY ResponseIs
<1>2. PICK n \in Nat, reason \in Text :
        /\ n = a.title[1] /\ reason = a.title[2] /\ a.title = <<n, reason>>
        /\ \A i \in 1..Len(reason) : reason[i] # CR
  BY <1>1 DEF ResponseParts
<1>3. PICK hs \in Seq(Line), after \in Text, whole \in Text, v \in Word :
        /\ hs = a.headers /\ after = ResponseAfter(a) /\ whole = FlattenSeq(a.parts)
        /\ v = Version
  BY <1>1, ResponsesAssumption DEF ResponseParts
<1>4. /\ t \in Text /\ r2 \in Text /\ r1 \in Text
      /\ ResponseForm(data \o rest, v, n, reason, hs, after, whole, t, r2, r1)
  BY <1>1, <1>2, <1>3 DEF ResponseParts, ResponseForm
<1>5. Beyond(data, v, reason)
  BY <1>1, <1>2, <1>3 DEF ResponseParts, Beyond
<1>6. /\ AppendResponse(NewMessage, data).title = <<n, reason>>
      /\ ResponseAt(AppendResponse(NewMessage, data), rest, ToSet(hs), after, whole)
  BY <1>4, <1>5, FirstOfResponse
<1> QED
  BY <1>2, <1>3, <1>6 DEF ResponseOn

-----------------------------------------------------------------------------
(* What a receiver makes of a text that commit() has written.              *)

(* The elements of a sequence, put into an order of their own.             *)
LEMMA InSomeOrder ==
  ASSUME NEW K \in Seq(Line)
  PROVE  /\ SetToSeq(ToSet(K)) \in Seq(Line)
         /\ ToSet(SetToSeq(ToSet(K))) = ToSet(K)
<1>1. PICK n \in Nat : /\ n = Len(K) /\ DOMAIN K = 1..n /\ K \in [1..n -> Line]
  BY LenProperties
<1>2. PICK H : H = ToSet(K) /\ H = {K[i] : i \in 1..n}
  BY <1>1 DEF ToSet
<1>3. H \subseteq Line
  BY <1>1, <1>2
<1>4. IsFiniteSet(H)
  <2>1. K \in [1..n -> H] /\ \A y \in H : \E x \in 1..n : K[x] = y
    BY <1>1, <1>2
  <2>2. K \in Surjection(1..n, H)
    BY <2>1 DEF Surjection
  <2>3. ExistsSurjection(1..n, H)
    BY <2>2 DEF ExistsSurjection
  <2> QED
    BY <2>3, FS_NatSurjection
<1>5. PICK c \in Nat : c = Cardinality(H) /\ ExistsBijection(1..c, H)
  BY <1>4, FS_CardinalityType
<1>6. \E f \in [1..c -> H] : IsInjective(f)
  BY <1>5 DEF ExistsBijection, Bijection, Injection
<1>7. PICK g : g = SetToSeq(H) /\ g \in [1..c -> H] /\ IsInjective(g)
  <2>1. SetToSeq(H) = CHOOSE f \in [1..c -> H] : IsInjective(f)
    BY <1>5 DEF SetToSeq
  <2> QED
    BY <1>6, <2>1
<1>8. g \in Surjection(1..c, H)
  <2>1. g \in Injection(1..c, H)
    BY <1>7 DEF Injection
  <2>2. Cardinality(1..c) = c
    <3>1. Cardinality(1..c) = IF 1 > c THEN 0 ELSE c - 1 + 1
      BY FS_Interval
    <3> QED
      BY <3>1
  <2> QED
    BY <1>4, <1>5, <2>1, <2>2, FS_Injection
<1>9. ToSet(g) = H
  <2>1. DOMAIN g = 1..c /\ \A x \in 1..c : g[x] \in H
    BY <1>7
  <2>2. \A y \in H : \E x \in 1..c : g[x] = y
    BY <1>8 DEF Surjection
  <2> QED
    BY <2>1, <2>2 DEF ToSet
<1>10. g \in Seq(Line)
  <2>1. g \in [1..c -> Line]
    BY <1>3, <1>7
  <2> QED
    BY <2>1
<1> QED
  BY <1>2, <1>7, <1>9, <1>10

(* The first line of a text.                                               *)
LEMMA FirstLine ==
  ASSUME NEW line \in Text, OneLine(line), NEW r \in Text,
         NEW s \in Text, s = line \o (CRLF \o r)
  PROVE  /\ Find(s, CRLF) = Len(line) /\ Find(s, CRLF) # -1
         /\ Upto(s, Len(line)) = line /\ From(s, Len(line) + 2) = r
<1>1. PICK e \in Text : e = <<>>
  BY Symbols
<1>2. s \o e = line \o (CRLF \o r)
  BY <1>1, ConcatEmptySeq DEF Text
<1>3. LineFound(s, e, line, r)
  BY <1>2, NextLine
<1>4. Len(s) = Len(line) + (2 + Len(r)) /\ Len(line) \in Nat /\ Len(r) \in Nat
  <2>1. PICK c \in Text, x \in Text : c = CRLF /\ Len(c) = 2 /\ x = c \o r
    BY Symbols, JoinLength
  <2>2. Len(x) = Len(c) + Len(r) /\ Len(line \o x) = Len(line) + Len(x)
        /\ Len(line) \in Nat /\ Len(r) \in Nat
    BY <2>1, JoinLength
  <2> QED
    BY <2>1, <2>2
<1>5. ~(Len(s) < Len(line) + 2) /\ Len(line) # -1
  BY <1>4
<1>6. PICK w \in Text : /\ Find(s, CRLF) = Len(line) /\ Upto(s, Len(line)) = line
                        /\ w = From(s, Len(line) + 2) /\ w \o e = r
  BY <1>3, <1>5 DEF LineFound
<1>7. w = r
  BY <1>1, <1>6, ConcatEmptySeq DEF Text
<1> QED
  BY <1>5, <1>6, <1>7

(* The loop over header lines that are all here comes to the body.         *)
LEMMA WholeHead ==
  ASSUME NEW m \in Message, NEW H, NEW after \in Text, AtHeaders(m, <<>>, H, after)
  PROVE  AtBody(Headers[m], <<>>, H, after)
<1>1. PICK e \in Text : e = <<>>
  BY Symbols
<1>2. PICK x \in Message : /\ x = Headers[m]
                           /\ AtHeaders(x, e, H, after) \/ AtBody(x, e, H, after)
  BY <1>1, HeadersOn
<1>3. HeaderTurn(x) = x
  <2>1. Message \in SUBSET Message /\ \A y \in Message : HeaderTurn(y) \in Message
    BY HeaderTurnType
  <2> QED
    BY <1>2, <2>1, HeadersRun
<1>4. ASSUME AtHeaders(x, e, H, after)
      PROVE  FALSE
  <2>1. PICK u \in Text, L \in Seq(Line) :
          /\ u = x.unparsed /\ u = Lines(L) \o (CRLF \o after)
          /\ ~x.threw /\ ~x.headers_parsed
    <3>1. PICK u \in Text : u = x.unparsed /\ u \o e = u
      BY <1>1, MessageFields, ConcatEmptySeq DEF Text
    <3> QED
      BY <1>4, <3>1 DEF AtHeaders
  <2>2. \E l \in Text, r \in Text : OneLine(l) /\ u = l \o (CRLF \o r)
    <3>1. CASE L = <<>>
      <4>1. Lines(L) = e
        BY <1>1, <3>1, LinesParts
      <4>2. \A i \in 1..Len(e) : e[i] # CR
        BY <1>1
      <4> QED
        BY <2>1, <4>1, <4>2 DEF OneLine
    <3>2. CASE L # <<>>
      <4>1. PICK l \in Text, ls \in Text :
              /\ Lines(L) = (l \o CRLF) \o ls /\ OneLine(l)
        BY <3>2, LinesParts DEF Line, OneLine
      <4>2. PICK c \in Text, x1 \in Text, x2 \in Text, lc \in Text :
              c = CRLF /\ x1 = c \o after /\ x2 = ls \o x1 /\ lc = l \o c
        BY Symbols, JoinLength
      <4>3. Between(lc, ls, x1) /\ Between(l, c, x2)
        BY TextBetween
      <4>4. u = lc \o x2
        BY <2>1, <4>1, <4>2, <4>3 DEF Between
      <4>5. lc \o x2 = l \o (c \o x2)
        BY <4>2, <4>3 DEF Between
      <4> QED
        BY <4>1, <4>2, <4>4, <4>5
    <3> QED
      BY <3>1, <3>2
  <2>3. Find(u, CRLF) # -1
    BY <2>2, FirstLine
  <2>4. HeaderTurn(x) # x
    <3>1. HeaderTurn(x) = HeaderStep(x)
      BY <2>1 DEF HeaderTurn
    <3>2. \/ HeaderStep(x) = [x EXCEPT !.headers_parsed = TRUE, !.unparsed = From(u, 2)]
          \/ \E next \in Nat :
               /\ HeaderStep(x).unparsed = From(u, next + 2) /\ Len(u) >= next + 2
      <4>1. PICK next : next = Find(u, CRLF)
        OBVIOUS
      <4>2. \/ HeaderStep(x) = [x EXCEPT !.headers_parsed = TRUE, !.unparsed = From(u, 2)]
            \/ /\ next \in Nat /\ Len(u) >= next + 2
               /\ HeaderStep(x) = [x EXCEPT !.headers = x.headers \cup {Upto(u, next)},
                                            !.unparsed = From(u, next + 2)]
        BY <2>1, <2>3, <4>1, HeaderStepEffect
      <4>3. CASE HeaderStep(x) = [x EXCEPT !.headers_parsed = TRUE, !.unparsed = From(u, 2)]
        BY <4>3
      <4>4. CASE /\ next \in Nat /\ Len(u) >= next + 2
                 /\ HeaderStep(x) = [x EXCEPT !.headers = x.headers \cup {Upto(u, next)},
                                              !.unparsed = From(u, next + 2)]
        <5>1. PICK h, w : h = x.headers \cup {Upto(u, next)} /\ w = From(u, next + 2)
          OBVIOUS
        <5>2. HeaderStep(x) = [x EXCEPT !.headers = h, !.unparsed = w]
          BY <4>4, <5>1
        <5>3. HeaderStep(x).unparsed = w
          BY <5>2 DEF Message
        <5> QED
          BY <4>4, <5>1, <5>3
      <4> QED
        BY <4>2, <4>3, <4>4
    <3>3. \A w : [x EXCEPT !.headers_parsed = TRUE, !.unparsed = w] # x
      BY <2>1 DEF Message
    <3>4. \A next \in Nat : Len(u) >= next + 2 => From(u, next + 2) # u
      <4>1. SUFFICES ASSUME NEW next \in Nat, Len(u) >= next + 2
                     PROVE  From(u, next + 2) # u
        OBVIOUS
      <4>2. PICK k \in Nat, j \in Nat : k = next + 2 /\ j = Len(u) /\ k <= j /\ k > 0
        <5>1. PICK j \in Nat : j = Len(u)
          BY LenProperties DEF Text
        <5>2. next + 2 \in Nat /\ next + 2 > 0
          OBVIOUS
        <5> QED
          BY <4>1, <5>1, <5>2
      <4>3. Len(From(u, k)) = j - k
        BY <4>2, TextParts
      <4> QED
        BY <4>2, <4>3
    <3> QED
      BY <2>1, <3>1, <3>2, <3>3, <3>4
  <2> QED
    BY <1>3, <2>4
<1> QED
  BY <1>1, <1>2, <1>4

(* What is written with the headers in some order is read again.           *)
Reads(text, line, H, payload) ==
  /\ text \in Text
  /\ Received(text) = [line |-> line, headers |-> H, head |-> TRUE, payload |-> payload]

(* A first line, the lines of a map and a payload.                         *)
LEMMA ReceivedWhole ==
  ASSUME NEW line \in Text, OneLine(line), NEW K \in Seq(Line), NEW payload \in Text
  PROVE  Reads(MapText(line, ToSet(K)) \o payload, line, ToSet(K), payload)
<1>1. PICK H \in {ToSet(K)}, L \in Seq(Line) :
        H = ToSet(K) /\ L = SetToSeq(H) /\ ToSet(L) = H
  BY InSomeOrder
<1>2. PICK t \in Text : /\ t = Lines(L) \o (CRLF \o payload)
                        /\ HeadText(line, L) \o payload = line \o (CRLF \o t)
  <2>1. /\ Lines(L) \o (CRLF \o payload) \in Text
        /\ HeadText(line, L) \o payload = line \o (CRLF \o (Lines(L) \o (CRLF \o payload)))
    BY HeadTextIs
  <2> QED
    BY <2>1
<1>3. PICK text \in Text : text = MapText(line, H) \o payload /\ text = line \o (CRLF \o t)
  <2>1. CRLF \o t \in Text
    BY Symbols, JoinLength
  <2>2. line \o (CRLF \o t) \in Text
    BY <2>1, JoinLength
  <2> QED
    BY <1>1, <1>2, <2>2 DEF MapText
<1>4. PICK n : /\ n = Find(text, CRLF) /\ n = Len(line) /\ n # -1
               /\ Upto(text, n) = line /\ From(text, n + 2) = t
  BY <1>3, FirstLine
<1>5. PICK m \in Message :
        /\ m = [NewMessage EXCEPT !.title_parsed = TRUE, !.unparsed = From(text, n + 2)]
        /\ m.unparsed = t /\ m.headers = {} /\ m.body = <<>> /\ ~m.threw
        /\ m.title_parsed /\ ~m.headers_parsed /\ ~m.body_parsed
  <2>1. <<>> \in Text /\ {} \in SUBSET Text /\ <<>> \in RequestTitles
    BY Symbols DEF RequestTitles
  <2>2. [NewMessage EXCEPT !.title_parsed = TRUE, !.unparsed = t] \in Message
    BY <2>1 DEF NewMessage, Message
  <2> QED
    BY <1>4, <2>2 DEF NewMessage
<1>6. AtHeaders(m, <<>>, H, payload)
  <2>1. t \o <<>> = t
    BY ConcatEmptySeq DEF Text
  <2>2. m.unparsed \o <<>> = Lines(L) \o (CRLF \o payload)
    BY <1>2, <1>5, <2>1
  <2> QED
    BY <1>1, <1>5, <2>2 DEF AtHeaders
<1>7. PICK h : h = Headers[m] /\ AtBody(h, <<>>, H, payload)
  BY <1>6, WholeHead
<1>8. h.headers = H /\ h.headers_parsed /\ h.unparsed = payload
  <2>1. PICK w \in Text : w = h.unparsed /\ w \o <<>> = payload
    BY <1>7, MessageFields DEF AtBody
  <2>2. w \o <<>> = w
    BY ConcatEmptySeq DEF Text
  <2> QED
    BY <1>7, <2>1, <2>2 DEF AtBody
<1>9. Received(text) = [line |-> line, headers |-> H, head |-> TRUE, payload |-> payload]
  <2>1. Received(text) = [line |-> Upto(text, n), headers |-> h.headers,
                          head |-> n # -1 /\ h.headers_parsed, payload |-> h.unparsed]
    BY <1>4, <1>5, <1>7 DEF Received
  <2>2. PICK b \in BOOLEAN : b = (n # -1 /\ h.headers_parsed) /\ b
    BY <1>4, <1>8
  <2> QED
    BY <1>4, <1>8, <2>1, <2>2
<1> QED
  BY <1>1, <1>3, <1>9 DEF Reads

-----------------------------------------------------------------------------
(* What the proxy commits means what it has parsed.                        *)

(* A body that is written as it is, with a line end after it.              *)
LEMMA PlainMeaning ==
  ASSUME NEW s, NEW body \in Text, s.head, s.payload = body \o CRLF,
         <<Chunked>> \notin s.headers, Measured(s.headers, Len(body)),
         Named(s.headers, "Content-Length") \/ body = <<>>
  PROVE  Meaning(s) = [body |-> body, rest |-> CRLF, whole |-> TRUE]
<1>1. PICK n \in Nat : n = Len(body)
  BY LenProperties DEF Text
<1>2. (IF Has(s, "Content-Length") THEN Header(s, "Content-Length") ELSE 0) = n
  <2>1. CASE Has(s, "Content-Length")
    BY <1>1, <2>1 DEF Has, Header, Measured
  <2>2. CASE ~Has(s, "Content-Length")
    BY <1>1, <2>2, Symbols DEF Has, Named
  <2> QED
    BY <2>1, <2>2
<1>3. PICK c \in Text, e \in Text, p \in Text :
        c = CRLF /\ e = <<>> /\ Len(e) = 0 /\ p = body \o c
  BY Symbols, JoinLength
<1>4. e \o p = p
  BY <1>3, ConcatEmptySeq DEF Text
<1>5. SubSeq(e \o (body \o c), Len(e) + 1, Len(e) + Len(body)) = body
  BY MiddlePart
<1>6. SubSeq(p, 1, n) = body
  BY <1>1, <1>3, <1>4, <1>5
<1>7. Len(p) = Len(body) + Len(c) /\ Len(c) \in Nat
  BY <1>3, JoinLength
<1>8. n <= Len(p)
  BY <1>1, <1>7
<1>9. From(p, n) = c
  <2>1. p \o e = p
    BY <1>3, ConcatEmptySeq DEF Text
  <2>2. p \o e = body \o c /\ Len(body) <= Len(p)
    BY <1>1, <1>3, <1>8, <2>1
  <2>3. Divided(p, e, body, c)
    BY <2>2, SplitAt
  <2>4. PICK w \in Text : w = From(p, Len(body)) /\ w \o e = c
    BY <2>3 DEF Divided
  <2>5. w \o e = w
    BY <1>3, ConcatEmptySeq DEF Text
  <2> QED
    BY <1>1, <2>4, <2>5
<1>10. PICK payload : payload = s.payload /\ payload = p
  BY <1>3
<1>11. Meaning(s) = IF n <= Len(payload)
                    THEN [body |-> SubSeq(payload, 1, n), rest |-> From(payload, n),
                          whole |-> TRUE]
                    ELSE [body |-> <<>>, rest |-> payload, whole |-> FALSE]
  BY <1>2, <1>10 DEF Meaning
<1> QED
  BY <1>3, <1>6, <1>8, <1>9, <1>10, <1>11

(* What is written of a text to the bridge: all, or as much as fits.       *)
LEMMA SentBeginning ==
  ASSUME NEW data \in Text, NEW wire \in send(blocking, data, Room),
         NEW lost, lost = From(data, Len(wire))
  PROVE  /\ wire \in Text /\ lost \in Text /\ wire \o lost = data
         /\ lost # <<>> => Len(wire) >= Room
<1>1. PICK len \in Nat : len = Len(data)
  BY LenProperties DEF Text
<1>2. PICK n \in Nat : /\ n <= len
                       /\ n >= Room \/ n = len
                       /\ wire = SubSeq(data, 1, n)
  <2>1. revert_flag(blocking).nonblock
    BY DEF revert_flag, blocking
  <2>2. wire \in {SubSeq(data, 1, n) : n \in {k \in 0..Len(data) : k >= Room \/ k = Len(data)}}
    BY <2>1 DEF send, write
  <2>3. PICK n \in 0..Len(data) : (n >= Room \/ n = Len(data)) /\ wire = SubSeq(data, 1, n)
    BY <2>2
  <2> QED
    BY <1>1, <2>3
<1>3. /\ Upto(data, n) \in Text /\ Len(Upto(data, n)) = n
      /\ From(data, n) \in Text /\ Len(From(data, n)) = len - n
      /\ Upto(data, n) \o From(data, n) = data
  <2>1. n <= Len(data)
    BY <1>1, <1>2
  <2> QED
    BY <1>1, <2>1, TextParts
<1>4. wire = Upto(data, n)
  BY <1>2 DEF Upto
<1>5. lost = From(data, n) /\ Len(wire) = n
  BY <1>3, <1>4
<1>6. n = len => lost = <<>>
  <2>1. n = len => Len(lost) = 0
    BY <1>3, <1>5
  <2> QED
    BY <1>3, <1>5, <2>1, EmptySeq DEF Text
<1> QED
  BY <1>2, <1>3, <1>4, <1>5, <1>6

(* The header lines of a request, as they are read: a read that ends in    *)
(* the request line can make one more of the rest of that line.            *)
HeadersOf(q) ==
  {ToSet(q.headers)} \cup {{J} \cup ToSet(q.headers) : J \in Junk}

(* A line made of the rest of the request line names nothing.              *)
LEMMA HeadersRead ==
  ASSUME NEW q \in Requests, NEW H \in HeadersOf(q)
  PROVE  /\ q.body \in Text /\ ToSet(q.headers) \subseteq H
         /\ Measured(H, Len(q.body))
         /\ Named(H, "Content-Length") \/ q.body = <<>>
         /\ <<Chunked>> \notin H
         /\ \E K \in Seq(Line) : H = ToSet(K)
<1>1. PICK s1, t : RequestParts(q, s1, t)
  BY RequestIs
<1>2. PICK body \in Text, hs \in Seq(Line) :
        /\ body = q.body /\ hs = q.headers
        /\ Measured(ToSet(hs), Len(body))
        /\ Named(ToSet(hs), "Content-Length") \/ body = <<>>
        /\ ~Named(ToSet(hs), "Transfer-Encoding")
  BY <1>1 DEF RequestParts
<1>3. \A J \in Junk : J # <<>> /\ J[1][1] \in {"byte", "sp"}
  <2>1. \A J \in Junk : J # <<>> /\ 1 \in 1..Len(J)
    BY EmptySeq, LenProperties DEF Junk
  <2>2. \A J \in Junk : J[1] \in Letter
    BY <2>1, ElementOfSeq DEF Junk
  <2> QED
    BY <2>1, <2>2 DEF Letter
<1>4. \A x \in H : x \in ToSet(hs) \/ x \in Junk
  BY <1>2 DEF HeadersOf
<1>5. ToSet(hs) \subseteq H
  BY <1>2 DEF HeadersOf
<1>6. Measured(H, Len(body))
  BY <1>2, <1>3, <1>4 DEF Measured
<1>7. Named(H, "Content-Length") \/ body = <<>>
  BY <1>2, <1>5 DEF Named
<1>8. <<Chunked>> \notin H
  <2>1. <<Chunked>> # <<>> /\ <<Chunked>>[1][1] = "Transfer-Encoding"
    BY DEF Chunked
  <2> QED
    BY <1>2, <1>3, <1>4, <2>1 DEF Named
<1>9. \E K \in Seq(Line) : H = ToSet(K)
  <2>1. CASE H = ToSet(hs)
    BY <2>1
  <2>2. CASE \E J \in Junk : H = {J} \cup ToSet(hs)
    BY <2>2, JunkIsLine, LineBefore
  <2> QED
    BY <1>2, <2>1, <2>2 DEF HeadersOf
<1> QED
  BY <1>2, <1>5, <1>6, <1>7, <1>8, <1>9

(* What neither of two texts has is not in their join.                     *)
LEMMA JoinWithout ==
  ASSUME NEW x \in Text, NEW y \in Text, NEW c,
         \A i \in 1..Len(x) : x[i] # c, \A i \in 1..Len(y) : y[i] # c
  PROVE  x \o y \in Text /\ \A i \in 1..Len(x \o y) : (x \o y)[i] # c
<1>1. PICK z \in Text : z = x \o y
  BY TextJoin
<1>2. PICK i \in Nat, j \in Nat : i = Len(x) /\ j = Len(y)
  BY TextJoin
<1>3. /\ Len(z) = i + j
      /\ \A k \in 1..i : z[k] = x[k]
      /\ \A k \in 1..j : z[i + k] = y[k]
  BY <1>1, <1>2, TextJoin
<1>4. ASSUME NEW k \in 1..(i + j)
      PROVE  z[k] # c
  <2>1. CASE k \in 1..i
    BY <1>2, <1>3, <2>1
  <2>2. CASE k \notin 1..i
    <3>1. k - i \in 1..j /\ i + (k - i) = k
      BY <2>2
    <3>2. z[k] = y[k - i]
      BY <1>3, <3>1
    <3> QED
      BY <1>2, <3>1, <3>2
  <2> QED
    BY <2>1, <2>2
<1> QED
  BY <1>1, <1>3, <1>4

(* Plain words, with spaces between them, are one line.                    *)
LEMMA PlainLine ==
  ASSUME NEW m, m.title \in Plain \X Plain \X Plain
  PROVE  RequestLine(m) \in Text /\ OneLine(RequestLine(m))
<1>1. PICK a \in Plain, b \in Plain, d \in Plain, c \in Plain :
        RequestLine(m) = (((a \o c) \o b) \o c) \o d
  <2>1. <<SP>> \in Plain
    <3>1. \A i \in 1..Len(<<SP>>) : i = 1
      BY Symbols
    <3> QED
      BY <3>1, Symbols DEF Plain
  <2>2. PICK title \in Plain \X Plain \X Plain : title = m.title
    OBVIOUS
  <2>3. title[1] \in Plain /\ title[2] \in Plain /\ title[3] \in Plain
    OBVIOUS
  <2> QED
    BY <2>1, <2>2, <2>3 DEF RequestLine
<1>2. ASSUME NEW x \in Plain, NEW y \in Plain
      PROVE  x \o y \in Plain
  BY JoinWithout DEF Plain
<1>3. (((a \o c) \o b) \o c) \o d \in Plain
  <2>1. a \o c \in Plain
    BY <1>2
  <2>2. (a \o c) \o b \in Plain
    BY <1>2, <2>1
  <2>3. ((a \o c) \o b) \o c \in Plain
    BY <1>2, <2>2
  <2> QED
    BY <1>2, <2>3
<1> QED
  BY <1>1, <1>3 DEF Plain, OneLine

(* A complete request, committed, is the one that the client asked.        *)
LEMMA RequestConveyed ==
  ASSUME NEW q \in Requests, NEW m, NEW rest, NEW H, Complete(m, rest, H, q.body),
         H \in HeadersOf(q), m.title \in Plain \X Plain \X Plain
  PROVE  /\ CommitRequest(m) \in Text /\ Conveys(CommitRequest(m), q)
         /\ Received(CommitRequest(m)).line = RequestLine(m)
         /\ Received(CommitRequest(m)).headers = H
<1>1. PICK body \in Text, hs \in {q.headers} : body = q.body /\ hs = q.headers
  BY HeadersRead
<1>2. m.headers = H /\ m.body = body
  BY <1>1 DEF Complete
<1>3. PICK K \in Seq(Line) : H = ToSet(K)
  BY HeadersRead
<1>4. /\ ToSet(hs) \subseteq H
      /\ Measured(H, Len(body))
      /\ Named(H, "Content-Length") \/ body = <<>>
      /\ <<Chunked>> \notin H
  BY <1>1, HeadersRead
<1>5. PICK data \in Text, line \in Text :
        data = body \o CRLF /\ line = RequestLine(m) /\ OneLine(line)
  BY Symbols, JoinLength, PlainLine
<1>6. PICK text \in Text :
        /\ text = CommitRequest(m)
        /\ Received(text) = [line |-> line, headers |-> H, head |-> TRUE, payload |-> data]
  <2>1. Reads(MapText(line, ToSet(K)) \o data, line, ToSet(K), data)
    BY <1>5, ReceivedWhole
  <2>2. CommitRequest(m) = MapText(line, ToSet(K)) \o data
    BY <1>2, <1>3, <1>5 DEF CommitRequest
  <2> QED
    BY <1>3, <2>1, <2>2 DEF Reads
<1>7. PICK s : /\ s = Received(text) /\ s.line = line /\ s.headers = H /\ s.head
               /\ s.payload = body \o CRLF
  <2>1. PICK s : s = Received(text) /\ s.line = line /\ s.headers = H /\ s.head
                 /\ s.payload = data
    BY <1>6
  <2> QED
    BY <1>5, <2>1
<1>8. Meaning(s) = [body |-> body, rest |-> CRLF, whole |-> TRUE]
  BY <1>4, <1>7, PlainMeaning
<1>9. Clean(s) /\ Meaning(s).body = body
  BY <1>8 DEF Clean
<1>10. Conveys(text, q)
  BY <1>1, <1>4, <1>7, <1>9 DEF Conveys
<1> QED
  BY <1>5, <1>6, <1>7, <1>10

(* What the client receives of a response that has been parsed to its end. *)
Faithful(g, a) ==
  /\ g \in Text
  /\ Received(g).line = OwnLine(a) /\ Received(g).headers = ToSet(a.headers)
  /\ Meaning(Received(g)).whole
  /\ Meaning(Received(g)).body = FlattenSeq(a.parts)

(* The status line that the proxy writes is one line.                      *)
LEMMA OwnLineIs ==
  ASSUME NEW a \in Responses
  PROVE  OwnLine(a) \in Text /\ OneLine(OwnLine(a))
<1>1. PICK r1, r2, t : ResponseParts(a, r1, r2, t)
  BY ResponseIs
<1>2. PICK n \in Nat, reason \in Text :
        /\ n = a.title[1] /\ reason = a.title[2]
        /\ \A i \in 1..Len(reason) : reason[i] # CR
  BY <1>1 DEF ResponseParts
<1>3. PICK v \in Text : v = HTTP_VERSION /\ \A i \in 1..Len(v) : v[i] # CR
  <2>1. Byte(11) \in {"byte"} \X Nat
    BY DEF Byte
  <2>2. \A x \in {"byte"} \X Nat : <<x>> \in Seq({"byte"} \X Nat) \ {<<>>}
    OBVIOUS
  <2>3. HTTP_VERSION \in Word
    BY <2>1, <2>2 DEF HTTP_VERSION, Word
  <2> QED
    BY <2>3, WordIsJunk, JunkIsLine
<1>4. PICK c \in Text, num \in Text :
        /\ c = <<SP>> /\ num = <<Num(n)>>
        /\ \A i \in 1..Len(c) : c[i] # CR
        /\ \A i \in 1..Len(num) : num[i] # CR
  <2>1. PICK c \in Text : c = <<SP>> /\ Len(c) = 1 /\ c[1] = SP
    BY Symbols
  <2>2. \A i \in 1..Len(c) : i = 1
    BY <2>1
  <2>3. \A i \in 1..Len(c) : c[i] # CR
    BY <2>1, <2>2, Symbols
  <2>4. PICK num \in Text : num = <<Num(n)>> /\ Len(num) = 1
    BY NumberAlone
  <2>5. \A i \in 1..Len(num) : num[i] # CR
    BY <2>4, NumberAlone
  <2> QED
    BY <2>1, <2>3, <2>4, <2>5
<1>5. PICK mid \in Text : mid = <<SP, Num(n), SP>> /\ \A i \in 1..Len(mid) : mid[i] # CR
  <2>1. PICK nc \in Text : nc = num \o c /\ \A i \in 1..Len(nc) : nc[i] # CR
    BY <1>4, JoinWithout
  <2>2. PICK x \in Text : x = c \o nc /\ \A i \in 1..Len(x) : x[i] # CR
    <3>1. \A i \in 1..Len(c) : c[i] # CR
      BY <1>4
    <3>2. c \o nc \in Text /\ \A i \in 1..Len(c \o nc) : (c \o nc)[i] # CR
      BY <2>1, <3>1, JoinWithout
    <3> QED
      BY <3>2
  <2>3. <<SP, Num(n), SP>> = c \o nc
    BY <1>4, <2>1, StatusParts
  <2> QED
    BY <2>2, <2>3
<1>6. PICK vm \in Text : vm = v \o mid /\ \A i \in 1..Len(vm) : vm[i] # CR
  <2>1. v \o mid \in Text /\ \A i \in 1..Len(v \o mid) : (v \o mid)[i] # CR
    BY <1>3, <1>5, JoinWithout
  <2> QED
    BY <2>1
<1>7. PICK l \in Text : l = vm \o reason /\ \A i \in 1..Len(l) : l[i] # CR
  <2>1. vm \o reason \in Text /\ \A i \in 1..Len(vm \o reason) : (vm \o reason)[i] # CR
    BY <1>2, <1>6, JoinWithout
  <2> QED
    BY <2>1
<1>8. OwnLine(a) = l
  BY <1>2, <1>3, <1>5, <1>6, <1>7 DEF OwnLine
<1> QED
  BY <1>7, <1>8 DEF OneLine

(* A complete response, committed, means to the client what the origin     *)
(* answered.                                                               *)
LEMMA ResponseConveyed ==
  ASSUME NEW a \in Responses, NEW m, NEW rest,
         Complete(m, rest, ToSet(a.headers), FlattenSeq(a.parts)), m.title = a.title
  PROVE  Faithful(CommitResponse(m), a)
<1>1. PICK r1, r2, t : ResponseParts(a, r1, r2, t)
  BY ResponseIs
<1>2. PICK body \in Text, K \in Seq(Line), H \in {ToSet(a.headers)} :
        /\ body = FlattenSeq(a.parts) /\ K = a.headers /\ H = ToSet(K)
        /\ \/ AsItIs(H, ResponseAfter(a), body)
           \/ InChunkForm(H, ResponseAfter(a), body)
  BY <1>1 DEF ResponseParts
<1>3. m.headers = H /\ m.body = body
  BY <1>2 DEF Complete
<1>4. PICK line \in Text : line = OwnLine(a) /\ line = OwnLine(m) /\ OneLine(line)
  BY OwnLineIs DEF OwnLine
<1>5. Has(m, "Transfer-Encoding") <=> Named(H, "Transfer-Encoding")
  BY <1>3 DEF Has, Named
<1>6. Named(H, "Transfer-Encoding") => <<Chunked>> \in H
  <2>1. /\ Headings(a.headers, Len(FlattenSeq(a.parts)))
        /\ "Transfer-Encoding" \in Names(a.headers) => <<Chunked>> \in ToSet(a.headers)
    BY ResponsesAssumption
  <2>2. \A name : Named(H, name) <=> name \in Names(a.headers)
    BY <1>2, <2>1, HeadingsMean
  <2> QED
    BY <1>2, <2>1, <2>2
<1>7. ASSUME NEW data \in Text, CommitResponse(m) = MapText(line, H) \o data
      PROVE  /\ CommitResponse(m) \in Text
             /\ Received(CommitResponse(m))
                  = [line |-> line, headers |-> H, head |-> TRUE, payload |-> data]
  <2>1. Reads(MapText(line, ToSet(K)) \o data, line, ToSet(K), data)
    BY <1>4, ReceivedWhole
  <2> QED
    BY <1>2, <1>7, <2>1 DEF Reads
<1>8. CASE Named(H, "Transfer-Encoding")
  <2>1. PICK data \in Text : data = EncodeChunks(body)
    BY EncodedType
  <2>2. CommitResponse(m) = MapText(line, H) \o data
    BY <1>3, <1>4, <1>5, <1>8, <2>1 DEF CommitResponse
  <2>3. PICK r : /\ r = Received(CommitResponse(m)) /\ r.line = line /\ r.headers = H
                 /\ r.head /\ r.payload = data
    BY <1>7, <2>2
  <2>4. Meaning(r) = Dechunk[[body |-> <<>>, rest |-> EncodeChunks(body),
                              whole |-> FALSE]]
    BY <1>6, <1>8, <2>1, <2>3 DEF Meaning
  <2>5. Meaning(r).whole /\ Meaning(r).body = body
    BY <2>4, DechunkEncoded
  <2> QED
    BY <1>2, <1>4, <1>7, <2>2, <2>3, <2>5 DEF Faithful
<1>9. CASE ~Named(H, "Transfer-Encoding")
  <2>1. PICK data \in Text : data = body \o CRLF
    BY Symbols, JoinLength
  <2>2. CommitResponse(m) = MapText(line, H) \o data
    BY <1>3, <1>4, <1>5, <1>9, <2>1 DEF CommitResponse
  <2>3. PICK r : /\ r = Received(CommitResponse(m)) /\ r.line = line /\ r.headers = H
                 /\ r.head /\ r.payload = body \o CRLF
    <3>1. PICK r : /\ r = Received(CommitResponse(m)) /\ r.line = line
                   /\ r.headers = H /\ r.head /\ r.payload = data
      BY <1>7, <2>2
    <3> QED
      BY <2>1, <3>1
  <2>4. AsItIs(H, ResponseAfter(a), body)
    BY <1>2, <1>9 DEF InChunkForm
  <2>5. /\ <<Chunked>> \notin H
        /\ Measured(H, Len(body))
        /\ Named(H, "Content-Length") \/ body = <<>>
    <3>1. <<Chunked>> # <<>> /\ <<Chunked>>[1][1] = "Transfer-Encoding"
      BY DEF Chunked
    <3>2. <<Chunked>> \notin H
      BY <1>9, <3>1 DEF Named
    <3>3. ~Named(H, "Content-Length") => Measured(H, Len(body))
      BY DEF Named, Measured
    <3> QED
      BY <2>4, <3>2, <3>3 DEF AsItIs
  <2>6. Meaning(r) = [body |-> body, rest |-> CRLF, whole |-> TRUE]
    BY <2>3, <2>5, PlainMeaning
  <2>7. Meaning(r).whole /\ Meaning(r).body = body
    BY <2>6
  <2> QED
    BY <1>2, <1>4, <1>7, <2>1, <2>2, <2>3, <2>7 DEF Faithful
<1> QED
  BY <1>8, <1>9

-----------------------------------------------------------------------------
(* One read after the other.                                               *)

(* A request of which all but `rest` has been read, in reads of which one  *)
(* may have ended in the request line and spoilt it.                       *)
RequestGoes(m, q, rest, spoilt) ==
  /\ m.title \in Plain \X Plain \X Plain
  /\ \E H \in HeadersOf(q) :
       /\ RequestAt(m, rest, H, q.body)
       /\ spoilt \/ (m.title = q.title /\ H = ToSet(q.headers))

(* The first read of a request.                                            *)
LEMMA RequestBegins ==
  ASSUME NEW q \in Requests, NEW data \in Text, data # <<>>, NEW rest \in Text,
         data \o rest = RequestText(q), NEW m, m = AppendRequest(NewMessage, data),
         NEW spoilt \in BOOLEAN, Len(data) < Len(RequestLine(q)) + 2 => spoilt
  PROVE  RequestGoes(m, q, rest, spoilt) \/ (spoilt /\ m.threw)
<1>1. FirstRead(m, q.title, ToSet(q.headers), data, rest,
                Len(RequestLine(q)) + 2, q.body)
  BY FirstPieceOfRequest
<1>2. CASE m.title = q.title /\ RequestAt(m, rest, ToSet(q.headers), q.body)
  <2>1. m.title \in Plain \X Plain \X Plain
    <3>1. PICK s1, t : RequestParts(q, s1, t)
      BY RequestIs
    <3>2. PICK title : title = q.title /\ title \in Word \X Word \X Word
      BY <3>1 DEF RequestParts
    <3>3. \A w \in Word : w \in Plain
      BY WordIsPlain
    <3> QED
      BY <1>2, <3>2, <3>3
  <2> QED
    BY <1>2, <2>1 DEF RequestGoes, HeadersOf
<1>3. CASE spoilt /\ m.threw
  BY <1>3
<1>4. CASE /\ spoilt /\ m.title \in Plain \X Plain \X Plain
           /\ \E J \in Junk : RequestAt(m, rest, {J} \cup ToSet(q.headers), q.body)
  BY <1>4 DEF RequestGoes, HeadersOf
<1> QED
  BY <1>1, <1>2, <1>3, <1>4 DEF FirstRead

(* Another read of it.                                                     *)
LEMMA RequestGoesOn ==
  ASSUME NEW q \in Requests, NEW data \in Text, NEW rest \in Text, NEW m,
         NEW spoilt, RequestGoes(m, q, data \o rest, spoilt), ~is_complete(m)
  PROVE  RequestGoes(AppendRequest(m, data), q, rest, spoilt)
<1>1. PICK H \in HeadersOf(q) :
        /\ RequestAt(m, data \o rest, H, q.body)
        /\ spoilt \/ (m.title = q.title /\ H = ToSet(q.headers))
  BY DEF RequestGoes
<1>2. \/ AtHeaders(m, data \o rest, H, q.body)
      \/ InBody(m, data \o rest, H, q.body)
  BY <1>1 DEF RequestAt, Complete
<1>3. m \in Message
  BY <1>2 DEF AtHeaders, InBody
<1>4. PICK body \in Text : /\ body = q.body /\ Measured(H, Len(body))
                           /\ Named(H, "Content-Length") \/ body = <<>>
  BY HeadersRead
<1>5. /\ AppendRequest(m, data).title = m.title
      /\ RequestAt(AppendRequest(m, data), rest, H, body)
  BY <1>2, <1>3, <1>4, AppendRequestOn
<1> QED
  BY <1>1, <1>4, <1>5 DEF RequestGoes

(* The request that has been written to the origin.                        *)
Delivered(s, q, spoilt) ==
  /\ s \in [wire : Text, lost : Text]
  /\ s.lost # <<>> => Len(s.wire) >= Room
  /\ Conveys(s.wire \o s.lost, q)
  /\ spoilt \/ /\ Received(s.wire \o s.lost).line = RequestLine(q)
               /\ Received(s.wire \o s.lost).headers = ToSet(q.headers)

(* A complete request has been read to its end and is handed on.           *)
LEMMA RequestEnds ==
  ASSUME NEW q \in Requests, NEW rest, NEW m, NEW spoilt,
         RequestGoes(m, q, rest, spoilt), is_complete(m),
         NEW wire \in send(blocking, CommitRequest(m), Room),
         NEW lost, lost = From(CommitRequest(m), Len(wire))
  PROVE  rest = <<>> /\ Delivered([wire |-> wire, lost |-> lost], q, spoilt)
<1>1. PICK H \in HeadersOf(q) :
        /\ RequestAt(m, rest, H, q.body)
        /\ spoilt \/ (m.title = q.title /\ H = ToSet(q.headers))
  BY DEF RequestGoes
<1>2. Complete(m, rest, H, q.body)
  BY <1>1 DEF RequestAt, AtHeaders, InBody, is_complete
<1>3. m.title \in Plain \X Plain \X Plain
  BY DEF RequestGoes
<1>4. PICK data \in Text :
        /\ data = CommitRequest(m) /\ Conveys(data, q)
        /\ Received(data).line = RequestLine(m) /\ Received(data).headers = H
  BY <1>2, <1>3, RequestConveyed
<1>5. /\ wire \in Text /\ lost \in Text /\ wire \o lost = data
      /\ lost # <<>> => Len(wire) >= Room
  BY <1>4, SentBeginning
<1>6. m.title = q.title => RequestLine(m) = RequestLine(q)
  BY DEF RequestLine
<1>7. PICK s \in [wire : Text, lost : Text] :
        s = [wire |-> wire, lost |-> lost] /\ s.wire = wire /\ s.lost = lost
  <2>1. PICK x \in Text, y \in Text : x = wire /\ y = lost
    BY <1>5
  <2>2. [wire |-> x, lost |-> y] \in [wire : Text, lost : Text]
    OBVIOUS
  <2> QED
    BY <2>1, <2>2
<1>8. Delivered(s, q, spoilt)
  BY <1>1, <1>4, <1>5, <1>6, <1>7 DEF Delivered
<1>9. rest = <<>>
  BY <1>2 DEF Complete
<1> QED
  BY <1>7, <1>8, <1>9

(* Another read of a response.                                             *)
LEMMA ResponseGoesOn ==
  ASSUME NEW a \in Responses, NEW data \in Text, NEW rest \in Text, NEW m,
         ResponseOn(m, a, data \o rest), ~m.threw, ~is_complete(m)
  PROVE  ResponseOn(AppendResponse(m, data), a, rest)
<1>1. PICK H \in {ToSet(a.headers)}, after \in Text, whole \in Text :
        /\ H = ToSet(a.headers) /\ after = ResponseAfter(a)
        /\ whole = FlattenSeq(a.parts)
        /\ AsItIs(H, after, whole) \/ InChunkForm(H, after, whole)
  BY ResponseBodyIs
<1>2. ResponseAt(m, data \o rest, H, after, whole) /\ m.title = a.title
  BY <1>1 DEF ResponseOn
<1>3. \/ AtHeaders(m, data \o rest, H, after)
      \/ AsItIs(H, after, whole) /\ InBody(m, data \o rest, H, whole)
      \/ InChunkForm(H, after, whole) /\ AtChunks(m, data \o rest, H, whole)
  BY <1>2 DEF ResponseAt, Complete, Torn
<1>4. m \in Message
  BY <1>3 DEF AtHeaders, InBody, AtChunks
<1>5. /\ AppendResponse(m, data).title = m.title
      /\ ResponseAt(AppendResponse(m, data), rest, H, after, whole)
  BY <1>1, <1>3, <1>4, AppendResponseOn
<1> QED
  BY <1>1, <1>2, <1>5 DEF ResponseOn

(* A complete response has been read to its end and is handed on.          *)
LEMMA ResponseEnds ==
  ASSUME NEW a \in Responses, NEW rest, NEW m,
         ResponseOn(m, a, rest), ~m.threw, is_complete(m),
         NEW text \in send(add_flag(blocking), CommitResponse(m), Room)
  PROVE  rest = <<>> /\ Faithful(text, a)
<1>1. Complete(m, rest, ToSet(a.headers), FlattenSeq(a.parts))
  BY DEF ResponseOn, ResponseAt, AtHeaders, InBody, AtChunks, Torn, is_complete
<1>2. rest = <<>>
  BY <1>1 DEF Complete
<1>3. m.title = a.title
  BY DEF ResponseOn
<1>4. text = CommitResponse(m)
  <2>1. ~revert_flag(add_flag(blocking)).nonblock
    BY DEF revert_flag, add_flag, blocking
  <2> QED
    BY <2>1 DEF send, write
<1> QED
  BY <1>1, <1>2, <1>3, <1>4, ResponseConveyed

(* A response whose parser threw.                                          *)
LEMMA ResponseTorn ==
  ASSUME NEW a \in Responses, NEW rest, NEW m, ResponseOn(m, a, rest), m.threw
  PROVE  Numberless(rest)
BY DEF ResponseOn, ResponseAt, AtHeaders, InBody, AtChunks, Complete, Torn

-----------------------------------------------------------------------------
(* The inductive invariant: how far the request of the exchange is, and    *)
(* how far the response.                                                   *)

Spoilt == "request title" \in torn

(* The request has not been read, is being read, has made the parser       *)
(* throw, or is with the origin.                                           *)
ToCome(q) ==
  /\ pc = "running" /\ served = <<>>
  /\ request = NewMessage /\ upstream = RequestText(q)

Underway(q) ==
  /\ pc = "running" /\ served = <<>>
  /\ RequestGoes(request, q, upstream, Spoilt) /\ ~is_complete(request)

Thrown ==
  /\ pc = "parse_threw" /\ served = <<>>
  /\ request = NewMessage /\ Spoilt

HandedOn(q) ==
  /\ pc = "running" /\ upstream = <<>> /\ request = NewMessage
  /\ \E s : served = <<s>> /\ Delivered(s, q, Spoilt)

Idle ==
  /\ asked = <<>> /\ served = <<>> /\ pc = "running"
  /\ upstream = <<>> /\ request = NewMessage

RequestPhase ==
  \/ Idle
  \/ \E q \in Requests :
       asked = <<q>> /\ (ToCome(q) \/ Underway(q) \/ Thrown \/ HandedOn(q))

(* The response is not there, has not been read, is being read, has been   *)
(* given up at a torn last chunk, or is with the client.                   *)
Unanswered ==
  answered = <<>> /\ downstream = <<>> /\ response = NewMessage /\ got = <<>>

Fresh(a) == response = NewMessage /\ downstream = ResponseText(a) /\ got = <<>>

Coming(a) ==
  /\ ResponseOn(response, a, downstream) /\ ~response.threw
  /\ ~is_complete(response) /\ got = <<>>

Lost == response = NewMessage /\ Numberless(downstream) /\ got = <<>>

Arrived(a) ==
  /\ response = NewMessage /\ downstream = <<>>
  /\ \E g : got = <<g>> /\ Faithful(g, a)

ResponsePhase ==
  \/ Unanswered
  \/ \E a \in Responses :
       /\ answered = <<a>> /\ served # <<>>
       /\ Fresh(a) \/ Coming(a) \/ Lost \/ Arrived(a)

ExchangeInv ==
  /\ upstream \in Text /\ downstream \in Text
  /\ client = add_flag(blocking) /\ bridge = blocking
  /\ torn \subseteq Cuts
  /\ RequestPhase
  /\ ResponsePhase

(* What one read() gives, and what it leaves.                              *)
LEMMA ReadParts ==
  ASSUME NEW s \in Text, NEW n \in 1..Len(s)
  PROVE  \E data \in Text, rest \in Text :
           /\ data = Upto(s, n) /\ rest = From(s, n) /\ data # <<>>
           /\ data \o rest = s /\ Len(data) = n /\ Len(rest) = Len(s) - n
<1>1. PICK k \in Nat : k = n /\ k <= Len(s) /\ k > 0
  BY LenProperties DEF Text
<1>2. PICK data \in Text, rest \in Text :
        /\ data = Upto(s, k) /\ rest = From(s, k) /\ data \o rest = s
        /\ Len(data) = k /\ Len(rest) = Len(s) - k
  BY <1>1, TextParts
<1>3. data # <<>>
  BY <1>1, <1>2, Symbols
<1> QED
  BY <1>1, <1>2, <1>3

(* send() leaves the flag of a socket as it was.                           *)
LEMMA FlagsKept ==
  /\ sent(blocking) = blocking
  /\ sent(add_flag(blocking)) = add_flag(blocking)
<1>1. \A b \in BOOLEAN : revert_flag([nonblock |-> b]) = [nonblock |-> ~b]
  BY DEF revert_flag
<1>2. blocking = [nonblock |-> FALSE] /\ add_flag(blocking) = [nonblock |-> TRUE]
  <2>1. \A b, c \in BOOLEAN :
          [[nonblock |-> b] EXCEPT !.nonblock = c] = [nonblock |-> c]
    OBVIOUS
  <2>2. [[nonblock |-> FALSE] EXCEPT !.nonblock = TRUE] = [nonblock |-> TRUE]
    BY <2>1, Zenon
  <2>3. add_flag([nonblock |-> FALSE]) = [nonblock |-> TRUE]
    BY <2>2, Zenon DEF add_flag
  <2> QED
    BY <2>3, Zenon DEF blocking
<1>3. /\ revert_flag([nonblock |-> FALSE]) = [nonblock |-> TRUE]
      /\ revert_flag([nonblock |-> TRUE]) = [nonblock |-> FALSE]
  BY <1>1
<1> QED
  BY <1>2, <1>3 DEF sent

(* A read of what the client has written.                                  *)
LEMMA ReadsClientKeeps ==
  ASSUME ExchangeInv, ReadsClient
  PROVE  ExchangeInv'
<1>1. PICK n \in 1..Len(upstream) :
        /\ ReadRequest(n)
        /\ \E m \in {AppendRequest(request, Upto(upstream, n))} :
             RequestThrows(m) \/ RequestPart(m) \/ RequestDone(m)
  BY DEF ReadsClient
<1>2. PICK m : /\ m = AppendRequest(request, Upto(upstream, n))
               /\ RequestThrows(m) \/ RequestPart(m) \/ RequestDone(m)
  BY <1>1
<1>3. PICK data \in Text, rest \in Text :
        /\ data = Upto(upstream, n) /\ rest = From(upstream, n) /\ data # <<>>
        /\ data \o rest = upstream
        /\ Len(data) = n /\ Len(rest) = Len(upstream) - n
  BY ReadParts DEF ExchangeInv
<1>4. /\ upstream' = rest
      /\ torn' = torn \cup RequestTears(Len(upstream) - n)
      /\ RequestTears(Len(upstream) - n) \subseteq Cuts
      /\ pc = "running"
      /\ UNCHANGED <<downstream, client, response, asked, answered, got>>
  BY <1>1, <1>3 DEF ReadRequest
<1>5. PICK q \in Requests : asked = <<q>> /\ (ToCome(q) \/ Underway(q))
  <2>1. upstream # <<>>
    BY <1>3, Symbols
  <2> QED
    BY <1>4, <2>1 DEF ExchangeInv, RequestPhase, Idle, Thrown, HandedOn
<1>6. PICK spoilt \in BOOLEAN : spoilt <=> Spoilt'
  OBVIOUS
<1>7. RequestGoes(m, q, rest, spoilt) \/ (spoilt /\ m.threw /\ request = NewMessage)
  <2>1. CASE ToCome(q)
    <3>1. request = NewMessage /\ data \o rest = RequestText(q)
      BY <1>3, <2>1 DEF ToCome
    <3>2. Len(data) < Len(RequestLine(q)) + 2 => spoilt
      <4>1. asked[1] = q
        BY <1>5
      <4>2. Len(RequestText(q)) - (Len(upstream) - n) = Len(data)
        <5>1. PICK i \in Nat : i = Len(upstream)
          BY LenProperties DEF ExchangeInv, Text
        <5>2. Len(RequestText(q)) = i
          BY <2>1, <5>1 DEF ToCome
        <5>3. PICK j \in Nat : j = n
          OBVIOUS
        <5>4. i - (i - j) = j
          OBVIOUS
        <5> QED
          BY <1>3, <5>1, <5>2, <5>3, <5>4
      <4>3. Len(data) < Len(RequestLine(q)) + 2
              => "request title" \in RequestTears(Len(upstream) - n)
        BY <4>1, <4>2 DEF RequestTears
      <4> QED
        BY <1>4, <1>6, <4>3 DEF Spoilt
    <3> QED
      BY <1>2, <1>3, <1>6, <3>1, <3>2, RequestBegins
  <2>2. CASE Underway(q)
    <3>1. RequestGoes(request, q, data \o rest, spoilt)
      <4>1. Spoilt => spoilt
        BY <1>4, <1>6 DEF Spoilt
      <4> QED
        BY <1>3, <2>2, <4>1 DEF Underway, RequestGoes
    <3>2. RequestGoes(AppendRequest(request, data), q, rest, spoilt)
      BY <2>2, <3>1, RequestGoesOn DEF Underway
    <3> QED
      BY <1>2, <1>3, <3>2
  <2> QED
    BY <1>5, <2>1, <2>2
<1>8. served = <<>> /\ Unanswered
  <2>1. served = <<>>
    BY <1>5 DEF ToCome, Underway
  <2> QED
    BY <2>1 DEF ExchangeInv, ResponsePhase
<1>9. ASSUME RequestThrows(m) PROVE RequestPhase' /\ bridge' = bridge
  <2>1. m.threw /\ pc' = "parse_threw" /\ UNCHANGED <<request, bridge, served>>
    BY <1>9 DEF RequestThrows
  <2>2. ~RequestGoes(m, q, rest, spoilt)
    BY <2>1 DEF RequestGoes, RequestAt, AtHeaders, InBody, Complete
  <2>3. Thrown'
    BY <1>6, <1>7, <1>8, <2>1, <2>2 DEF Thrown
  <2>4. bridge' = bridge /\ asked' = <<q>>
    BY <1>4, <1>5, <2>1
  <2> QED
    BY <2>3, <2>4 DEF RequestPhase
<1>10. ASSUME RequestPart(m) PROVE RequestPhase' /\ bridge' = bridge
  <2>1. ~m.threw /\ ~is_complete(m) /\ request' = m /\ UNCHANGED <<bridge, pc, served>>
    BY <1>10 DEF RequestPart
  <2>2. RequestGoes(m, q, rest, spoilt)
    BY <1>7, <2>1
  <2>3. RequestGoes(request, q, upstream, Spoilt)'
    BY <1>4, <1>6, <2>1, <2>2 DEF RequestGoes
  <2>4. Underway(q)'
    BY <1>4, <1>8, <2>1, <2>3 DEF Underway
  <2>5. bridge' = bridge /\ asked' = <<q>>
    BY <1>4, <1>5, <2>1
  <2> QED
    BY <2>4, <2>5 DEF RequestPhase
<1>11. ASSUME RequestDone(m) PROVE RequestPhase' /\ bridge' = bridge
  <2>1. PICK wire \in send(bridge, CommitRequest(m), Room) :
          /\ ~m.threw /\ is_complete(m) /\ request' = NewMessage
          /\ bridge' = sent(bridge) /\ UNCHANGED pc
          /\ served' = Append(served, [wire |-> wire,
                                      lost |-> From(CommitRequest(m), Len(wire))])
    BY <1>11 DEF RequestDone
  <2>2. PICK lost, s : /\ lost = From(CommitRequest(m), Len(wire))
                       /\ s = [wire |-> wire, lost |-> lost]
    OBVIOUS
  <2>3. RequestGoes(m, q, rest, spoilt)
    BY <1>7, <2>1
  <2>4. bridge = blocking
    BY DEF ExchangeInv
  <2>5. served' = <<s>>
    BY <1>8, <2>1, <2>2
  <2>6. rest = <<>> /\ Delivered(s, q, spoilt)
    BY <2>1, <2>2, <2>3, <2>4, RequestEnds
  <2>7. HandedOn(q)'
    BY <1>4, <1>6, <2>1, <2>5, <2>6 DEF HandedOn, Delivered
  <2>8. bridge' = bridge
    BY <2>1, <2>4, FlagsKept
  <2>9. asked' = <<q>>
    BY <1>4, <1>5
  <2> QED
    BY <2>7, <2>8, <2>9 DEF RequestPhase
<1>12. RequestPhase' /\ bridge' = bridge
  BY <1>2, <1>9, <1>10, <1>11
<1>13. ResponsePhase'
  BY <1>4, <1>8 DEF ResponsePhase, Unanswered
<1>14. /\ upstream' \in Text /\ downstream' \in Text /\ torn' \subseteq Cuts
       /\ client' = add_flag(blocking) /\ bridge' = blocking
  BY <1>4, <1>12 DEF ExchangeInv
<1> QED
  BY <1>12, <1>13, <1>14 DEF ExchangeInv

(* A part of a text without numbers has none either.                       *)
LEMMA NumberlessParts ==
  ASSUME NEW s \in Text, NEW t \in Text, Numberless(s \o t)
  PROVE  Numberless(s) /\ Numberless(t)
<1>1. PICK i \in Nat, j \in Nat : i = Len(s) /\ j = Len(t) /\ Len(s \o t) = i + j
  BY TextJoin, LenProperties DEF Text
<1>2. \A k \in 1..i : k \in 1..Len(s \o t) /\ (s \o t)[k] = s[k]
  BY <1>1, TextJoin
<1>3. \A k \in 1..j : i + k \in 1..Len(s \o t) /\ (s \o t)[i + k] = t[k]
  <2>1. \A k \in 1..j : (s \o t)[Len(s) + k] = t[k]
    BY <1>1, TextJoin
  <2>2. \A k \in 1..j : i + k \in 1..(i + j)
    OBVIOUS
  <2> QED
    BY <1>1, <2>1, <2>2
<1>4. Numberless(s)
  BY <1>1, <1>2 DEF Numberless
<1>5. Numberless(t)
  BY <1>1, <1>3 DEF Numberless
<1> QED
  BY <1>4, <1>5

(* A read of what the origin has written.                                  *)
LEMMA ReadsOriginKeeps ==
  ASSUME ExchangeInv, ReadsOrigin
  PROVE  ExchangeInv'
<1>1. PICK n \in 1..Len(downstream) :
        /\ ReadResponse(n)
        /\ \E m \in {AppendResponse(response, Upto(downstream, n))} :
             ResponseThrows(m) \/ ResponsePart(m) \/ ResponseDone(m)
  BY DEF ReadsOrigin
<1>2. PICK m : /\ m = AppendResponse(response, Upto(downstream, n))
               /\ ResponseThrows(m) \/ ResponsePart(m) \/ ResponseDone(m)
  BY <1>1
<1>3. PICK data \in Text, rest \in Text :
        /\ data = Upto(downstream, n) /\ rest = From(downstream, n) /\ data # <<>>
        /\ data \o rest = downstream
        /\ Len(data) = n /\ Len(rest) = Len(downstream) - n
  BY ReadParts DEF ExchangeInv
<1>4. /\ downstream' = rest
      /\ torn' = torn \cup ResponseTears(Len(downstream) - n)
      /\ ResponseTears(Len(downstream) - n) \subseteq Cuts
      /\ UNCHANGED <<upstream, request, bridge, pc, asked, served, answered>>
  BY <1>1, <1>3 DEF ReadResponse
<1>5. PICK a \in Responses : /\ answered = <<a>> /\ served # <<>>
                             /\ Fresh(a) \/ Coming(a) \/ Lost
  <2>1. downstream # <<>>
    BY <1>3, Symbols
  <2> QED
    BY <2>1 DEF ExchangeInv, ResponsePhase, Unanswered, Arrived
<1>6. got = <<>>
  BY <1>5 DEF Fresh, Coming, Lost
<1>7. \/ ResponseOn(m, a, rest)
      \/ m.threw /\ Numberless(rest)
  <2>1. CASE Fresh(a)
    <3>1. response = NewMessage /\ data \o rest = ResponseText(a)
      BY <1>3, <2>1 DEF Fresh
    <3>2. Len(data) >= Len(StatusLine(a)) + 2
      <4>1. answered[1] = a
        BY <1>5
      <4>2. Len(ResponseText(a)) - (Len(downstream) - n) = Len(data)
        <5>1. PICK i \in Nat : i = Len(downstream)
          BY LenProperties DEF ExchangeInv, Text
        <5>2. Len(ResponseText(a)) = i
          BY <2>1, <5>1 DEF Fresh
        <5>3. PICK j \in Nat : j = n
          OBVIOUS
        <5>4. i - (i - j) = j
          OBVIOUS
        <5> QED
          BY <1>3, <5>1, <5>2, <5>3, <5>4
      <4>3. "status line" \notin Cuts
        BY ExchangeAssumption DEF AllCuts
      <4>4. ~(Len(data) < Len(StatusLine(a)) + 2)
        BY <1>4, <4>1, <4>2, <4>3 DEF ResponseTears
      <4>5. PICK k \in Nat, l \in Nat : k = Len(data) /\ l = Len(StatusLine(a)) + 2
        <5>1. PICK r1, r2, t : ResponseParts(a, r1, r2, t)
          BY ResponseIs
        <5>2. PICK reason \in Text : reason = a.title[2]
          BY <5>1 DEF ResponseParts
        <5>3. Len(reason) \in Nat /\ Len(Version) \in Nat /\ Len(data) \in Nat
          BY LenProperties, ResponsesAssumption, WordIsJunk, JunkIsLine DEF Text
        <5>4. Len(StatusLine(a)) + 2 = Len(Version) + 3 + Len(reason) + 2
          BY <5>1, <5>2 DEF ResponseParts
        <5> QED
          BY <5>3, <5>4
      <4> QED
        BY <4>4, <4>5
    <3> QED
      BY <1>2, <1>3, <3>1, <3>2, FirstPieceOfResponse
  <2>2. CASE Coming(a)
    <3>1. /\ ResponseOn(response, a, data \o rest)
          /\ ~response.threw /\ ~is_complete(response)
      BY <1>3, <2>2 DEF Coming
    <3>2. ResponseOn(AppendResponse(response, data), a, rest)
      BY <3>1, ResponseGoesOn
    <3> QED
      BY <1>2, <1>3, <3>2
  <2>3. CASE Lost
    <3>1. response = NewMessage /\ Numberless(data \o rest)
      BY <1>3, <2>3 DEF Lost
    <3>2. Numberless(data) /\ Numberless(rest)
      BY <3>1, NumberlessParts
    <3> QED
      BY <1>2, <1>3, <3>1, <3>2, NumberlessResponse
  <2> QED
    BY <1>5, <2>1, <2>2, <2>3
<1>8. ASSUME ResponseThrows(m) PROVE ResponsePhase' /\ client' = client
  <2>1. m.threw /\ response' = NewMessage /\ UNCHANGED <<client, got>>
    BY <1>8 DEF ResponseThrows
  <2>2. Numberless(rest)
    BY <1>7, <2>1, ResponseTorn
  <2>3. Lost'
    BY <1>4, <1>6, <2>1, <2>2 DEF Lost
  <2>4. answered' = <<a>> /\ served' # <<>>
    BY <1>4, <1>5
  <2> QED
    BY <2>1, <2>3, <2>4 DEF ResponsePhase
<1>9. ASSUME ResponsePart(m) PROVE ResponsePhase' /\ client' = client
  <2>1. ~m.threw /\ ~is_complete(m) /\ response' = m /\ UNCHANGED <<client, got>>
    BY <1>9 DEF ResponsePart
  <2>2. ResponseOn(m, a, rest)
    BY <1>7, <2>1
  <2>3. Coming(a)'
    BY <1>4, <1>6, <2>1, <2>2 DEF Coming
  <2>4. answered' = <<a>> /\ served' # <<>>
    BY <1>4, <1>5
  <2> QED
    BY <2>1, <2>3, <2>4 DEF ResponsePhase
<1>10. ASSUME ResponseDone(m) PROVE ResponsePhase' /\ client' = client
  <2>1. PICK text \in send(client, CommitResponse(m), Room) :
          /\ ~m.threw /\ is_complete(m) /\ response' = NewMessage
          /\ client' = sent(client) /\ got' = Append(got, text)
    BY <1>10 DEF ResponseDone
  <2>2. got' = <<text>>
    BY <1>6, <2>1
  <2>3. ResponseOn(m, a, rest)
    BY <1>7, <2>1
  <2>4. client = add_flag(blocking)
    BY DEF ExchangeInv
  <2>5. rest = <<>> /\ Faithful(text, a)
    BY <2>1, <2>3, <2>4, ResponseEnds
  <2>6. Arrived(a)'
    BY <1>4, <2>1, <2>2, <2>5 DEF Arrived
  <2>7. client' = client
    BY <2>1, <2>4, FlagsKept
  <2>8. answered' = <<a>> /\ served' # <<>>
    BY <1>4, <1>5
  <2> QED
    BY <2>6, <2>7, <2>8 DEF ResponsePhase
<1>11. ResponsePhase' /\ client' = client
  BY <1>2, <1>8, <1>9, <1>10
<1>12. RequestPhase'
  <2>1. CASE Idle
    BY <1>5, <2>1 DEF Idle
  <2>2. CASE \E q \in Requests :
               asked = <<q>> /\ (ToCome(q) \/ Underway(q) \/ Thrown \/ HandedOn(q))
    <3>1. PICK q \in Requests : asked = <<q>> /\ HandedOn(q)
      BY <1>5, <2>2 DEF ToCome, Underway, Thrown
    <3>2. PICK s : served = <<s>> /\ Delivered(s, q, Spoilt)
      BY <3>1 DEF HandedOn
    <3>3. Spoilt => Spoilt'
      BY <1>4 DEF Spoilt
    <3>4. Delivered(s, q, Spoilt)'
      BY <3>2, <3>3 DEF Delivered
    <3>5. HandedOn(q)'
      BY <1>4, <3>1, <3>2, <3>4 DEF HandedOn
    <3> QED
      BY <1>4, <3>1, <3>5 DEF RequestPhase
  <2> QED
    BY <2>1, <2>2 DEF ExchangeInv, RequestPhase
<1>13. /\ upstream' \in Text /\ downstream' \in Text /\ torn' \subseteq Cuts
       /\ client' = add_flag(blocking) /\ bridge' = blocking
  BY <1>4, <1>11 DEF ExchangeInv
<1> QED
  BY <1>11, <1>12, <1>13 DEF ExchangeInv

(* A new request of the client.                                            *)
LEMMA AskKeeps ==
  ASSUME ExchangeInv, Ask
  PROVE  ExchangeInv'
<1>1. PICK q \in Requests : ClientAsk(q)
  BY DEF Ask
<1>2. /\ asked = <<>> \/ got # <<>>
      /\ asked' = <<q>> /\ torn' = {} /\ served' = <<>> /\ answered' = <<>>
      /\ got' = <<>> /\ upstream' = RequestText(q)
      /\ UNCHANGED <<downstream, request, client, bridge, response, pc>>
  BY <1>1 DEF ClientAsk, proxyVars
<1>3. pc = "running" /\ request = NewMessage /\ downstream = <<>> /\ response = NewMessage
  <2>1. CASE asked = <<>>
    <3>1. Idle
      BY <2>1 DEF ExchangeInv, RequestPhase
    <3>2. Unanswered
      BY <3>1 DEF ExchangeInv, ResponsePhase, Idle
    <3> QED
      BY <3>1, <3>2 DEF Idle, Unanswered
  <2>2. CASE got # <<>>
    <3>1. PICK a \in Responses : served # <<>> /\ Arrived(a)
      BY <2>2 DEF ExchangeInv, ResponsePhase, Unanswered, Fresh, Coming, Lost
    <3>2. \E q1 \in Requests : HandedOn(q1)
      BY <3>1 DEF ExchangeInv, RequestPhase, Idle, ToCome, Underway, Thrown
    <3> QED
      BY <3>1, <3>2 DEF Arrived, HandedOn
  <2> QED
    BY <1>2, <2>1, <2>2
<1>4. RequestPhase'
  <2>1. ToCome(q)'
    BY <1>2, <1>3 DEF ToCome
  <2> QED
    BY <1>2, <2>1 DEF RequestPhase
<1>5. ResponsePhase'
  BY <1>2, <1>3 DEF ResponsePhase, Unanswered
<1>6. RequestText(q) \in Text
  BY RequestIs DEF RequestParts
<1>7. /\ upstream' \in Text /\ downstream' \in Text /\ torn' \subseteq Cuts
      /\ client' = add_flag(blocking) /\ bridge' = blocking
  BY <1>2, <1>6 DEF ExchangeInv
<1> QED
  BY <1>4, <1>5, <1>7 DEF ExchangeInv

(* The answer of the origin.                                               *)
LEMMA AnswerKeeps ==
  ASSUME ExchangeInv, Answer
  PROVE  ExchangeInv'
<1>1. PICK a \in Responses : OriginAnswers(a)
  BY DEF Answer
<1>2. /\ served # <<>> /\ answered = <<>> /\ answered' = <<a>>
      /\ downstream' = ResponseText(a)
      /\ UNCHANGED <<upstream, request, client, bridge, response, pc, asked, torn,
                     served, got>>
  BY <1>1 DEF OriginAnswers, proxyVars
<1>3. Unanswered
  BY <1>2 DEF ExchangeInv, ResponsePhase
<1>4. RequestPhase'
  BY <1>2 DEF ExchangeInv, RequestPhase, Idle, ToCome, Underway, Thrown, HandedOn, Spoilt
<1>5. ResponsePhase'
  <2>1. Fresh(a)'
    BY <1>2, <1>3 DEF Fresh, Unanswered
  <2>2. answered' = <<a>> /\ served' # <<>>
    BY <1>2
  <2> QED
    BY <2>1, <2>2 DEF ResponsePhase
<1>6. ResponseText(a) \in Text
  BY ResponseIs DEF ResponseParts
<1>7. /\ upstream' \in Text /\ downstream' \in Text /\ torn' \subseteq Cuts
      /\ client' = add_flag(blocking) /\ bridge' = blocking
  BY <1>2, <1>6 DEF ExchangeInv
<1> QED
  BY <1>4, <1>5, <1>7 DEF ExchangeInv

(* The inductive invariant of the exchange.                                *)
THEOREM ExchangeInvariant == Spec => []ExchangeInv
<1>1. Init => ExchangeInv
  <2>1. <<>> \in Text
    BY Symbols
  <2> QED
    BY <2>1 DEF Init, ExchangeInv, RequestPhase, ResponsePhase, Idle, Unanswered
<1>2. ExchangeInv /\ [Next]_vars => ExchangeInv'
  <2>1. SUFFICES ASSUME ExchangeInv, [Next]_vars PROVE ExchangeInv'
    OBVIOUS
  <2>2. CASE UNCHANGED vars
    <3>1. UNCHANGED <<upstream, request, client, bridge, downstream, response, pc,
                      asked, torn, served, answered, got>>
      BY <2>2 DEF vars, proxyVars
    <3>2. RequestPhase'
      BY <2>1, <3>1 DEF ExchangeInv, RequestPhase, Idle, ToCome, Underway, Thrown,
                        HandedOn, Spoilt
    <3>3. ResponsePhase'
      BY <2>1, <3>1 DEF ExchangeInv, ResponsePhase, Unanswered, Fresh, Coming, Lost,
                        Arrived
    <3> QED
      BY <2>1, <3>1, <3>2, <3>3 DEF ExchangeInv
  <2> QED
    BY <2>1, <2>2, AskKeeps, AnswerKeeps, ReadsClientKeeps, ReadsOriginKeeps DEF Next
<1> QED
  BY <1>1, <1>2, PTL DEF Spec

(* What is written to the origin is what the client has asked, once, and   *)
(* the origin receives of it all that the socket took, as RequestIntact    *)
(* says: the end of a text longer than Room may be lost, from the head on   *)
(* or behind it.                                                           *)
THEOREM RequestsIntact == Spec => []RequestIntact
<1>1. ExchangeInv => RequestIntact
  <2>1. SUFFICES ASSUME ExchangeInv PROVE RequestIntact
    OBVIOUS
  <2>2. CASE served = <<>>
    <3>1. Len(asked) \in Nat /\ Len(served) = 0 /\ Len(served) <= Len(asked)
      BY <2>1, <2>2 DEF ExchangeInv, RequestPhase, Idle
    <3>2. pc = "parse_threw" => "request title" \in torn
      BY <2>1 DEF ExchangeInv, RequestPhase, Idle, ToCome, Underway, Thrown, HandedOn,
                  Spoilt
    <3>3. \A i \in 1..Len(served) : FALSE
      BY <3>1
    <3> QED
      BY <3>1, <3>2, <3>3 DEF RequestIntact
  <2>3. CASE served # <<>>
    <3>1. PICK q \in Requests : asked = <<q>> /\ HandedOn(q)
      BY <2>1, <2>3 DEF ExchangeInv, RequestPhase, Idle, ToCome, Underway, Thrown
    <3>2. PICK s : served = <<s>> /\ Delivered(s, q, Spoilt) /\ pc = "running"
      BY <3>1 DEF HandedOn
    <3>3. Len(served) = 1 /\ Len(asked) = 1 /\ served[1] = s /\ asked[1] = q
      BY <3>1, <3>2
    <3>4. \A i \in 1..Len(served) : i = 1
      BY <3>3
    <3>5. /\ Conveys(s.wire \o s.lost, q)
          /\ s.lost # <<>> => Len(s.wire) >= Room
          /\ "request title" \notin torn
               => /\ Received(s.wire \o s.lost).line = RequestLine(q)
                  /\ Received(s.wire \o s.lost).headers = ToSet(q.headers)
      BY <3>2 DEF Delivered, Spoilt
    <3>6. Len(served) <= Len(asked) /\ pc # "parse_threw"
      BY <3>2, <3>3
    <3> QED
      BY <3>3, <3>4, <3>5, <3>6 DEF RequestIntact
  <2> QED
    BY <2>2, <2>3
<1> QED
  BY <1>1, ExchangeInvariant, PTL

(* What the origin has answered, the client receives: the response, once,  *)
(* with its title, its headers and its whole body, as ResponseIntact says. *)
THEOREM ResponsesIntact == Spec => []ResponseIntact
<1>1. ExchangeInv => ResponseIntact
  <2>1. SUFFICES ASSUME ExchangeInv PROVE ResponseIntact
    OBVIOUS
  <2>2. CASE got = <<>>
    <3>1. Len(answered) \in Nat /\ Len(got) = 0 /\ Len(got) <= Len(answered)
      BY <2>1, <2>2 DEF ExchangeInv, ResponsePhase, Unanswered
    <3> QED
      BY <3>1 DEF ResponseIntact
  <2>3. CASE got # <<>>
    <3>1. PICK a \in Responses : answered = <<a>> /\ Arrived(a)
      BY <2>1, <2>3 DEF ExchangeInv, ResponsePhase, Unanswered, Fresh, Coming, Lost
    <3>2. PICK g : got = <<g>> /\ Faithful(g, a)
      BY <3>1 DEF Arrived
    <3>3. Len(got) = 1 /\ Len(answered) = 1 /\ got[1] = g /\ answered[1] = a
      BY <3>1, <3>2
    <3> QED
      BY <3>2, <3>3 DEF ResponseIntact, Faithful
  <2> QED
    BY <2>2, <2>3
<1> QED
  BY <1>1, ExchangeInvariant, PTL

(* No byte and no parser state of one message is left when it has been     *)
(* handed on, as NothingCarriedOver says.                                  *)
THEOREM NothingLeft == Spec => []NothingCarriedOver
<1>1. ExchangeInv => NothingCarriedOver
  <2>1. SUFFICES ASSUME ExchangeInv PROVE NothingCarriedOver
    OBVIOUS
  <2>2. served # <<>> => upstream = <<>> /\ request = NewMessage
    BY <2>1 DEF ExchangeInv, RequestPhase, Idle, ToCome, Underway, Thrown, HandedOn
  <2>3. got # <<>> => downstream = <<>> /\ response = NewMessage
    BY <2>1 DEF ExchangeInv, ResponsePhase, Unanswered, Fresh, Coming, Lost, Arrived
  <2> QED
    BY <2>2, <2>3 DEF NothingCarriedOver
<1> QED
  BY <1>1, ExchangeInvariant, PTL

(* The parsers never leave their type, and what the receivers get is text: *)
(* TypeOK.                                                                 *)
THEOREM ExchangeTypes == Spec => []TypeOK
<1>1. ExchangeInv => TypeOK
  <2>1. SUFFICES ASSUME ExchangeInv PROVE TypeOK
    OBVIOUS
  <2>2. NewMessage \in Message
    BY Symbols DEF NewMessage, Message, RequestTitles
  <2>3. /\ request \in Message /\ asked \in Seq(Requests)
        /\ pc \in {"running", "parse_threw"}
        /\ served \in Seq([wire : Text, lost : Text])
    <3>1. CASE Idle
      BY <2>2, <3>1 DEF Idle
    <3>2. CASE ~Idle
      <4>1. PICK q \in Requests :
              asked = <<q>> /\ (ToCome(q) \/ Underway(q) \/ Thrown \/ HandedOn(q))
        BY <2>1, <3>2 DEF ExchangeInv, RequestPhase
      <4>2. asked \in Seq(Requests)
        BY <4>1
      <4>3. pc \in {"running", "parse_threw"}
        BY <4>1 DEF ToCome, Underway, Thrown, HandedOn
      <4>4. request \in Message
        BY <2>2, <4>1 DEF ToCome, Underway, Thrown, HandedOn, RequestGoes, RequestAt,
                          AtHeaders, InBody, Complete
      <4>5. served = <<>> \/ \E s \in [wire : Text, lost : Text] : served = <<s>>
        BY <4>1 DEF ToCome, Underway, Thrown, HandedOn, Delivered
      <4>6. served \in Seq([wire : Text, lost : Text])
        <5>1. PICK S : S = [wire : Text, lost : Text]
          OBVIOUS
        <5>2. served = <<>> \/ \E s \in S : served = <<s>>
          BY <4>5, <5>1
        <5>3. <<>> \in Seq(S) /\ \A x \in S : <<x>> \in Seq(S)
          OBVIOUS
        <5>4. served \in Seq(S)
          BY <5>2, <5>3
        <5> QED
          BY <5>1, <5>4
      <4> QED
        BY <4>2, <4>3, <4>4, <4>6
    <3> QED
      BY <3>1, <3>2
  <2>4. /\ response \in Message /\ answered \in Seq(Responses)
        /\ got \in Seq(Text)
    <3>1. CASE Unanswered
      BY <2>2, <3>1 DEF Unanswered
    <3>2. CASE ~Unanswered
      <4>1. PICK a \in Responses :
              /\ answered = <<a>>
              /\ Fresh(a) \/ Coming(a) \/ Lost \/ Arrived(a)
        BY <2>1, <3>2 DEF ExchangeInv, ResponsePhase
      <4>2. answered \in Seq(Responses)
        BY <4>1
      <4>3. response \in Message
        BY <2>2, <4>1 DEF Fresh, Coming, Lost, Arrived, ResponseOn, ResponseAt,
                          AtHeaders, InBody, AtChunks, Complete, Torn
      <4>4. got = <<>> \/ \E g \in Text : got = <<g>>
        BY <4>1 DEF Fresh, Coming, Lost, Arrived, Faithful
      <4>5. got \in Seq(Text)
        <5>1. PICK S : S = Text
          OBVIOUS
        <5>2. got = <<>> \/ \E g \in S : got = <<g>>
          BY <4>4, <5>1
        <5>3. <<>> \in Seq(S) /\ \A x \in S : <<x>> \in Seq(S)
          OBVIOUS
        <5>4. got \in Seq(S)
          BY <5>2, <5>3
        <5> QED
          BY <5>1, <5>4
      <4> QED
        BY <4>2, <4>3, <4>5
    <3> QED
      BY <3>1, <3>2
  <2>5. client \in [nonblock : BOOLEAN] /\ bridge \in [nonblock : BOOLEAN]
    <3>1. blocking \in [nonblock : BOOLEAN] /\ add_flag(blocking) \in [nonblock : BOOLEAN]
      BY DEF blocking, add_flag
    <3> QED
      BY <2>1, <3>1 DEF ExchangeInv
  <2> QED
    BY <2>1, <2>3, <2>4, <2>5 DEF TypeOK, ExchangeInv
<1> QED
  BY <1>1, ExchangeInvariant, PTL
=============================================================================
