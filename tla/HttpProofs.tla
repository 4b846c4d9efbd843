----------------------------- MODULE HttpProofs ------------------------------
(***************************************************************************)
(* What the parsers and serializers compute, for every text and however it *)
(* is cut: lemmas on texts and on the loops, and from them what            *)
(* AppendRequest and AppendResponse make of the next piece of a message.   *)
(***************************************************************************)
EXTENDS HttpRequest, HttpResponse, SequenceTheorems, WellFoundedInduction, TLAPS

-----------------------------------------------------------------------------
(* Induction, over sets rather than predicates.                            *)

(* A set of numbers has a least element.                                   *)
LEMMA LeastNumber ==
  ASSUME NEW T, T \subseteq Nat, T # {}
  PROVE  \E x \in T : \A y \in T : x <= y
<1>1. PICK R : R = OpToRel(<, Nat) /\ IsWellFoundedOn(R, Nat)
  BY NatLessThanWellFounded
<1>2. \A x, y \in Nat : x < y => <<x, y>> \in R
  BY <1>1 DEF OpToRel
<1>3. PICK x \in T : \A y \in T : ~ (<<y, x>> \in R)
  BY <1>1, WFMin
<1>4. ASSUME NEW y \in T
      PROVE  x <= y
  <2>1. x \in Nat /\ y \in Nat
    OBVIOUS
  <2>2. ~(y < x)
    BY <1>2, <1>3, <2>1
  <2> QED
    BY <2>1, <2>2
<1> QED
  BY <1>4

(* A set of numbers with 0 and all successors is all of them.              *)
LEMMA Induction ==
  ASSUME NEW T \in SUBSET Nat, 0 \in T, \A n \in T : n + 1 \in T
  PROVE  T = Nat
<1>1. SUFFICES ASSUME Nat \ T # {} PROVE FALSE
  OBVIOUS
<1>2. PICK x \in Nat \ T : \A y \in Nat \ T : x <= y
  BY <1>1, LeastNumber
<1>3. x # 0 /\ x - 1 \in Nat /\ x - 1 \in T
  BY <1>2
<1> QED
  BY <1>2, <1>3

-----------------------------------------------------------------------------
(* Loops.  F is one turn, and the loop ends when a turn changes nothing.   *)

Loop(S, F, h) == h = [x \in S |-> IF F[x] = x THEN x ELSE h[F[x]]]

(* What can be reached from x is what every set holds that holds x and is  *)
(* closed under F.  The loop from x is any fixed point among that: if x is *)
(* none, the same can be reached from F[x], x itself excepted.             *)
LEMMA LoopExists ==
  ASSUME NEW S, NEW F \in [S -> S]
  PROVE  \E h : Loop(S, F, h)
<1> DEFINE Closed(T) == \A y \in T : F[y] \in T
           Reach(x) == {y \in S : \A T \in SUBSET S : x \in T /\ Closed(T) => y \in T}
           Ends(x) == {y \in Reach(x) : F[y] = y}
           Pick(T) == CHOOSE y \in T : TRUE
           h == [x \in S |-> Pick(Ends(x))]
<1>1. ASSUME NEW x \in S
      PROVE  x \in Reach(x) /\ Closed(Reach(x))
  OBVIOUS
<1>2. ASSUME NEW x \in S, F[x] = x
      PROVE  Ends(x) = {x}
  <2>1. Closed({x})
    BY <1>2
  <2>2. Reach(x) \subseteq {x}
    BY <2>1
  <2> QED
    BY <1>1, <1>2, <2>2
<1>3. ASSUME NEW x \in S, F[x] # x
      PROVE  Ends(x) = Ends(F[x])
  <2>1. F[x] \in S
    OBVIOUS
  <2>2. Closed({x} \cup Reach(F[x])) /\ Reach(F[x]) \subseteq S
    BY <1>1, <2>1
  <2>3. Reach(x) \subseteq {x} \cup Reach(F[x])
    <3>1. PICK T \in SUBSET S : T = {x} \cup Reach(F[x])
      BY <2>2
    <3>2. x \in T /\ Closed(T)
      BY <2>2, <3>1
    <3>3. Reach(x) \subseteq T
      BY <3>2
    <3> QED
      BY <3>1, <3>3
  <2>4. Reach(F[x]) \subseteq Reach(x)
    BY <1>1, <2>1
  <2> QED
    BY <1>3, <2>3, <2>4
<1>4. ASSUME NEW x \in S
      PROVE  h[x] = IF F[x] = x THEN x ELSE h[F[x]]
  <2> HIDE DEF Ends
  <2>1. CASE F[x] = x
    BY <1>2, <2>1
  <2>2. CASE F[x] # x
    <3>1. F[x] \in S /\ Ends(x) = Ends(F[x])
      BY <1>3, <2>2
    <3> QED
      BY <2>2, <3>1
  <2> QED
    BY <2>1, <2>2
<1> HIDE DEF Pick, Ends
<1>5. h = [x \in S |-> IF F[x] = x THEN x ELSE h[F[x]]]
  BY <1>4
<1> QED
  BY <1>5 DEF Loop

(* If every turn makes a measure smaller the loop ends, in every set that  *)
(* is closed under a turn and that it began in.                            *)
LEMMA LoopEnds ==
  ASSUME NEW S, NEW F \in [S -> S], NEW h, Loop(S, F, h),
         NEW size \in [S -> Nat],
         \A x \in S : F[x] # x => size[F[x]] < size[x],
         NEW T \in SUBSET S, \A x \in T : F[x] \in T
  PROVE  \A x \in T : h[x] \in T /\ F[h[x]] = h[x]
<1> DEFINE bad == {x \in T : ~(h[x] \in T /\ F[h[x]] = h[x])}
<1>1. SUFFICES ASSUME bad # {} PROVE FALSE
  OBVIOUS
<1>2. PICK n \in {size[x] : x \in bad} : \A m \in {size[x] : x \in bad} : n <= m
  <2>1. {size[x] : x \in bad} \subseteq Nat /\ {size[x] : x \in bad} # {}
    BY <1>1
  <2> QED
    BY <2>1, LeastNumber
<1>3. PICK x \in bad : n = size[x]
  BY <1>2
<1>4. x \in T /\ x \in S /\ F[x] \in T /\ F[x] \in S
  BY <1>3
<1>5. h[x] = IF F[x] = x THEN x ELSE h[F[x]]
  BY <1>4 DEF Loop
<1>6. F[x] # x
  BY <1>3, <1>4, <1>5
<1>7. size[F[x]] < n /\ size[F[x]] \in Nat /\ n \in Nat
  BY <1>3, <1>4, <1>6
<1>8. F[x] \notin bad
  <2>1. SUFFICES ASSUME F[x] \in bad PROVE FALSE
    OBVIOUS
  <2>2. size[F[x]] \in {size[y] : y \in bad}
    BY <2>1
  <2>3. n <= size[F[x]]
    BY <1>2, <2>2
  <2> QED
    BY <1>7, <2>3
<1> QED
  BY <1>3, <1>4, <1>5, <1>6, <1>8

-----------------------------------------------------------------------------
(* Texts.                                                                  *)

(* A text is made of what stands before and after any place in it.         *)
LEMMA TextParts ==
  ASSUME NEW s \in Text, NEW n \in Nat, n <= Len(s)
  PROVE  /\ Len(s) \in Nat
         /\ Upto(s, n) \in Text /\ Len(Upto(s, n)) = n
         /\ \A i \in 1..n : Upto(s, n)[i] = s[i]
         /\ From(s, n) \in Text /\ Len(From(s, n)) = Len(s) - n
         /\ \A i \in 1..(Len(s) - n) : From(s, n)[i] = s[n + i]
         /\ Upto(s, n) \o From(s, n) = s
<1>1. Len(s) \in Nat /\ \A i \in 1..Len(s) : s[i] \in Symbol
  BY LenProperties, ElementOfSeq DEF Text
<1>2. /\ SubSeq(s, 1, n) \in Seq(Symbol) /\ Len(SubSeq(s, 1, n)) = n
      /\ \A i \in 1..n : SubSeq(s, 1, n)[i] = s[i]
  <2>1. \A i \in 1..n : s[i] \in Symbol
    BY <1>1
  <2> QED
    BY <2>1, SubSeqProperties
<1>3. PICK m : m = n + 1 /\ m \in Nat
  OBVIOUS
<1>4. /\ SubSeq(s, m, Len(s)) \in Seq(Symbol)
      /\ Len(SubSeq(s, m, Len(s))) = Len(s) - n
      /\ \A i \in 1..(Len(s) - n) : SubSeq(s, m, Len(s))[i] = s[n + i]
  <2>1. \A i \in m..Len(s) : s[i] \in Symbol
    BY <1>1, <1>3
  <2>2. PICK k \in Nat : k = Len(s)
    BY <1>1
  <2>3. /\ SubSeq(s, m, k) \in Seq(Symbol)
        /\ Len(SubSeq(s, m, k)) = IF m <= k THEN k - m + 1 ELSE 0
        /\ \A i \in 1..(k - m + 1) : SubSeq(s, m, k)[i] = s[m + i - 1]
    BY <1>3, <2>1, <2>2, SubSeqProperties, SMTT(30)
  <2> QED
    BY <1>3, <2>2, <2>3
<1>5. SubSeq(s, 1, n) \o SubSeq(s, n + 1, Len(s)) = s
  <2>1. PICK k \in Nat : k = Len(s)
    BY <1>1
  <2>2. SubSeq(s, 1, n) \o SubSeq(s, n + 1, k) = SubSeq(s, 1, k)
    <3>1. 1 \in 1..(Len(s) + 1) /\ n \in (1 - 1)..Len(s) /\ k \in n..Len(s)
      BY <2>1
    <3> QED
      BY <3>1, ConcatAdjacentSubSeq DEF Text
  <2> QED
    BY <2>1, <2>2, SubSeqFull DEF Text
<1>6. Upto(s, n) = SubSeq(s, 1, n) /\ From(s, n) = SubSeq(s, m, Len(s))
  BY <1>3 DEF Upto, From
<1> QED
  BY <1>1, <1>2, <1>3, <1>4, <1>5, <1>6 DEF Text

(* One text after another.                                                 *)
LEMMA TextJoin ==
  ASSUME NEW s \in Text, NEW t \in Text
  PROVE  /\ s \o t \in Text /\ Len(s) \in Nat /\ Len(t) \in Nat
         /\ Len(s \o t) = Len(s) + Len(t)
         /\ \A i \in 1..Len(s) : (s \o t)[i] = s[i]
         /\ \A i \in 1..Len(t) : (s \o t)[Len(s) + i] = t[i]
<1>1. Len(s) \in Nat /\ Len(t) \in Nat
  BY LenProperties DEF Text
<1>2. /\ s \o t \in Text /\ Len(s \o t) = Len(s) + Len(t)
      /\ \A i \in 1..(Len(s) + Len(t)) :
           (s \o t)[i] = IF i <= Len(s) THEN s[i] ELSE t[i - Len(s)]
  BY ConcatProperties DEF Text
<1> QED
  BY <1>1, <1>2

(* Texts of the same length with the same symbols are the same.            *)
LEMMA TextEqual ==
  ASSUME NEW s \in Text, NEW t \in Text, Len(s) = Len(t),
         \A i \in 1..Len(s) : s[i] = t[i]
  PROVE  s = t
BY SeqEqual DEF Text

(* Three texts, one after the other, however they are joined.              *)
LEMMA JoinAssociative ==
  ASSUME NEW s \in Text, NEW t \in Text, NEW u \in Text
  PROVE  (s \o t) \o u = s \o (t \o u)
BY ConcatAssociative DEF Text

(* Of two ways to divide the same text, one divides a part of the other.   *)
Divided(u, v, l, r) ==
  /\ Upto(u, Len(l)) = l
  /\ From(u, Len(l)) \in Text /\ Len(From(u, Len(l))) = Len(u) - Len(l)
  /\ From(u, Len(l)) \o v = r
  /\ u = l \o From(u, Len(l))

(* If l ends in u, u is l and a beginning of r.                            *)
LEMMA SplitAt ==
  ASSUME NEW u \in Text, NEW v \in Text, NEW l \in Text, NEW r \in Text,
         u \o v = l \o r, Len(l) <= Len(u)
  PROVE  Divided(u, v, l, r)
<1>1. PICK n \in Nat : n = Len(l)
  BY TextJoin
<1>2. /\ Upto(u, n) \in Text /\ Len(Upto(u, n)) = n
      /\ From(u, n) \in Text /\ Len(From(u, n)) = Len(u) - n
      /\ \A i \in 1..n : Upto(u, n)[i] = u[i]
      /\ Upto(u, n) \o From(u, n) = u
  BY <1>1, TextParts
<1>3. \A i \in 1..n : u[i] = l[i]
  <2>1. \A i \in 1..Len(u) : (u \o v)[i] = u[i]
    BY TextJoin
  <2>2. \A i \in 1..n : (u \o v)[i] = l[i]
    BY <1>1, TextJoin
  <2>3. Len(u) \in Nat /\ n <= Len(u)
    BY <1>1, TextJoin
  <2> QED
    BY <2>1, <2>2, <2>3
<1>4. Upto(u, n) = l
  BY <1>1, <1>2, <1>3, TextEqual
<1>5. l \o (From(u, n) \o v) = l \o r
  <2>1. (Upto(u, n) \o From(u, n)) \o v = Upto(u, n) \o (From(u, n) \o v)
    BY <1>2, JoinAssociative, ZenonT(30)
  <2> QED
    BY <1>2, <1>4, <2>1
<1>6. From(u, n) \o v \in Text
  BY <1>2, TextJoin
<1>7. From(u, n) \o v = r
  BY <1>5, <1>6, ConcatSimplifications DEF Text
<1> QED
  BY <1>1, <1>2, <1>4, <1>7 DEF Divided

-----------------------------------------------------------------------------
(* Find: the first place of a line end, and of a space.                    *)

(* Find gives the first place of t in s, or -1 if there is none.           *)
LEMMA FindMeaning ==
  ASSUME NEW s \in Text, NEW t \in Text
  PROVE  \/ /\ Find(s, t) = -1
            /\ \A i \in 0..(Len(s) - Len(t)) : SubSeq(s, i + 1, i + Len(t)) # t
         \/ /\ Find(s, t) \in 0..(Len(s) - Len(t))
            /\ SubSeq(s, Find(s, t) + 1, Find(s, t) + Len(t)) = t
            /\ \A i \in 0..(Len(s) - Len(t)) :
                 SubSeq(s, i + 1, i + Len(t)) = t => Find(s, t) <= i
<1> DEFINE at == {i \in 0..(Len(s) - Len(t)) : SubSeq(s, i + 1, i + Len(t)) = t}
<1>1. CASE at = {}
  BY <1>1 DEF Find
<1>2. CASE at # {}
  <2>1. \E x \in at : \A y \in at : x <= y
    <3>1. at \subseteq Nat
      OBVIOUS
    <3> QED
      BY <1>2, <3>1, LeastNumber
  <2>2. Find(s, t) = Min(at)
    BY <1>2 DEF Find
  <2>3. Find(s, t) \in at /\ \A y \in at : Find(s, t) <= y
    <3> HIDE DEF at
    <3> QED
      BY <2>1, <2>2 DEF Min
  <2> QED
    BY <2>3
<1> QED
  BY <1>1, <1>2

LineEndAt(s, n) == n + 2 <= Len(s) /\ s[n + 1] = CR /\ s[n + 2] = LF
SpaceAt(s, n) == n + 1 <= Len(s) /\ s[n + 1] = SP

(* The symbols that the parsers look for.                                  *)
LEMMA Symbols ==
  /\ CR \in Symbol /\ LF \in Symbol /\ SP \in Symbol
  /\ CR # LF /\ CR # SP /\ LF # SP
  /\ CRLF \in Text /\ Len(CRLF) = 2 /\ CRLF[1] = CR /\ CRLF[2] = LF
  /\ <<SP>> \in Text /\ Len(<<SP>>) = 1 /\ <<SP>>[1] = SP
  /\ <<>> \in Text /\ Len(<<>>) = 0
BY DEF CR, LF, SP, CRLF, Text, Symbol

(* Where CRLF stands, by its symbols.                                      *)
LEMMA LineEndMeaning ==
  ASSUME NEW s \in Text, NEW i \in Nat, i <= Len(s) - 2
  PROVE  SubSeq(s, i + 1, i + 2) = CRLF <=> LineEndAt(s, i)
<1>1. PICK m, n : m = i + 1 /\ n = i + 2 /\ m \in Nat /\ n \in Nat
  OBVIOUS
<1>2. \A k \in m..n : s[k] \in Symbol
  BY <1>1, TextParts, ElementOfSeq DEF Text
<1>3. /\ SubSeq(s, m, n) \in Text /\ Len(SubSeq(s, m, n)) = 2
      /\ \A k \in 1..2 : SubSeq(s, m, n)[k] = s[i + k]
  <2>1. /\ SubSeq(s, m, n) \in Seq(Symbol)
        /\ Len(SubSeq(s, m, n)) = IF m <= n THEN n - m + 1 ELSE 0
        /\ \A k \in 1..(n - m + 1) : SubSeq(s, m, n)[k] = s[m + k - 1]
    BY <1>1, <1>2, SubSeqProperties
  <2> QED
    BY <1>1, <2>1 DEF Text
<1>4. SubSeq(s, m, n) = CRLF <=> s[m] = CR /\ s[n] = LF
  <2>1. PICK x, y : x = SubSeq(s, m, n) /\ y = CRLF
    OBVIOUS
  <2>2. /\ x \in Text /\ y \in Text /\ Len(x) = 2 /\ Len(y) = 2
        /\ y[1] = CR /\ y[2] = LF
    BY <1>3, <2>1, Symbols
  <2>3. x[1] = s[m] /\ x[2] = s[n]
    <3>1. \A k \in 1..2 : x[k] = s[i + k]
      BY <1>3, <2>1
    <3>2. x[1] = s[i + 1] /\ x[2] = s[i + 2]
      BY <3>1
    <3> QED
      BY <1>1, <3>2
  <2>4. x[1] = y[1] /\ x[2] = y[2] => x = y
    BY <2>2, TextEqual
  <2> QED
    BY <2>1, <2>2, <2>3, <2>4
<1>5. Len(s) \in Nat
  BY TextJoin
<1> QED
  BY <1>1, <1>4, <1>5 DEF LineEndAt

(* Where a space stands.                                                   *)
LEMMA SpaceMeaning ==
  ASSUME NEW s \in Text, NEW i \in Nat, i <= Len(s) - 1
  PROVE  SubSeq(s, i + 1, i + 1) = <<SP>> <=> SpaceAt(s, i)
<1>1. PICK m : m = i + 1 /\ m \in Nat
  OBVIOUS
<1>2. Len(s) \in Nat
  BY TextJoin
<1>3. s[m] \in Symbol
  BY <1>1, <1>2, ElementOfSeq DEF Text
<1>4. /\ SubSeq(s, m, m) \in Text /\ Len(SubSeq(s, m, m)) = 1
      /\ SubSeq(s, m, m)[1] = s[m]
  <2>1. /\ SubSeq(s, m, m) \in Seq(Symbol)
        /\ Len(SubSeq(s, m, m)) = IF m <= m THEN m - m + 1 ELSE 0
        /\ \A k \in 1..(m - m + 1) : SubSeq(s, m, m)[k] = s[m + k - 1]
    BY <1>1, <1>3, SubSeqProperties
  <2> QED
    BY <1>1, <2>1 DEF Text
<1>5. SubSeq(s, m, m) = <<SP>> <=> SubSeq(s, m, m)[1] = <<SP>>[1]
  <2>1. PICK x, y : x = SubSeq(s, m, m) /\ y = <<SP>>
    OBVIOUS
  <2>2. x \in Text /\ y \in Text /\ Len(x) = 1 /\ Len(y) = 1
    BY <1>4, <2>1, Symbols
  <2>3. x[1] = y[1] => x = y
    BY <2>2, TextEqual
  <2> QED
    BY <2>1, <2>3
<1> QED
  BY <1>1, <1>2, <1>4, <1>5, Symbols DEF SpaceAt

(* Find with CRLF gives the first line end.                                *)
LEMMA FindLineEnd ==
  ASSUME NEW s \in Text
  PROVE  \/ Find(s, CRLF) = -1 /\ \A i \in Nat : ~LineEndAt(s, i)
         \/ /\ Find(s, CRLF) \in Nat /\ LineEndAt(s, Find(s, CRLF))
            /\ \A i \in Nat : LineEndAt(s, i) => Find(s, CRLF) <= i
<1>1. Len(s) \in Nat /\ CRLF \in Text /\ Len(CRLF) = 2
  BY TextJoin, Symbols
<1>2. PICK n, t : n = Find(s, t) /\ t = CRLF
  OBVIOUS
<1>3. \/ n = -1 /\ \A i \in 0..(Len(s) - 2) : SubSeq(s, i + 1, i + 2) # t
      \/ /\ n \in 0..(Len(s) - 2) /\ SubSeq(s, n + 1, n + 2) = t
         /\ \A i \in 0..(Len(s) - 2) : SubSeq(s, i + 1, i + 2) = t => n <= i
  BY <1>1, <1>2, FindMeaning, ZenonT(30)
<1>4. \A i \in Nat : LineEndAt(s, i) <=>
        i \in 0..(Len(s) - 2) /\ SubSeq(s, i + 1, i + 2) = t
  <2>1. ASSUME NEW i \in Nat
        PROVE  LineEndAt(s, i) <=>
                 i \in 0..(Len(s) - 2) /\ SubSeq(s, i + 1, i + 2) = t
    <3>1. CASE i <= Len(s) - 2
      BY <1>1, <1>2, <3>1, LineEndMeaning
    <3>2. CASE ~(i <= Len(s) - 2)
      BY <1>1, <3>2 DEF LineEndAt
    <3> QED
      BY <3>1, <3>2
  <2> QED
    BY <2>1
<1>5. \/ n = -1 /\ \A i \in Nat : ~LineEndAt(s, i)
      \/ /\ n \in Nat /\ LineEndAt(s, n)
         /\ \A i \in Nat : LineEndAt(s, i) => n <= i
  <2> HIDE DEF LineEndAt
  <2>1. n \in 0..(Len(s) - 2) => n \in Nat
    BY <1>1
  <2> QED
    BY <1>3, <1>4, <2>1
<1> QED
  BY <1>2, <1>5

(* Find with a space gives the first space.                                *)
LEMMA FindSpace ==
  ASSUME NEW s \in Text
  PROVE  \/ Find(s, <<SP>>) = -1 /\ \A i \in Nat : ~SpaceAt(s, i)
         \/ /\ Find(s, <<SP>>) \in Nat /\ SpaceAt(s, Find(s, <<SP>>))
            /\ \A i \in Nat : SpaceAt(s, i) => Find(s, <<SP>>) <= i
<1>1. Len(s) \in Nat /\ <<SP>> \in Text /\ Len(<<SP>>) = 1
  BY TextJoin, Symbols
<1>2. PICK n, t : n = Find(s, t) /\ t = <<SP>>
  OBVIOUS
<1>3. \/ n = -1 /\ \A i \in 0..(Len(s) - 1) : SubSeq(s, i + 1, i + 1) # t
      \/ /\ n \in 0..(Len(s) - 1) /\ SubSeq(s, n + 1, n + 1) = t
         /\ \A i \in 0..(Len(s) - 1) : SubSeq(s, i + 1, i + 1) = t => n <= i
  BY <1>1, <1>2, FindMeaning
<1>4. \A i \in Nat : SpaceAt(s, i) <=>
        i \in 0..(Len(s) - 1) /\ SubSeq(s, i + 1, i + 1) = t
  <2>1. ASSUME NEW i \in Nat
        PROVE  SpaceAt(s, i) <=>
                 i \in 0..(Len(s) - 1) /\ SubSeq(s, i + 1, i + 1) = t
    <3>1. CASE i <= Len(s) - 1
      BY <1>1, <1>2, <3>1, SpaceMeaning
    <3>2. CASE ~(i <= Len(s) - 1)
      BY <1>1, <3>2 DEF SpaceAt
    <3> QED
      BY <3>1, <3>2
  <2> QED
    BY <2>1
<1>5. \/ n = -1 /\ \A i \in Nat : ~SpaceAt(s, i)
      \/ /\ n \in Nat /\ SpaceAt(s, n)
         /\ \A i \in Nat : SpaceAt(s, i) => n <= i
  <2>1. n \in 0..(Len(s) - 1) => n \in Nat
    BY <1>1
  <2> QED
    BY <1>3, <1>4, <2>1
<1> QED
  BY <1>2, <1>5

-----------------------------------------------------------------------------
(* The loop over header lines.                                             *)

(* The types of a parser's fields.                                         *)
LEMMA MessageFields ==
  ASSUME NEW m \in Message
  PROVE  /\ m.unparsed \in Text /\ m.body \in Text /\ m.headers \in SUBSET Text
         /\ m.title \in RequestTitles \cup ResponseTitles
         /\ m.title_parsed \in BOOLEAN /\ m.headers_parsed \in BOOLEAN
         /\ m.body_parsed \in BOOLEAN /\ m.threw \in BOOLEAN
         /\ Len(m.unparsed) \in Nat /\ Len(m.body) \in Nat
<1>1. m.unparsed \in Text /\ m.body \in Text
  BY DEF Message
<1>2. Len(m.unparsed) \in Nat /\ Len(m.body) \in Nat
  BY <1>1, TextJoin
<1> QED
  BY <1>1, <1>2 DEF Message

(* What a turn does, by what it finds.                                     *)
LEMMA HeaderStepEffect ==
  ASSUME NEW m \in Message
  PROVE  LET next == Find(m.unparsed, CRLF) IN
         \/ (m.headers_parsed \/ next = -1) /\ HeaderStep(m) = m
         \/ /\ ~m.headers_parsed /\ next = 0
            /\ HeaderStep(m) = [m EXCEPT !.headers_parsed = TRUE,
                                         !.unparsed = From(m.unparsed, 2)]
            /\ Len(m.unparsed) >= 2
         \/ /\ ~m.headers_parsed /\ next \in Nat \ {0}
            /\ HeaderStep(m) =
                 [m EXCEPT !.headers = m.headers \cup {Upto(m.unparsed, next)},
                           !.unparsed = From(m.unparsed, next + 2)]
            /\ Len(m.unparsed) >= next + 2
<1>1. PICK s, next : s = m.unparsed /\ next = Find(s, CRLF)
  OBVIOUS
<1>2. s \in Text /\ Len(s) \in Nat
  BY <1>1, MessageFields
<1>3. next = -1 \/ (next \in Nat /\ next + 2 <= Len(s))
  BY <1>1, <1>2, FindLineEnd DEF LineEndAt
<1>4. CASE m.headers_parsed \/ next = -1
  BY <1>1, <1>4 DEF HeaderStep
<1>5. CASE ~m.headers_parsed /\ next = 0
  BY <1>1, <1>2, <1>3, <1>5 DEF HeaderStep
<1>6. CASE ~m.headers_parsed /\ next \in Nat \ {0}
  BY <1>1, <1>2, <1>3, <1>6 DEF HeaderStep
<1> QED
  BY <1>1, <1>3, <1>4, <1>5, <1>6

HeaderTurn(m) == IF m.threw THEN m ELSE HeaderStep(m)

(* A turn leaves a parser, and takes away some of its text or ends the     *)
(* loop.                                                                   *)
LEMMA HeaderTurnType ==
  ASSUME NEW m \in Message
  PROVE  /\ HeaderTurn(m) \in Message
         /\ HeaderTurn(m) # m => Len(HeaderTurn(m).unparsed) < Len(m.unparsed)
<1>1. PICK s, next : s = m.unparsed /\ next = Find(s, CRLF)
  OBVIOUS
<1>2. s \in Text /\ Len(s) \in Nat
  BY <1>1, MessageFields
<1>3. CASE HeaderTurn(m) = m
  BY <1>3
<1>4. CASE /\ HeaderTurn(m) = [m EXCEPT !.headers_parsed = TRUE,
                                        !.unparsed = From(s, 2)]
           /\ Len(s) >= 2
  <2>1. PICK u : u = From(s, 2)
    OBVIOUS
  <2>2. u \in Text /\ Len(u) = Len(s) - 2
    BY <1>2, <1>4, <2>1, TextParts
  <2>3. HeaderTurn(m) \in Message /\ HeaderTurn(m).unparsed = u
    BY <1>4, <2>1, <2>2 DEF Message
  <2> QED
    BY <1>1, <1>2, <2>2, <2>3
<1>5. CASE /\ next \in Nat \ {0} /\ Len(s) >= next + 2
           /\ HeaderTurn(m) = [m EXCEPT !.headers = m.headers \cup {Upto(s, next)},
                                        !.unparsed = From(s, next + 2)]
  <2>1. PICK n \in Nat : n = next + 2 /\ n <= Len(s) /\ next <= Len(s)
    BY <1>2, <1>5
  <2>2. PICK u, h : u = From(s, n) /\ h = m.headers \cup {Upto(s, next)}
    OBVIOUS
  <2>3. u \in Text /\ Len(u) = Len(s) - n
    BY <1>2, <1>5, <2>1, <2>2, TextParts
  <2>4. h \in SUBSET Text
    BY <1>2, <1>5, <2>1, <2>2, MessageFields, TextParts
  <2>5. HeaderTurn(m) \in Message /\ HeaderTurn(m).unparsed = u
    BY <1>5, <2>1, <2>2, <2>3, <2>4 DEF Message
  <2> QED
    BY <1>1, <1>2, <1>5, <2>1, <2>3, <2>5
<1> QED
  BY <1>1, <1>3, <1>4, <1>5, HeaderStepEffect DEF HeaderTurn

(* Headers is the loop of this turn.                                       *)
LEMMA HeadersLoop == Loop(Message, [m \in Message |-> HeaderTurn(m)], Headers)
<1> DEFINE F == [m \in Message |-> HeaderTurn(m)]
<1>1. F \in [Message -> Message]
  BY HeaderTurnType
<1>2. \A h : Loop(Message, F, h) <=>
        h = [m \in Message |-> IF m.threw \/ HeaderStep(m) = m THEN m
                               ELSE h[HeaderStep(m)]]
  <2>1. SUFFICES ASSUME NEW h
                 PROVE  [m \in Message |-> IF F[m] = m THEN m ELSE h[F[m]]]
                        = [m \in Message |-> IF m.threw \/ HeaderStep(m) = m THEN m
                                             ELSE h[HeaderStep(m)]]
    BY DEF Loop
  <2>2. ASSUME NEW m \in Message
        PROVE  (IF F[m] = m THEN m ELSE h[F[m]])
               = IF m.threw \/ HeaderStep(m) = m THEN m ELSE h[HeaderStep(m)]
    BY MessageFields DEF HeaderTurn
  <2> QED
    BY <2>2
<1>3. \E h : Loop(Message, F, h)
  <2> HIDE DEF F
  <2> QED
    BY <1>1, LoopExists
<1>4. Headers = [m \in Message |-> IF m.threw \/ HeaderStep(m) = m THEN m
                                   ELSE Headers[HeaderStep(m)]]
  <2>1. \E h : h = [m \in Message |-> IF m.threw \/ HeaderStep(m) = m THEN m
                                      ELSE h[HeaderStep(m)]]
    BY <1>2, <1>3
  <2> QED
    BY <2>1 DEF Headers
<1> QED
  BY <1>2, <1>4

(* The loop ends where a turn changes nothing, and keeps what a turn does. *)
LEMMA HeadersRun ==
  ASSUME NEW T \in SUBSET Message, \A m \in T : HeaderTurn(m) \in T, NEW m \in T
  PROVE  Headers[m] \in T /\ HeaderTurn(Headers[m]) = Headers[m]
<1> DEFINE F == [x \in Message |-> HeaderTurn(x)]
           size == [x \in Message |-> Len(x.unparsed)]
<1>1. F \in [Message -> Message] /\ size \in [Message -> Nat]
  BY HeaderTurnType, MessageFields
<1>2. \A x \in Message : F[x] # x => size[F[x]] < size[x]
  BY HeaderTurnType
<1>3. \A x \in T : F[x] \in T
  OBVIOUS
<1>4. Loop(Message, F, Headers)
  BY HeadersLoop
<1>5. Headers[m] \in T /\ F[Headers[m]] = Headers[m]
  <2> HIDE DEF F, size
  <2> QED
    BY <1>1, <1>2, <1>3, <1>4, LoopEnds
<1> QED
  BY <1>5

-----------------------------------------------------------------------------
(* FlattenSeq: all the texts of a sequence, one after the other.           *)

Flat(ss, f) ==
  f = [i \in 1..Len(ss) |-> IF i = 1 THEN ss[i] ELSE f[i - 1] \o ss[i]]

(* The joins of all the beginnings of a sequence of texts.                 *)
LEMMA FlatExists ==
  ASSUME NEW ss \in Seq(Text)
  PROVE  \E f : Flat(ss, f)
<1> DEFINE T == {n \in Nat : \E f : f = [i \in 1..n |-> IF i = 1 THEN ss[i]
                                                        ELSE f[i - 1] \o ss[i]]}
<1>1. 0 \in T
  <2>1. [i \in 1..0 |-> 0] = [i \in 1..0 |-> IF i = 1 THEN ss[i]
                                ELSE [j \in 1..0 |-> 0][i - 1] \o ss[i]]
    OBVIOUS
  <2> QED
    BY <2>1
<1>2. ASSUME NEW n \in T
      PROVE  n + 1 \in T
  <2>1. PICK f : f = [i \in 1..n |-> IF i = 1 THEN ss[i] ELSE f[i - 1] \o ss[i]]
    OBVIOUS
  <2> DEFINE last == IF n = 0 THEN ss[1] ELSE f[n] \o ss[n + 1]
             g == [i \in 1..(n + 1) |-> IF i = n + 1 THEN last ELSE f[i]]
  <2>2. ASSUME NEW i \in 1..(n + 1)
        PROVE  g[i] = IF i = 1 THEN ss[i] ELSE g[i - 1] \o ss[i]
    <3>1. CASE i = n + 1
      <4>1. n = 0 \/ (i # 1 /\ i - 1 = n /\ n \in 1..(n + 1) /\ n # n + 1)
        BY <3>1
      <4> QED
        BY <3>1, <4>1
    <3>2. CASE i # n + 1
      <4>1. i \in 1..n /\ (i # 1 => i - 1 \in 1..(n + 1) /\ i - 1 # n + 1)
        BY <3>2
      <4>2. f[i] = IF i = 1 THEN ss[i] ELSE f[i - 1] \o ss[i]
        BY <2>1, <4>1
      <4> QED
        BY <3>2, <4>1, <4>2
    <3> QED
      BY <3>1, <3>2
  <2>3. g = [i \in 1..(n + 1) |-> IF i = 1 THEN ss[i] ELSE g[i - 1] \o ss[i]]
    <3>1. g = [i \in 1..(n + 1) |-> g[i]]
      OBVIOUS
    <3> HIDE DEF g
    <3> QED
      BY <2>2, <3>1
  <2>4. PICK m \in Nat : m = n + 1
    OBVIOUS
  <2>5. \E h : h = [i \in 1..m |-> IF i = 1 THEN ss[i] ELSE h[i - 1] \o ss[i]]
    <3> HIDE DEF g
    <3> QED
      BY <2>3, <2>4
  <2>6. m \in T
    BY <2>5
  <2> QED
    BY <2>4, <2>6
<1>3. T = Nat
  BY <1>1, <1>2, Induction
<1> QED
  BY <1>3, LenProperties, ZenonT(30) DEF Flat

(* They are texts.                                                         *)
LEMMA FlatType ==
  ASSUME NEW ss \in Seq(Text), NEW f, Flat(ss, f), NEW k \in 1..Len(ss)
  PROVE  f[k] \in Text
<1> DEFINE Good(n) == \A i \in 1..Len(ss) : i = n + 1 => f[i] \in Text
<1>1. \A i \in 1..Len(ss) :
        ss[i] \in Text /\ f[i] = IF i = 1 THEN ss[i] ELSE f[i - 1] \o ss[i]
  BY ElementOfSeq DEF Flat
<1>2. Len(ss) \in Nat
  BY LenProperties
<1>3. Good(0)
  BY <1>1
<1>4. ASSUME NEW n \in Nat, Good(n)
      PROVE  Good(n + 1)
  <2>1. SUFFICES ASSUME NEW i \in 1..Len(ss), i = (n + 1) + 1
                 PROVE  f[i] \in Text
    OBVIOUS
  <2>2. i # 1 /\ i - 1 = n + 1 /\ i - 1 \in 1..Len(ss)
    BY <1>2, <2>1
  <2>3. f[i - 1] \in Text
    BY <1>4, <2>2
  <2>4. f[i] = f[i - 1] \o ss[i] /\ ss[i] \in Text
    BY <1>1, <2>2
  <2> QED
    BY <2>2, <2>3, <2>4, TextJoin
<1>5. \A n \in Nat : Good(n)
  <2> DEFINE T == {n \in Nat : Good(n)}
  <2> HIDE DEF Good
  <2>1. 0 \in T /\ \A n \in T : n + 1 \in T
    BY <1>3, <1>4
  <2>2. T = Nat
    <3> HIDE DEF T
    <3>1. T \in SUBSET Nat
      BY DEF T
    <3> QED
      BY <2>1, <3>1, Induction
  <2> QED
    BY <2>2
<1>6. Good(k - 1) /\ k = (k - 1) + 1
  <2>1. k - 1 \in Nat /\ k = (k - 1) + 1
    BY <1>2
  <2> HIDE DEF Good
  <2> QED
    BY <1>5, <2>1
<1> QED
  BY <1>6

(* Those of a sequence, and those of the sequence without its first text.  *)
LEMMA FlatShift ==
  ASSUME NEW ss \in Seq(Text), ss # <<>>, NEW f, Flat(ss, f),
         NEW g, Flat(Tail(ss), g), NEW k \in 1..Len(Tail(ss))
  PROVE  f[k + 1] = Head(ss) \o g[k]
<1>1. PICK tt : tt = Tail(ss) /\ tt \in Seq(Text)
  BY HeadTailProperties
<1>2. /\ Len(ss) \in Nat /\ Len(tt) = Len(ss) - 1 /\ Head(ss) = ss[1]
      /\ \A i \in 1..Len(tt) : tt[i] = ss[i + 1]
  BY <1>1, HeadTailProperties, LenProperties
<1> DEFINE Good(n) == \A i \in 1..Len(tt) :
                        i = n + 1 => f[i + 1] = ss[1] \o g[i]
<1>3. \A i \in 1..Len(ss) :
        /\ ss[i] \in Text /\ f[i] \in Text
        /\ f[i] = IF i = 1 THEN ss[i] ELSE f[i - 1] \o ss[i]
  BY ElementOfSeq, FlatType DEF Flat
<1>4. \A i \in 1..Len(tt) :
        g[i] \in Text /\ g[i] = IF i = 1 THEN tt[i] ELSE g[i - 1] \o tt[i]
  BY <1>1, FlatType DEF Flat
<1>5. Good(0)
  <2>1. SUFFICES ASSUME NEW j \in 1..Len(tt), j = 0 + 1
                 PROVE  f[j + 1] = ss[1] \o g[j]
    OBVIOUS
  <2>2. PICK i \in 1..Len(ss) : /\ i = j + 1 /\ i # 1 /\ i - 1 = j
                                /\ j = 1 /\ j \in 1..Len(ss)
    BY <1>2, <2>1
  <2>3. g[j] = tt[j] /\ tt[j] = ss[i]
    BY <1>2, <1>4, <2>2
  <2>4. f[j] = ss[1]
    BY <1>3, <2>2
  <2>5. f[i] = f[j] \o ss[i]
    BY <1>3, <2>2
  <2> QED
    BY <2>2, <2>3, <2>4, <2>5
<1>6. ASSUME NEW n \in Nat, Good(n)
      PROVE  Good(n + 1)
  <2>1. SUFFICES ASSUME NEW j \in 1..Len(tt), j = (n + 1) + 1
                 PROVE  f[j + 1] = ss[1] \o g[j]
    OBVIOUS
  <2>2. PICK i \in 1..Len(tt) :
          /\ i = n + 1 /\ j - 1 = i /\ j = i + 1 /\ j # 1 /\ j \in 1..Len(ss)
          /\ j + 1 \in 1..Len(ss) /\ (j + 1) - 1 = j /\ j + 1 # 1
    BY <1>2, <2>1
  <2>3. f[j] = ss[1] \o g[i]
    BY <1>6, <2>2
  <2>4. f[j + 1] = f[j] \o ss[j + 1] /\ ss[j + 1] = tt[j]
    BY <1>2, <1>3, <2>2
  <2>5. g[j] = g[i] \o tt[j]
    BY <1>4, <2>2
  <2>6. ss[1] \in Text /\ g[i] \in Text /\ tt[j] \in Text
    <3>1. ss[1] \in Text
      BY <1>3, <2>2
    <3>2. g[i] \in Text
      BY <1>4, <2>2
    <3> QED
      BY <1>1, <2>2, <3>1, <3>2, ElementOfSeq
  <2>7. (ss[1] \o g[i]) \o tt[j] = ss[1] \o (g[i] \o tt[j])
    BY <2>6, JoinAssociative
  <2> QED
    BY <2>2, <2>3, <2>4, <2>5, <2>7
<1>7. \A n \in Nat : Good(n)
  <2> DEFINE T == {n \in Nat : Good(n)}
  <2> HIDE DEF Good
  <2>1. 0 \in T /\ \A n \in T : n + 1 \in T
    BY <1>5, <1>6
  <2>2. T = Nat
    <3> HIDE DEF T
    <3>1. T \in SUBSET Nat
      BY DEF T
    <3> QED
      BY <2>1, <3>1, Induction
  <2> QED
    BY <2>2
<1>8. Good(k - 1) /\ k = (k - 1) + 1 /\ k \in 1..Len(tt)
  <2>1. k - 1 \in Nat /\ k = (k - 1) + 1 /\ k \in 1..Len(tt)
    BY <1>1, <1>2
  <2> HIDE DEF Good
  <2> QED
    BY <1>7, <2>1
<1> QED
  BY <1>2, <1>8

(* FlattenSeq is the last of them.                                         *)
LEMMA FlattenIs ==
  ASSUME NEW ss \in Seq(Text), ss # <<>>
  PROVE  \E f : Flat(ss, f) /\ FlattenSeq(ss) = f[Len(ss)]
<1>1. \E f : Flat(ss, f)
  BY FlatExists
<1>2. Len(ss) # 0
  BY EmptySeq
<1> QED
  BY <1>1, <1>2 DEF FlattenSeq, Flat

(* FlattenSeq begins with the first text, and continues with the others.   *)
LEMMA Flatten ==
  ASSUME NEW ss \in Seq(Text)
  PROVE  /\ FlattenSeq(ss) \in Text
         /\ ss = <<>> => FlattenSeq(ss) = <<>>
         /\ ss # <<>> => FlattenSeq(ss) = Head(ss) \o FlattenSeq(Tail(ss))
<1>1. FlattenSeq(<<>>) = <<>>
  BY DEF FlattenSeq
<1>2. CASE ss = <<>>
  BY <1>1, <1>2, Symbols
<1>3. CASE ss # <<>>
  <2>1. PICK f : Flat(ss, f) /\ FlattenSeq(ss) = f[Len(ss)]
    BY <1>3, FlattenIs
  <2>2. PICK tt \in Seq(Text) : tt = Tail(ss) /\ Len(tt) = Len(ss) - 1
    BY <1>3, HeadTailProperties
  <2>3. Len(ss) \in Nat \ {0} /\ Head(ss) = ss[1] /\ ss[1] \in Text
    BY <1>3, EmptySeq, LenProperties, ElementOfSeq
  <2>4. FlattenSeq(ss) \in Text
    BY <2>1, <2>3, FlatType
  <2>5. CASE tt = <<>>
    <3>1. Len(ss) = 1
      <4>1. Len(tt) = 0
        BY <2>5, EmptySeq
      <4> QED
        BY <2>2, <2>3, <4>1
    <3>2. FlattenSeq(ss) = ss[1]
      BY <2>1, <3>1 DEF Flat
    <3>3. ss[1] \o <<>> = ss[1]
      BY <2>3, ConcatEmptySeq DEF Text
    <3> QED
      BY <1>1, <1>3, <2>2, <2>3, <2>4, <2>5, <3>2, <3>3
  <2>6. CASE tt # <<>>
    <3>1. PICK g : Flat(tt, g) /\ FlattenSeq(tt) = g[Len(tt)]
      BY <2>6, FlattenIs
    <3>2. Len(tt) \in 1..Len(tt) /\ Len(tt) + 1 = Len(ss)
      BY <2>2, <2>3, <2>6, EmptySeq
    <3>3. f[Len(tt) + 1] = Head(ss) \o g[Len(tt)]
      BY <1>3, <2>1, <2>2, <3>1, <3>2, FlatShift, ZenonT(30)
    <3> QED
      BY <1>3, <2>1, <2>2, <2>4, <3>1, <3>2, <3>3
  <2> QED
    BY <2>5, <2>6
<1> QED
  BY <1>2, <1>3

-----------------------------------------------------------------------------
(* The next line and the next word of a text of which a part, u, is here.  *)

(* A text between two others.  (A name for what is known of it keeps the   *)
(* provers from joining texts that no step speaks of.)                     *)
Between(l, c, r) ==
  /\ c \o r \in Text /\ l \o (c \o r) \in Text
  /\ l \o c \in Text /\ Len(l \o c) = Len(l) + Len(c)
  /\ (l \o c) \o r = l \o (c \o r)
  /\ \A i \in 1..Len(l) : (l \o (c \o r))[i] = l[i]
  /\ \A i \in 1..Len(c) : (l \o (c \o r))[Len(l) + i] = c[i]

(* The text between two others, its beginning, and its end.                *)
LEMMA TextBetween ==
  ASSUME NEW l \in Text, NEW c \in Text, NEW r \in Text
  PROVE  Between(l, c, r)
<1>1. PICK t \in Text : t = c \o r /\ \A i \in 1..Len(c) : t[i] = c[i]
  BY TextJoin
<1>2. Len(t) \in Nat /\ Len(c) \in Nat /\ Len(c) <= Len(t)
  <2>1. Len(t) = Len(c) + Len(r) /\ Len(r) \in Nat /\ Len(c) \in Nat
    BY <1>1, TextJoin
  <2> QED
    BY <2>1
<1>3. /\ l \o t \in Text /\ \A i \in 1..Len(l) : (l \o t)[i] = l[i]
      /\ \A i \in 1..Len(t) : (l \o t)[Len(l) + i] = t[i]
  BY <1>1, TextJoin
<1>4. \A i \in 1..Len(c) : (l \o t)[Len(l) + i] = c[i]
  BY <1>1, <1>2, <1>3
<1>5. l \o c \in Text /\ Len(l \o c) = Len(l) + Len(c)
  BY TextJoin
<1>6. (l \o c) \o r = l \o (c \o r)
  BY JoinAssociative
<1> QED
  BY <1>1, <1>3, <1>4, <1>5, <1>6 DEF Between

(* A line is found when it and its line end are here.                      *)
LineFound(u, v, l, r) ==
  \/ Find(u, CRLF) = -1 /\ Len(u) < Len(l) + 2
  \/ /\ Find(u, CRLF) = Len(l) /\ Len(u) >= Len(l) + 2
     /\ Upto(u, Len(l)) = l
     /\ From(u, Len(l) + 2) \in Text
     /\ From(u, Len(l) + 2) \o v = r

(* What a line is: its end is not within it.                               *)
OneLine(l) ==
  \/ \A i \in 1..Len(l) : l[i] # CR
  \/ \A i \in 1..Len(l) : l[i] # LF

(* A text that begins with a line, of which u is here.                     *)
LEMMA NextLine ==
  ASSUME NEW u \in Text, NEW v \in Text, NEW l \in Text, NEW r \in Text,
         u \o v = l \o (CRLF \o r), OneLine(l)
  PROVE  LineFound(u, v, l, r)
<1>1. PICK k \in Nat, n \in Nat : k = Len(l) /\ n = Len(u)
  BY TextJoin
<1>2. CRLF \in Text /\ Len(CRLF) = 2 /\ CRLF[1] = CR /\ CRLF[2] = LF
  BY Symbols
<1> Between(l, CRLF, r)
  BY <1>2, TextBetween
<1>3. PICK t \in Text : t = CRLF \o r
  BY DEF Between
<1>4. /\ \A i \in 1..n : (l \o t)[i] = u[i]
      /\ \A i \in 1..k : (l \o t)[i] = l[i]
      /\ (l \o t)[k + 1] = CR /\ (l \o t)[k + 2] = LF
  <2>1. \A i \in 1..n : (u \o v)[i] = u[i]
    BY <1>1, TextJoin
  <2>2. u \o v = l \o t
    BY <1>3
  <2>3. /\ \A i \in 1..k : (l \o t)[i] = l[i]
        /\ \A i \in 1..Len(CRLF) : (l \o t)[k + i] = CRLF[i]
    BY <1>1, <1>3 DEF Between
  <2>4. 1 \in 1..Len(CRLF) /\ 2 \in 1..Len(CRLF)
    BY <1>2
  <2>5. (l \o t)[k + 1] = CRLF[1] /\ (l \o t)[k + 2] = CRLF[2]
    BY <2>3, <2>4
  <2> QED
    BY <1>2, <2>1, <2>2, <2>3, <2>5
<1>5. LineEndAt(u, k) <=> n >= k + 2
  <2>1. n >= k + 2 => k + 1 \in 1..n /\ k + 2 \in 1..n
    BY <1>1
  <2> QED
    BY <1>1, <1>4, <2>1 DEF LineEndAt
<1>6. \A i \in Nat : LineEndAt(u, i) => i >= k
  <2>1. SUFFICES ASSUME NEW i \in Nat, LineEndAt(u, i), i < k
                 PROVE  FALSE
    BY <1>1
  <2>2. /\ i + 1 \in 1..n /\ i + 1 \in 1..k /\ u[i + 1] = CR
        /\ i + 2 \in 1..n /\ i + 2 \in 1..(k + 1) /\ u[i + 2] = LF
    BY <1>1, <2>1 DEF LineEndAt
  <2>3. l[i + 1] = CR
    BY <1>4, <2>2
  <2>4. i + 2 \in 1..k \/ i + 2 = k + 1
    BY <1>1, <2>2
  <2>5. i + 2 \in 1..k => l[i + 2] = LF
    BY <1>4, <2>2
  <2>6. i + 2 # k + 1
    BY <1>4, <2>2, Symbols
  <2> QED
    BY <1>1, <2>2, <2>3, <2>4, <2>5, <2>6 DEF OneLine
<1>7. CASE n < k + 2
  <2>1. \A i \in Nat : ~LineEndAt(u, i)
    <3>1. SUFFICES ASSUME NEW i \in Nat, LineEndAt(u, i)
                   PROVE  FALSE
      OBVIOUS
    <3>2. i >= k /\ i + 2 <= n
      BY <1>1, <1>6, <3>1 DEF LineEndAt
    <3> QED
      BY <1>1, <1>7, <3>2
  <2>2. Find(u, CRLF) = -1
    <3> HIDE DEF LineEndAt
    <3> QED
      BY <2>1, FindLineEnd
  <2> QED
    BY <1>1, <1>7, <2>2 DEF LineFound
<1>8. CASE n >= k + 2
  <2>1. Find(u, CRLF) = k
    <3>1. PICK f : f = Find(u, CRLF)
      OBVIOUS
    <3>2. f \in Nat /\ LineEndAt(u, f) /\ \A i \in Nat : LineEndAt(u, i) => f <= i
      BY <1>5, <1>8, <3>1, FindLineEnd
    <3>3. f >= k /\ f <= k
      BY <1>5, <1>6, <1>8, <3>2
    <3> QED
      BY <3>1, <3>2, <3>3
  <2>2. PICK w \in Text : w = l \o CRLF /\ Len(w) = k + 2
    BY <1>1, <1>2 DEF Between
  <2>3. u \o v = w \o r
    <3>1. (l \o CRLF) \o r = l \o (CRLF \o r)
      BY DEF Between
    <3> QED
      BY <2>2, <3>1
  <2>4. From(u, k + 2) \in Text /\ From(u, k + 2) \o v = r
    <3>1. Divided(u, v, w, r)
      BY <1>1, <1>8, <2>2, <2>3, SplitAt
    <3> QED
      BY <2>2, <3>1 DEF Divided
  <2>5. Upto(u, k) = l
    <3>1. k <= n /\ u \o v = l \o t
      BY <1>1, <1>3, <1>8
    <3>2. Divided(u, v, l, t)
      BY <1>1, <3>1, SplitAt
    <3> QED
      BY <1>1, <3>2 DEF Divided
  <2> QED
    BY <1>1, <1>8, <2>1, <2>4, <2>5 DEF LineFound
<1> QED
  BY <1>1, <1>7, <1>8 DEF LineFound

(* A word is found when it and the space after it are here.                *)
WordFound(u, v, l, r) ==
  \/ Find(u, <<SP>>) = -1 /\ Len(u) < Len(l) + 1
  \/ /\ Find(u, <<SP>>) = Len(l) /\ Len(u) >= Len(l) + 1
     /\ Upto(u, Len(l)) = l
     /\ From(u, Len(l) + 1) \in Text
     /\ From(u, Len(l) + 1) \o v = r

(* A text that begins with a word, of which u is here.                     *)
LEMMA NextSpace ==
  ASSUME NEW u \in Text, NEW v \in Text, NEW l \in Text, NEW r \in Text,
         u \o v = l \o (<<SP>> \o r), \A i \in 1..Len(l) : l[i] # SP
  PROVE  WordFound(u, v, l, r)
<1>1. PICK k \in Nat, n \in Nat : k = Len(l) /\ n = Len(u)
  BY TextJoin
<1>2. <<SP>> \in Text /\ Len(<<SP>>) = 1 /\ <<SP>>[1] = SP
  BY Symbols
<1>3. PICK c \in Text : c = <<SP>> /\ Len(c) = 1 /\ c[1] = SP
  BY <1>2
<1> Between(l, c, r)
  BY TextBetween
<1>4. PICK t \in Text : t = c \o r /\ c = <<SP>> /\ Len(c) = 1 /\ c[1] = SP
  BY <1>3 DEF Between
<1>5. /\ \A i \in 1..n : (l \o t)[i] = u[i]
      /\ \A i \in 1..k : (l \o t)[i] = l[i]
      /\ (l \o t)[k + 1] = SP
  <2>1. \A i \in 1..n : (u \o v)[i] = u[i]
    BY <1>1, TextJoin
  <2>2. u \o v = l \o t
    BY <1>4
  <2>3. /\ \A i \in 1..k : (l \o t)[i] = l[i]
        /\ \A i \in 1..Len(c) : (l \o t)[k + i] = c[i]
    BY <1>1, <1>4 DEF Between
  <2>4. 1 \in 1..Len(c)
    BY <1>4
  <2>5. (l \o t)[k + 1] = c[1]
    BY <2>3, <2>4
  <2> QED
    BY <1>4, <2>1, <2>2, <2>3, <2>5
<1>6. SpaceAt(u, k) <=> n >= k + 1
  <2>1. n >= k + 1 => k + 1 \in 1..n
    BY <1>1
  <2> QED
    BY <1>1, <1>5, <2>1 DEF SpaceAt
<1>7. \A i \in Nat : SpaceAt(u, i) => i >= k
  <2>1. SUFFICES ASSUME NEW i \in Nat, SpaceAt(u, i), i < k
                 PROVE  FALSE
    BY <1>1
  <2>2. i + 1 \in 1..n /\ i + 1 \in 1..k /\ u[i + 1] = SP
    BY <1>1, <2>1 DEF SpaceAt
  <2> QED
    BY <1>1, <1>5, <2>2
<1>8. CASE n < k + 1
  <2>1. \A i \in Nat : ~SpaceAt(u, i)
    <3>1. SUFFICES ASSUME NEW i \in Nat, SpaceAt(u, i)
                   PROVE  FALSE
      OBVIOUS
    <3>2. i >= k /\ i + 1 <= n
      BY <1>1, <1>7, <3>1 DEF SpaceAt
    <3> QED
      BY <1>1, <1>8, <3>2
  <2>2. Find(u, <<SP>>) = -1
    BY <2>1, FindSpace
  <2> QED
    BY <1>1, <1>8, <2>2 DEF WordFound
<1>9. CASE n >= k + 1
  <2>1. Find(u, <<SP>>) = k
    <3>1. PICK f : f = Find(u, <<SP>>)
      OBVIOUS
    <3>2. f \in Nat /\ SpaceAt(u, f) /\ \A i \in Nat : SpaceAt(u, i) => f <= i
      BY <1>6, <1>9, <3>1, FindSpace
    <3>3. f >= k /\ f <= k
      BY <1>6, <1>7, <1>9, <3>2
    <3> QED
      BY <3>1, <3>2, <3>3
  <2>2. PICK w \in Text : w = l \o c /\ Len(w) = k + 1
    BY <1>1, <1>4 DEF Between
  <2>3. u \o v = w \o r
    <3>1. (l \o c) \o r = l \o (c \o r)
      BY DEF Between
    <3> QED
      BY <1>4, <2>2, <3>1
  <2>4. From(u, k + 1) \in Text /\ From(u, k + 1) \o v = r
    <3>1. Divided(u, v, w, r)
      BY <1>1, <1>9, <2>2, <2>3, SplitAt
    <3> QED
      BY <2>2, <3>1 DEF Divided
  <2>5. Upto(u, k) = l
    <3>1. k <= n /\ u \o v = l \o t
      BY <1>1, <1>4, <1>9
    <3>2. Divided(u, v, l, t)
      BY <1>1, <3>1, SplitAt
    <3> QED
      BY <1>1, <3>2 DEF Divided
  <2> QED
    BY <1>1, <1>9, <2>1, <2>4, <2>5 DEF WordFound
<1> QED
  BY <1>1, <1>8, <1>9 DEF WordFound

(* Without their first symbols two texts that are the same stay the same.  *)
Dropped(u, v, s, t) ==
  /\ From(u, 1) \in Text /\ From(s, 1) \in Text
  /\ From(u, 1) \o v = From(s, 1) \o t

(* The first symbol of a text, of which u is here.                         *)
LEMMA DropFirst ==
  ASSUME NEW u \in Text, NEW v \in Text, NEW s \in Text, NEW t \in Text,
         u \o v = s \o t, u # <<>>, s # <<>>
  PROVE  Dropped(u, v, s, t)
<1>1. Len(u) \in Nat \ {0} /\ Len(s) \in Nat \ {0}
  BY EmptySeq DEF Text
<1>2. PICK f \in Text, g \in Text :
        f = Upto(s, 1) /\ g = From(s, 1) /\ Len(f) = 1 /\ f \o g = s
  <2>1. 1 <= Len(s) /\ 1 \in Nat
    BY <1>1
  <2>2. PICK f \in Text, g \in Text : f = Upto(s, 1) /\ g = From(s, 1)
    BY <2>1, TextParts
  <2>3. Len(f) = 1 /\ f \o g = s
    BY <2>1, <2>2, TextParts
  <2> QED
    BY <2>2, <2>3
<1>3. Between(f, g, t)
  BY TextBetween
<1>4. PICK w \in Text : w = g \o t /\ f \o w = s \o t
  BY <1>2, <1>3 DEF Between
<1>5. Divided(u, v, f, w)
  <2>1. u \o v = f \o w
    BY <1>4
  <2>2. Len(f) <= Len(u)
    BY <1>1, <1>2
  <2> QED
    BY <2>1, <2>2, SplitAt
<1>6. From(u, 1) \in Text /\ From(u, 1) \o v = g \o t
  BY <1>2, <1>4, <1>5 DEF Divided
<1> QED
  BY <1>2, <1>6 DEF Dropped

-----------------------------------------------------------------------------
(* Sequences of which each element stands for a text.                      *)

Mapped(L, F) == [i \in 1..Len(L) |-> F[L[i]]]

(* It is a sequence of texts, one for each element.                        *)
LEMMA MappedType ==
  ASSUME NEW S, NEW F \in [S -> Text], NEW L \in Seq(S)
  PROVE  /\ Mapped(L, F) \in Seq(Text) /\ Len(Mapped(L, F)) = Len(L)
         /\ \A i \in 1..Len(L) : Mapped(L, F)[i] = F[L[i]]
<1>1. PICK n \in Nat : n = Len(L)
  BY LenProperties
<1>2. \A i \in 1..n : L[i] \in S
  BY <1>1, ElementOfSeq
<1>3. PICK m : m = [i \in 1..n |-> F[L[i]]]
  OBVIOUS
<1>4. m \in [1..n -> Text]
  BY <1>2, <1>3
<1>5. m \in Seq(Text)
  BY <1>4, SeqDef
<1>6. Len(m) = n
  <2>1. PICK k \in Nat : k = Len(m) /\ DOMAIN m = 1..k
    BY <1>5, LenProperties
  <2>2. 1..k = 1..n
    BY <1>4, <2>1
  <2> QED
    BY <2>1, <2>2
<1>7. m = Mapped(L, F)
  BY <1>1, <1>3 DEF Mapped
<1> QED
  BY <1>1, <1>3, <1>5, <1>6, <1>7

(* All the texts of a sequence are the first and then all the others.      *)
LEMMA MappedFlat ==
  ASSUME NEW S, NEW F \in [S -> Text], NEW L \in Seq(S)
  PROVE  /\ FlattenSeq(Mapped(L, F)) \in Text
         /\ L = <<>> => FlattenSeq(Mapped(L, F)) = <<>>
         /\ L # <<>> => /\ Head(L) \in S /\ Tail(L) \in Seq(S)
                        /\ FlattenSeq(Mapped(L, F))
                             = F[Head(L)] \o FlattenSeq(Mapped(Tail(L), F))
<1>1. PICK m \in Seq(Text) : /\ m = Mapped(L, F) /\ Len(m) = Len(L)
                             /\ \A i \in 1..Len(L) : m[i] = F[L[i]]
  BY MappedType
<1>2. FlattenSeq(m) \in Text
  BY Flatten
<1>3. CASE L = <<>>
  <2>1. Len(m) = 0
    BY <1>1, <1>3, EmptySeq
  <2>2. m = <<>>
    BY <2>1, EmptySeq
  <2>3. FlattenSeq(m) = <<>>
    BY <2>2, Flatten
  <2> QED
    BY <1>1, <1>2, <1>3, <2>3
<1>4. CASE L # <<>>
  <2>1. Len(L) \in Nat \ {0} /\ m # <<>>
    BY <1>1, <1>4, EmptySeq
  <2>2. PICK T \in Seq(S) : /\ T = Tail(L) /\ Len(T) = Len(L) - 1
                            /\ \A i \in 1..Len(T) : T[i] = L[i + 1]
    BY <1>4, HeadTailProperties
  <2>3. PICK r \in Seq(Text) : /\ r = Tail(m) /\ Len(r) = Len(m) - 1
                               /\ \A i \in 1..Len(r) : r[i] = m[i + 1]
    BY <2>1, HeadTailProperties
  <2>4. PICK q \in Seq(Text) : /\ q = Mapped(T, F) /\ Len(q) = Len(T)
                               /\ \A i \in 1..Len(T) : q[i] = F[T[i]]
    BY MappedType
  <2>5. r = q
    <3>1. Len(r) = Len(q)
      BY <1>1, <2>2, <2>3, <2>4
    <3>2. ASSUME NEW i \in 1..Len(r)
          PROVE  r[i] = q[i]
      <4>1. i + 1 \in 1..Len(L) /\ i \in 1..Len(T)
        BY <1>1, <2>1, <2>2, <2>3
      <4> QED
        BY <1>1, <2>2, <2>3, <2>4, <4>1
    <3> QED
      BY <3>1, <3>2, SeqEqual
  <2>6. Head(m) = F[Head(L)] /\ Head(L) \in S
    <3>1. 1 \in 1..Len(L) /\ Head(L) = L[1] /\ Head(m) = m[1]
      BY <1>4, <2>1
    <3>2. m[1] = F[L[1]]
      BY <1>1, <3>1
    <3> QED
      BY <1>4, <3>1, <3>2, HeadTailProperties
  <2>7. FlattenSeq(m) = Head(m) \o FlattenSeq(r)
    BY <2>1, <2>3, Flatten
  <2> QED
    BY <1>1, <1>2, <1>4, <2>2, <2>4, <2>5, <2>6, <2>7
<1> QED
  BY <1>3, <1>4

(* What has been flattened up to a place depends on nothing after it.      *)
LEMMA FlatPrefix ==
  ASSUME NEW ss \in Seq(Text), NEW f, Flat(ss, f),
         NEW tt \in Seq(Text), NEW g, Flat(tt, g),
         Len(ss) <= Len(tt), \A i \in 1..Len(ss) : ss[i] = tt[i],
         NEW k \in 1..Len(ss)
  PROVE  f[k] = g[k]
<1> DEFINE Good(n) == \A i \in 1..Len(ss) : i = n + 1 => f[i] = g[i]
<1>1. Len(ss) \in Nat /\ Len(tt) \in Nat
  BY LenProperties
<1>2. \A i \in 1..Len(ss) :
        /\ f[i] = IF i = 1 THEN ss[i] ELSE f[i - 1] \o ss[i]
        /\ g[i] = IF i = 1 THEN ss[i] ELSE g[i - 1] \o ss[i]
  <2>1. \A i \in 1..Len(ss) : i \in 1..Len(tt)
    BY <1>1
  <2> QED
    BY <2>1 DEF Flat
<1>3. Good(0)
  BY <1>2
<1>4. ASSUME NEW n \in Nat, Good(n)
      PROVE  Good(n + 1)
  <2>1. SUFFICES ASSUME NEW i \in 1..Len(ss), i = (n + 1) + 1
                 PROVE  f[i] = g[i]
    OBVIOUS
  <2>2. i # 1 /\ i - 1 = n + 1 /\ i - 1 \in 1..Len(ss)
    BY <1>1, <2>1
  <2>3. f[i - 1] = g[i - 1]
    BY <1>4, <2>2
  <2>4. f[i] = f[i - 1] \o ss[i] /\ g[i] = g[i - 1] \o ss[i]
    BY <1>2, <2>2
  <2> QED
    BY <2>3, <2>4
<1>5. \A n \in Nat : Good(n)
  <2> DEFINE T == {n \in Nat : Good(n)}
  <2> HIDE DEF Good
  <2>1. 0 \in T /\ \A n \in T : n + 1 \in T
    BY <1>3, <1>4
  <2>2. T = Nat
    <3> HIDE DEF T
    <3>1. T \in SUBSET Nat
      BY DEF T
    <3> QED
      BY <2>1, <3>1, Induction
  <2> QED
    BY <2>2
<1>6. Good(k - 1) /\ k = (k - 1) + 1
  <2>1. k - 1 \in Nat /\ k = (k - 1) + 1
    BY <1>1
  <2> HIDE DEF Good
  <2> QED
    BY <1>5, <2>1
<1> QED
  BY <1>6

(* One more text comes at the end.                                         *)
LEMMA FlattenAppend ==
  ASSUME NEW ss \in Seq(Text), NEW t \in Text
  PROVE  FlattenSeq(Append(ss, t)) = FlattenSeq(ss) \o t
<1>1. PICK n \in Nat : n = Len(ss)
  BY LenProperties
<1>2. PICK aa \in Seq(Text) : /\ aa = Append(ss, t) /\ aa # <<>> /\ Len(aa) = n + 1
                              /\ \A i \in 1..n : aa[i] = ss[i]
                              /\ aa[n + 1] = t
  BY <1>1, AppendProperties
<1>3. PICK g : Flat(aa, g) /\ FlattenSeq(aa) = g[Len(aa)]
  BY <1>2, FlattenIs
<1>4. PICK m \in 1..Len(aa) : m = n + 1 /\ FlattenSeq(aa) = g[m] /\ aa[m] = t
  BY <1>2, <1>3
<1>5. g[m] = IF m = 1 THEN aa[m] ELSE g[m - 1] \o aa[m]
  BY <1>3 DEF Flat
<1>6. CASE ss = <<>>
  <2>1. n = 0
    BY <1>1, <1>6, EmptySeq
  <2>2. FlattenSeq(aa) = t
    BY <1>4, <1>5, <2>1
  <2>3. FlattenSeq(ss) = <<>> /\ <<>> \o t = t
    BY <1>6, Flatten, ConcatEmptySeq DEF Text
  <2> QED
    BY <1>2, <2>2, <2>3
<1>7. CASE ss # <<>>
  <2>1. PICK f : Flat(ss, f) /\ FlattenSeq(ss) = f[Len(ss)]
    BY <1>7, FlattenIs
  <2>2. n # 0
    BY <1>1, <1>7, EmptySeq
  <2>3. n \in 1..Len(ss) /\ Len(ss) <= Len(aa) /\ m # 1 /\ m - 1 = n
    BY <1>1, <1>2, <1>4, <2>2
  <2>4. \A i \in 1..Len(ss) : ss[i] = aa[i]
    BY <1>1, <1>2
  <2>5. f[n] = g[n]
    BY <1>3, <2>1, <2>3, <2>4, FlatPrefix
  <2>6. FlattenSeq(aa) = g[n] \o t
    BY <1>4, <1>5, <2>3
  <2> QED
    BY <1>1, <1>2, <2>1, <2>5, <2>6
<1> QED
  BY <1>6, <1>7

-----------------------------------------------------------------------------
(* The loop over header lines, on a text of which a part is here.          *)

LineText == [l \in Line |-> l \o CRLF]
Lines(L) == FlattenSeq(Mapped(L, LineText))

(* The first of some header lines, and the others.                         *)
LEMMA LinesParts ==
  ASSUME NEW L \in Seq(Line)
  PROVE  /\ Lines(L) \in Text
         /\ L = <<>> => Lines(L) = <<>>
         /\ L # <<>> => /\ Head(L) \in Line /\ Tail(L) \in Seq(Line)
                        /\ Lines(L) = (Head(L) \o CRLF) \o Lines(Tail(L))
<1>1. LineText \in [Line -> Text]
  <2>1. ASSUME NEW l \in Line
        PROVE  l \o CRLF \in Text
    BY Symbols, TextJoin DEF Line
  <2> QED
    BY <2>1 DEF LineText
<1>2. \A l \in Line : LineText[l] = l \o CRLF
  BY DEF LineText
<1> QED
  BY <1>1, <1>2, MappedFlat DEF Lines

(* The elements of a sequence are its first one and those of the others.   *)
LEMMA ElementsParts ==
  ASSUME NEW S, NEW L \in Seq(S), L # <<>>
  PROVE  ToSet(L) = {Head(L)} \cup ToSet(Tail(L))
<1>1. PICK n \in Nat \ {0} : n = Len(L) /\ DOMAIN L = 1..n
  BY EmptySeq, LenProperties
<1>2. PICK T \in Seq(S) : /\ T = Tail(L) /\ Len(T) = n - 1
                          /\ \A i \in 1..Len(T) : T[i] = L[i + 1]
  BY <1>1, HeadTailProperties
<1>3. DOMAIN T = 1..(n - 1)
  BY <1>2, LenProperties
<1>4. ToSet(L) = {L[i] : i \in 1..n} /\ ToSet(T) = {T[i] : i \in 1..(n - 1)}
  BY <1>1, <1>3 DEF ToSet
<1>5. ToSet(T) = {L[i + 1] : i \in 1..(n - 1)}
  BY <1>2, <1>4
<1>6. 1..n = {1} \cup {i + 1 : i \in 1..(n - 1)}
  <2>1. \A i \in 1..n : i = 1 \/ (i - 1 \in 1..(n - 1) /\ i = (i - 1) + 1)
    OBVIOUS
  <2>2. \A i \in 1..n : i \in {1} \cup {j + 1 : j \in 1..(n - 1)}
    BY <2>1
  <2>3. \A j \in 1..(n - 1) : j + 1 \in 1..n
    OBVIOUS
  <2>4. 1 \in 1..n
    OBVIOUS
  <2> QED
    BY <2>2, <2>3, <2>4
<1>7. ToSet(L) = {L[1]} \cup {L[i + 1] : i \in 1..(n - 1)}
  BY <1>4, <1>6
<1> QED
  BY <1>2, <1>5, <1>7

(* A parser at the header lines.  `rest` is what it has not been given     *)
(* yet; H are the headers that there will be, and `after` is the text that *)
(* follows them.                                                           *)
AtHeaders(m, rest, H, after) ==
  /\ m \in Message /\ ~m.threw /\ m.title_parsed
  /\ ~m.headers_parsed /\ ~m.body_parsed /\ m.body = <<>>
  /\ \E L \in Seq(Line) : /\ m.unparsed \o rest = Lines(L) \o (CRLF \o after)
                          /\ m.headers \cup ToSet(L) = H

(* A parser that has read all the headers and nothing of the body.         *)
AtBody(m, rest, H, after) ==
  /\ m \in Message /\ ~m.threw /\ m.title_parsed
  /\ m.headers_parsed /\ ~m.body_parsed /\ m.body = <<>>
  /\ m.unparsed \o rest = after /\ m.headers = H

(* One turn leaves a parser at the headers there, or brings it to the      *)
(* body.                                                                   *)
LEMMA HeaderTurnOn ==
  ASSUME NEW m \in Message, NEW rest \in Text, NEW H, NEW after \in Text,
         AtHeaders(m, rest, H, after)
  PROVE  /\ HeaderTurn(m).title = m.title
         /\ \/ AtHeaders(HeaderTurn(m), rest, H, after)
            \/ AtBody(HeaderTurn(m), rest, H, after)
<1>1. PICK u \in Text, L \in Seq(Line), next \in {Find(m.unparsed, CRLF)} :
        /\ u = m.unparsed /\ next = Find(u, CRLF)
        /\ u \o rest = Lines(L) \o (CRLF \o after)
        /\ m.headers \cup ToSet(L) = H
  BY MessageFields DEF AtHeaders
<1>2. /\ ~m.threw /\ m.title_parsed /\ ~m.headers_parsed /\ ~m.body_parsed
      /\ m.body = <<>>
  BY DEF AtHeaders
<1>3. HeaderTurn(m) \in Message
  BY HeaderTurnType
<1>4. CASE HeaderTurn(m) = m
  BY <1>4
<1>5. CASE HeaderTurn(m) # m /\ L = <<>>
  <2>1. Lines(L) = <<>>
    BY <1>5, LinesParts
  <2>2. CRLF \in Text /\ <<>> \in Text /\ Len(<<>>) = 0
    BY Symbols
  <2>3. PICK l \in Text : l = <<>> /\ Len(l) = 0 /\ \A i \in 1..Len(l) : l[i] # CR
    BY <2>2
  <2>4. u \o rest = l \o (CRLF \o after)
    BY <1>1, <2>1, <2>3
  <2>5. \/ next = -1
        \/ next = 0 /\ From(u, 2) \in Text /\ From(u, 2) \o rest = after
    <3>1. \/ next = -1
          \/ /\ next = Len(l) /\ From(u, Len(l) + 2) \in Text
             /\ From(u, Len(l) + 2) \o rest = after
      <4>1. LineFound(u, rest, l, after)
        BY <2>3, <2>4, NextLine DEF OneLine
      <4> QED
        BY <1>1, <4>1 DEF LineFound
    <3>2. Len(l) + 2 = 2
      BY <2>3
    <3> QED
      BY <2>3, <3>1, <3>2
  <2>6. next = 0
    BY <1>1, <1>2, <1>5, <2>5 DEF HeaderTurn, HeaderStep
  <2>7. PICK w \in Text : w = From(u, 2) /\ w \o rest = after
    BY <2>5, <2>6
  <2>8. HeaderTurn(m) = [m EXCEPT !.headers_parsed = TRUE, !.unparsed = w]
    BY <1>1, <1>2, <2>6, <2>7 DEF HeaderTurn, HeaderStep
  <2>9. ToSet(L) = {}
    BY <1>5 DEF ToSet
  <2>10. AtBody(HeaderTurn(m), rest, H, after)
    BY <1>1, <1>2, <1>3, <2>7, <2>8, <2>9 DEF AtBody, Message
  <2>11. HeaderTurn(m).title = m.title
    BY <2>8 DEF Message
  <2> QED
    BY <2>10, <2>11
<1>6. CASE HeaderTurn(m) # m /\ L # <<>>
  <2>1. PICK h \in Line, T \in Seq(Line) :
          /\ h = Head(L) /\ T = Tail(L)
          /\ Lines(L) = (h \o CRLF) \o Lines(T)
          /\ ToSet(L) = {h} \cup ToSet(T)
    <3>1. /\ Head(L) \in Line /\ Tail(L) \in Seq(Line)
          /\ Lines(L) = (Head(L) \o CRLF) \o Lines(Tail(L))
      BY <1>6, LinesParts
    <3>2. ToSet(L) = {Head(L)} \cup ToSet(Tail(L))
      BY <1>6, ElementsParts
    <3> QED
      BY <3>1, <3>2
  <2>2. /\ h \in Text /\ h # <<>> /\ Len(h) \in Nat \ {0}
        /\ \A i \in 1..Len(h) : h[i] # CR
    BY EmptySeq DEF Line, Text
  <2>3. PICK c \in Text, x \in Text : c = CRLF /\ x = Lines(T)
    BY Symbols, LinesParts
  <2>4. PICK y \in Text : y = CRLF \o after
    BY Symbols, TextJoin
  <2>5. PICK z \in Text : z = x \o y
    BY TextJoin
  <2>6. u \o rest = h \o (c \o z)
    <3>1. PICK hc \in Text : hc = h \o c
      BY <2>2, TextJoin
    <3>2. u \o rest = (hc \o x) \o y
      BY <1>1, <2>1, <2>3, <2>4, <3>1
    <3>3. Between(hc, x, y) /\ Between(h, c, z)
      BY <2>2, TextBetween
    <3>4. (hc \o x) \o y = hc \o z
      BY <2>5, <3>3 DEF Between
    <3>5. hc \o z = h \o (c \o z)
      BY <3>1, <3>3 DEF Between
    <3> QED
      BY <3>2, <3>4, <3>5
  <2>7. \/ next = -1
        \/ /\ next = Len(h) /\ Upto(u, Len(h)) = h
           /\ From(u, Len(h) + 2) \in Text /\ From(u, Len(h) + 2) \o rest = z
    <3>1. LineFound(u, rest, h, z)
      BY <2>2, <2>3, <2>6, NextLine DEF OneLine
    <3> QED
      BY <1>1, <3>1 DEF LineFound
  <2>8. next = Len(h) /\ next # -1 /\ next # 0
    BY <1>1, <1>2, <1>6, <2>2, <2>7 DEF HeaderTurn, HeaderStep
  <2>9. PICK w \in Text : w = From(u, next + 2) /\ w \o rest = z
    BY <2>7, <2>8
  <2>10. HeaderTurn(m) = [m EXCEPT !.headers = m.headers \cup {h},
                                   !.unparsed = w]
    BY <1>1, <1>2, <2>7, <2>8, <2>9 DEF HeaderTurn, HeaderStep
  <2>11. /\ HeaderTurn(m).headers = m.headers \cup {h}
         /\ HeaderTurn(m).unparsed = w
         /\ HeaderTurn(m).title = m.title /\ HeaderTurn(m).body = m.body
         /\ HeaderTurn(m).threw = m.threw
         /\ HeaderTurn(m).title_parsed = m.title_parsed
         /\ HeaderTurn(m).headers_parsed = m.headers_parsed
         /\ HeaderTurn(m).body_parsed = m.body_parsed
    BY <2>10 DEF Message
  <2>12. (m.headers \cup {h}) \cup ToSet(T) = H
    BY <1>1, <2>1
  <2>13. w \o rest = Lines(T) \o (CRLF \o after)
    BY <2>3, <2>4, <2>5, <2>9
  <2>14. AtHeaders(HeaderTurn(m), rest, H, after)
    BY <1>2, <1>3, <2>11, <2>12, <2>13 DEF AtHeaders
  <2> QED
    BY <2>11, <2>14
<1> QED
  BY <1>4, <1>5, <1>6

(* The loop leaves the parser at the headers or at the body.               *)
LEMMA HeadersOn ==
  ASSUME NEW m \in Message, NEW rest \in Text, NEW H, NEW after \in Text,
         AtHeaders(m, rest, H, after)
  PROVE  /\ Headers[m] \in Message /\ Headers[m].title = m.title
         /\ \/ AtHeaders(Headers[m], rest, H, after)
            \/ AtBody(Headers[m], rest, H, after)
<1> DEFINE T == {x \in Message : /\ x.title = m.title
                                 /\ \/ AtHeaders(x, rest, H, after)
                                    \/ AtBody(x, rest, H, after)}
<1>1. ASSUME NEW x \in T
      PROVE  HeaderTurn(x) \in T
  <2>1. CASE AtHeaders(x, rest, H, after)
    BY <2>1, HeaderTurnOn, HeaderTurnType
  <2>2. CASE AtBody(x, rest, H, after)
    <3>1. HeaderTurn(x) = x
      BY <2>2 DEF AtBody, HeaderTurn, HeaderStep
    <3> QED
      BY <3>1
  <2> QED
    BY <2>1, <2>2
<1>2. m \in T
  OBVIOUS
<1>3. Headers[m] \in T
  <2> HIDE DEF T
  <2>1. T \in SUBSET Message
    BY DEF T
  <2> QED
    BY <1>1, <1>2, <2>1, HeadersRun
<1> QED
  BY <1>3

-----------------------------------------------------------------------------
(* The first line of a request.                                            *)

Letter == {"byte", "sp"} \X Nat
Junk == Seq(Letter) \ {<<>>}

(* Letters and spaces are a line, and not one that says anything of a      *)
(* body.                                                                   *)
LEMMA JunkIsLine ==
  ASSUME NEW s \in Junk
  PROVE  /\ s \in Line /\ s \in Text /\ Len(s) \in Nat \ {0}
         /\ \A i \in 1..Len(s) : s[i] # CR
         /\ s[1][1] \in {"byte", "sp"}
<1>1. s \in Seq(Letter) /\ s # <<>>
  BY DEF Junk
<1>2. Letter \subseteq Symbol
  BY DEF Letter, Symbol
<1>3. \A i \in 1..Len(s) : s[i] \in Letter
  BY <1>1, ElementOfSeq
<1>4. s \in Text
  BY <1>1, <1>2, <1>3, SeqMonotonic DEF Text
<1>5. \A x \in Letter : x # CR /\ x[1] \in {"byte", "sp"}
  BY DEF Letter, CR
<1>6. Len(s) \in Nat \ {0} /\ 1 \in 1..Len(s)
  BY <1>1, EmptySeq
<1>7. s \in Line
  BY <1>1, <1>3, <1>4, <1>5 DEF Line
<1> QED
  BY <1>3, <1>4, <1>5, <1>6, <1>7

(* A word is such a text, without spaces.                                  *)
LEMMA WordIsJunk ==
  ASSUME NEW w \in Word
  PROVE  w \in Junk /\ \A i \in 1..Len(w) : w[i] # SP
<1>1. w \in Seq({"byte"} \X Nat) /\ w # <<>>
  BY DEF Word
<1>2. {"byte"} \X Nat \subseteq Letter
  BY DEF Letter
<1>3. \A i \in 1..Len(w) : w[i] \in {"byte"} \X Nat
  BY <1>1, ElementOfSeq
<1>4. w \in Seq(Letter)
  BY <1>1, <1>2, <1>3, SeqMonotonic
<1>5. \A x \in {"byte"} \X Nat : x # SP
  BY DEF SP
<1> QED
  BY <1>1, <1>3, <1>4, <1>5 DEF Junk

(* Two such texts, and a space between them.                               *)
LEMMA JunkJoin ==
  ASSUME NEW w \in Junk, NEW s \in Junk
  PROVE  /\ w \o (<<SP>> \o s) \in Junk
         /\ Len(w \o (<<SP>> \o s)) = Len(w) + 1 + Len(s)
<1>1. w \in Seq(Letter) /\ s \in Seq(Letter)
  BY DEF Junk
<1>2. PICK sp \in Seq(Letter) : sp = <<SP>> /\ Len(sp) = 1
  <2>1. SP \in Letter
    BY DEF Letter, SP
  <2>2. <<SP>> \in Seq(Letter) /\ Len(<<SP>>) = 1
    BY <2>1
  <2> QED
    BY <2>2
<1>3. PICK x \in Seq(Letter) : x = <<SP>> \o s /\ Len(x) = 1 + Len(s)
  <2>1. sp \o s \in Seq(Letter) /\ Len(sp \o s) = Len(sp) + Len(s)
    BY <1>1, ConcatProperties
  <2> QED
    BY <1>2, <2>1
<1>4. w \o x \in Seq(Letter) /\ Len(w \o x) = Len(w) + Len(x)
  BY <1>1, <1>3, ConcatProperties
<1>5. Len(w) \in Nat \ {0} /\ Len(s) \in Nat
  BY JunkIsLine
<1>6. Len(w \o x) # 0
  BY <1>3, <1>4, <1>5
<1>7. w \o x # <<>>
  BY <1>6
<1> QED
  BY <1>3, <1>4, <1>5, <1>7 DEF Junk

(* Such a text without its first symbol.                                   *)
LEMMA JunkTail ==
  ASSUME NEW s \in Junk, Len(s) > 1
  PROVE  From(s, 1) \in Junk
<1>1. s \in Seq(Letter)
  BY DEF Junk
<1>2. PICK n \in Nat : n = Len(s) /\ n > 1
  BY JunkIsLine
<1>3. \A i \in 2..n : s[i] \in Letter
  BY <1>1, <1>2, ElementOfSeq
<1>4. /\ SubSeq(s, 2, n) \in Seq(Letter)
      /\ Len(SubSeq(s, 2, n)) = IF 2 <= n THEN n - 2 + 1 ELSE 0
  BY <1>2, <1>3, SubSeqProperties
<1>5. Len(SubSeq(s, 2, n)) # 0
  BY <1>2, <1>4
<1>6. SubSeq(s, 2, n) # <<>>
  BY <1>5
<1>7. From(s, 1) = SubSeq(s, 2, n)
  BY <1>2 DEF From
<1> QED
  BY <1>4, <1>6, <1>7 DEF Junk

(* Texts in which no line ends.                                            *)
Plain == {s \in Text : \A i \in 1..Len(s) : s[i] # LF}

(* A line, as far as it is here and as long as not all of its end is.      *)
LEMMA PartIsPlain ==
  ASSUME NEW u \in Text, NEW v \in Text, NEW s \in Junk, NEW t \in Text,
         u \o v = s \o (CRLF \o t), Len(u) < Len(s) + 2
  PROVE  u \in Plain
<1>1. PICK k \in Nat, n \in Nat : k = Len(s) /\ n = Len(u)
  BY TextJoin, JunkIsLine
<1>2. PICK c \in Text, l \in Text :
        c = CRLF /\ Len(c) = 2 /\ c[1] = CR /\ c[2] = LF /\ l = s
  BY Symbols, JunkIsLine
<1>3. \A i \in 1..k : l[i] # LF
  <2>1. \A x \in Letter : x # LF
    BY DEF Letter, LF
  <2>2. \A i \in 1..k : l[i] \in Letter
    BY <1>1, <1>2, ElementOfSeq DEF Junk
  <2> QED
    BY <2>1, <2>2
<1> Between(l, c, t)
  BY TextBetween
<1>4. PICK x \in Text :
        /\ x = l \o (c \o t) /\ x = u \o v
        /\ \A i \in 1..k : x[i] = l[i]
        /\ \A i \in 1..2 : x[k + i] = c[i]
  <2>1. PICK x \in Text : x = l \o (c \o t)
    BY DEF Between
  <2>2. /\ \A i \in 1..Len(l) : x[i] = l[i]
        /\ \A i \in 1..Len(c) : x[Len(l) + i] = c[i]
    BY <2>1 DEF Between
  <2>3. x = u \o v
    BY <1>2, <2>1
  <2> QED
    BY <1>1, <1>2, <2>1, <2>2, <2>3
<1>5. \A i \in 1..n : u[i] = x[i]
  <2>1. \A i \in 1..Len(u) : (u \o v)[i] = u[i]
    BY TextJoin
  <2> QED
    BY <1>1, <1>4, <2>1
<1>6. x[k + 1] = CR
  <2>1. 1 \in 1..2
    OBVIOUS
  <2> QED
    BY <1>2, <1>4, <2>1
<1>7. \A i \in 1..n : i \in 1..k \/ i = k + 1
  BY <1>1
<1>8. \A i \in 1..n : u[i] # LF
  BY <1>3, <1>4, <1>5, <1>6, <1>7, Symbols
<1> QED
  BY <1>1, <1>8 DEF Plain

(* A word is such a text.                                                  *)
LEMMA WordIsPlain ==
  ASSUME NEW w \in Word
  PROVE  w \in Plain
<1>1. w \in Text /\ w \in Seq({"byte"} \X Nat)
  BY WordIsJunk, JunkIsLine DEF Word
<1>2. \A i \in 1..Len(w) : w[i] \in {"byte"} \X Nat
  BY <1>1, ElementOfSeq
<1>3. \A x \in {"byte"} \X Nat : x # LF
  BY DEF LF
<1> QED
  BY <1>1, <1>2, <1>3 DEF Plain

(* What the parser finds where it looks for the end of the line: the whole *)
(* of it; nothing at all; or a part, of which it consumes one symbol.      *)
EndFound(last, rest, s, t) ==
  \/ /\ Find(last, CRLF) = Len(s) /\ Len(last) >= Len(s) + 2
     /\ Upto(last, Len(s)) = s
     /\ From(last, Len(s) + 2) \in Text /\ From(last, Len(s) + 2) \o rest = t
  \/ Find(last, CRLF) = -1 /\ last = <<>> /\ Len(last) = 0
  \/ /\ Find(last, CRLF) = -1 /\ Len(last) \in 1..(Len(s) + 1)
     /\ From(last, 1) \in Text
     /\ \E J \in Junk : From(last, 1) \o rest = J \o (CRLF \o t)

(* The end of a line of which `last` is here.                              *)
LEMMA NextEnd ==
  ASSUME NEW last \in Text, NEW rest \in Text, NEW s \in Junk, Len(s) > 1,
         NEW t \in Text, last \o rest = s \o (CRLF \o t)
  PROVE  EndFound(last, rest, s, t)
<1>1. /\ s \in Text /\ Len(s) \in Nat /\ s # <<>>
      /\ \A i \in 1..Len(s) : s[i] # CR
  BY JunkIsLine DEF Junk
<1>2. LineFound(last, rest, s, t)
  BY <1>1, NextLine DEF OneLine
<1>3. CASE Find(last, CRLF) = Len(s)
  BY <1>1, <1>2, <1>3 DEF LineFound, EndFound
<1>4. CASE Find(last, CRLF) # Len(s) /\ last = <<>>
  <2>1. Len(last) = 0
    BY <1>4
  <2> QED
    BY <1>2, <1>4, <2>1 DEF LineFound, EndFound
<1>5. CASE Find(last, CRLF) # Len(s) /\ last # <<>>
  <2>1. Len(last) \in Nat \ {0}
    BY <1>5, EmptySeq DEF Text
  <2>2. Find(last, CRLF) = -1 /\ Len(last) < Len(s) + 2
    BY <1>2, <1>5 DEF LineFound
  <2>3. PICK z \in Text : z = CRLF \o t
    BY Symbols, TextJoin
  <2>4. From(last, 1) \in Text /\ From(last, 1) \o rest = From(s, 1) \o z
    <3>1. last \o rest = s \o z
      BY <2>3
    <3>2. Dropped(last, rest, s, z)
      BY <1>1, <1>5, <3>1, DropFirst
    <3> QED
      BY <3>2 DEF Dropped
  <2>5. From(s, 1) \in Junk
    BY JunkTail
  <2>6. Len(last) \in 1..(Len(s) + 1)
    BY <1>1, <2>1, <2>2
  <2>7. \E J \in Junk : From(last, 1) \o rest = J \o (CRLF \o t)
    BY <2>3, <2>4, <2>5
  <2> QED
    BY <2>2, <2>4, <2>6, <2>7 DEF EndFound
<1> QED
  BY <1>3, <1>4, <1>5

(* What the first line becomes.  That of a text that ends in it is spoilt: *)
(* the parser throws, or makes a header line of a part of it.              *)
TitleRead(m, n, rest, title, length, t) ==
  \/ /\ Len(m.unparsed) >= length
     /\ \E w \in Text : /\ w \o rest = t
                        /\ n = [m EXCEPT !.title = title, !.unparsed = w,
                                         !.title_parsed = TRUE]
  \/ Len(m.unparsed) < length /\ n = Threw(m)
  \/ /\ Len(m.unparsed) < length
     /\ \E w \in Text, J \in Junk, any \in Plain \X Plain \X Plain :
          /\ w \o rest = J \o (CRLF \o t)
          /\ n = [m EXCEPT !.title = any, !.unparsed = w, !.title_parsed = TRUE]

(* The end of RequestTitle, after method and url.                          *)
LEMMA RequestTitleEnd ==
  ASSUME NEW m \in Message, NEW n, NEW rest \in Text, NEW s \in Junk, Len(s) > 1,
         NEW t \in Text, NEW last \in Text, last \o rest = s \o (CRLF \o t),
         NEW method \in Plain, NEW url \in Plain,
         NEW skipped \in Nat, Len(m.unparsed) = skipped + Len(last),
         n = IF Find(last, CRLF) + 2 > Len(last) THEN Threw(m)
             ELSE [m EXCEPT !.title = <<method, url, Upto(last, Find(last, CRLF))>>,
                            !.unparsed = From(last, Find(last, CRLF) + 2),
                            !.title_parsed = TRUE]
  PROVE  TitleRead(m, n, rest, <<method, url, s>>, skipped + Len(s) + 2, t)
<1>1. s \in Text /\ Len(s) \in Nat /\ Len(last) \in Nat
  BY JunkIsLine, TextJoin
<1>2. EndFound(last, rest, s, t)
  BY NextEnd
<1>3. CASE Find(last, CRLF) = Len(s)
  <2>1. Len(last) >= Len(s) + 2 /\ Upto(last, Len(s)) = s
    BY <1>1, <1>2, <1>3 DEF EndFound
  <2>2. PICK w \in Text : w = From(last, Len(s) + 2) /\ w \o rest = t
    BY <1>1, <1>2, <1>3 DEF EndFound
  <2>3. ~(Find(last, CRLF) + 2 > Len(last))
    BY <1>1, <1>3, <2>1
  <2>4. n = [m EXCEPT !.title = <<method, url, s>>, !.unparsed = w,
                      !.title_parsed = TRUE]
    BY <1>3, <2>1, <2>2, <2>3
  <2>5. Len(m.unparsed) >= skipped + Len(s) + 2
    BY <1>1, <2>1
  <2> QED
    BY <2>2, <2>4, <2>5 DEF TitleRead
<1>4. CASE Find(last, CRLF) = -1 /\ Len(last) = 0
  <2>1. Find(last, CRLF) + 2 > Len(last)
    BY <1>4
  <2>2. n = Threw(m)
    BY <2>1
  <2>3. Len(m.unparsed) < skipped + Len(s) + 2
    BY <1>1, <1>4
  <2> QED
    BY <2>2, <2>3 DEF TitleRead
<1>5. CASE Find(last, CRLF) = -1 /\ Len(last) # 0
  <2>1. PICK w \in Text, J \in Junk :
          w = From(last, 1) /\ w \o rest = J \o (CRLF \o t)
    <3>1. Find(last, CRLF) # Len(s)
      BY <1>1, <1>5
    <3>2. /\ From(last, 1) \in Text
          /\ \E J \in Junk : From(last, 1) \o rest = J \o (CRLF \o t)
      BY <1>2, <1>5, <3>1, Zenon DEF EndFound
    <3> QED
      BY <3>2
  <2>2. Len(last) \in 1..(Len(s) + 1)
    BY <1>1, <1>2, <1>5 DEF EndFound
  <2>3. ~(Find(last, CRLF) + 2 > Len(last)) /\ Find(last, CRLF) + 2 = 1
    BY <1>1, <1>5, <2>2
  <2>4. Upto(last, Find(last, CRLF)) = last
    BY <1>5 DEF Upto
  <2>5. PICK any \in Plain \X Plain \X Plain : any = <<method, url, last>>
    <3>1. Len(last) < Len(s) + 2
      BY <1>1, <2>2
    <3>2. last \in Plain
      BY <3>1, PartIsPlain
    <3> QED
      BY <3>2
  <2>6. n = [m EXCEPT !.title = any, !.unparsed = w, !.title_parsed = TRUE]
    BY <2>1, <2>3, <2>4, <2>5
  <2>7. Len(m.unparsed) < skipped + Len(s) + 2
    BY <1>1, <2>2
  <2>8. \E w2 \in Text, J2 \in Junk, any2 \in Plain \X Plain \X Plain :
          /\ w2 \o rest = J2 \o (CRLF \o t)
          /\ n = [m EXCEPT !.title = any2, !.unparsed = w2, !.title_parsed = TRUE]
    BY <2>1, <2>6
  <2> QED
    BY <2>7, <2>8, Zenon DEF TitleRead
<1> QED
  BY <1>1, <1>2, <1>3, <1>4, <1>5 DEF EndFound

(* What is parsed of a first line that is not all here does not depend on  *)
(* what its words are.                                                     *)
LEMMA TitleSpoilt ==
  ASSUME NEW m, NEW n, NEW rest, NEW title, NEW t, NEW length \in Nat,
         TitleRead(m, n, rest, title, length, t),
         Len(m.unparsed) \in Nat, Len(m.unparsed) < length,
         NEW other
  PROVE  TitleRead(m, n, rest, other, length, t)
<1>1. ~(Len(m.unparsed) >= length)
  OBVIOUS
<1> QED
  BY <1>1, Zenon DEF TitleRead

(* The parser at the first line of a request: method, url and version are  *)
(* read when the line is here, and otherwise it is spoilt.                 *)
LEMMA RequestTitleOn ==
  ASSUME NEW m \in Message, ~m.title_parsed, m.unparsed # <<>>,
         NEW rest \in Text, NEW t \in Text,
         NEW w1 \in Word, NEW w2 \in Word, NEW w3 \in Word, Len(w3) > 1,
         NEW s2 \in Junk, s2 = w2 \o (<<SP>> \o w3),
         NEW s1 \in Junk, s1 = w1 \o (<<SP>> \o s2),
         m.unparsed \o rest = s1 \o (CRLF \o t)
  PROVE  TitleRead(m, RequestTitle[m], rest, <<w1, w2, w3>>, Len(s1) + 2, t)
<1>1. PICK u \in Text : u = m.unparsed /\ Len(m.unparsed) = Len(u) /\ Len(u) \in Nat
  BY MessageFields
<1>2. PICK z \in Text : z = CRLF \o t
  BY Symbols, TextJoin
<1>3. PICK sp \in Text : sp = <<SP>>
  BY Symbols
<1>4. /\ w1 \in Junk /\ w2 \in Junk /\ w3 \in Junk
      /\ \A i \in 1..Len(w1) : w1[i] # SP
      /\ \A i \in 1..Len(w2) : w2[i] # SP
  BY WordIsJunk
<1>5. /\ w1 \in Text /\ w2 \in Text /\ w3 \in Text /\ s1 \in Text /\ s2 \in Text
      /\ Len(w1) \in Nat \ {0} /\ Len(w2) \in Nat \ {0} /\ Len(w3) \in Nat \ {0}
  BY <1>4, JunkIsLine
<1>6. PICK k1 \in Nat, k2 \in Nat, l1 \in Nat, l2 \in Nat, l3 \in Nat, k \in Nat :
        /\ k1 = Len(s1) /\ k2 = Len(s2) /\ l1 = Len(w1) /\ l2 = Len(w2)
        /\ l3 = Len(w3) /\ l3 > 1 /\ k = Len(u)
        /\ k2 = l2 + 1 + l3 /\ k1 = l1 + 1 + k2
  <2>1. Len(s2) = Len(w2) + 1 + Len(w3) /\ Len(s1) = Len(w1) + 1 + Len(s2)
    BY <1>4, JunkJoin
  <2>2. Len(s2) \in Nat /\ Len(s1) \in Nat
    BY <1>5, TextJoin
  <2> QED
    BY <1>1, <1>5, <2>1, <2>2
<1>7. PICK r2 \in Text : r2 = w3 \o z /\ s2 \o z = w2 \o (sp \o r2)
  <2>1. Between(sp, w3, z)
    BY <1>5, TextBetween
  <2>2. PICK x \in Text : x = sp \o w3
    BY <2>1 DEF Between
  <2>3. Between(w2, x, z)
    BY <1>5, TextBetween
  <2> QED
    BY <1>3, <2>1, <2>2, <2>3 DEF Between
<1>8. PICK r1 \in Text : r1 = s2 \o z /\ s1 \o z = w1 \o (sp \o r1)
  <2>1. Between(sp, s2, z)
    BY <1>5, TextBetween
  <2>2. PICK x \in Text : x = sp \o s2
    BY <2>1 DEF Between
  <2>3. Between(w1, x, z)
    BY <1>5, TextBetween
  <2> QED
    BY <1>3, <2>1, <2>2, <2>3, ZenonT(30) DEF Between
<1>9. WordFound(u, rest, w1, r1)
  <2>1. u \o rest = w1 \o (<<SP>> \o r1)
    BY <1>1, <1>2, <1>3, <1>8
  <2> QED
    BY <1>4, <1>5, <2>1, NextSpace
<1>10. PICK method, left, url, last, version, n :
         /\ method = Find(u, <<SP>>) /\ left = From(u, method + 1)
         /\ url = Find(left, <<SP>>) /\ last = From(left, url + 1)
         /\ version = Find(last, CRLF) /\ n = RequestTitle[m]
  OBVIOUS
<1>11. n = IF version + 2 > Len(last) THEN Threw(m)
           ELSE [m EXCEPT !.title = <<Upto(u, method), Upto(left, url),
                                      Upto(last, version)>>,
                          !.unparsed = From(last, version + 2),
                          !.title_parsed = TRUE]
  BY <1>1, <1>10 DEF RequestTitle
<1>12. \A x \in Text : From(x, 0) = x /\ Upto(x, -1) = x /\ Len(x) \in Nat
  BY SubSeqFull, LenProperties DEF From, Upto, Text
<1>13. CASE method = -1
  <2>1. Len(u) < Len(w1) + 1
    BY <1>5, <1>9, <1>10, <1>13 DEF WordFound
  <2>2. left = u
    BY <1>10, <1>12, <1>13
  <2>3. last = u /\ url = -1
    BY <1>10, <1>12, <1>13, <2>2
  <2>4. n = IF Find(u, CRLF) + 2 > Len(u) THEN Threw(m)
            ELSE [m EXCEPT !.title = <<u, u, Upto(u, Find(u, CRLF))>>,
                           !.unparsed = From(u, Find(u, CRLF) + 2),
                           !.title_parsed = TRUE]
    BY <1>10, <1>11, <1>12, <1>13, <2>2, <2>3
  <2>5. k < k1 + 2 /\ k1 > 1 /\ k1 + 2 \in Nat /\ k = 0 + k /\ 0 + k1 + 2 = k1 + 2
    BY <1>6, <2>1
  <2>6. TitleRead(m, n, rest, <<u, u, s1>>, 0 + Len(s1) + 2, t)
    <3>1. u \o rest = s1 \o (CRLF \o t) /\ 0 \in Nat
      BY <1>1
    <3>2. Len(s1) > 1 /\ Len(m.unparsed) = 0 + Len(u)
      BY <1>1, <1>6, <2>5
    <3>3. u \in Plain
      BY <1>6, <2>5, <3>1, PartIsPlain
    <3> QED
      BY <2>4, <3>1, <3>2, <3>3, RequestTitleEnd
  <2>7. TitleRead(m, n, rest, <<w1, w2, w3>>, k1 + 2, t)
    <3>1. TitleRead(m, n, rest, <<u, u, s1>>, k1 + 2, t)
      BY <1>6, <2>5, <2>6
    <3> QED
      BY <1>1, <1>6, <2>5, <3>1, TitleSpoilt
  <2> QED
    BY <1>6, <1>10, <2>7
<1>14. CASE method # -1
  <2>1. /\ method = Len(w1) /\ Len(u) >= Len(w1) + 1 /\ Upto(u, method) = w1
        /\ left \in Text /\ left \o rest = r1
    BY <1>5, <1>9, <1>10, <1>14 DEF WordFound
  <2>2. Len(left) = Len(u) - (Len(w1) + 1)
    <3>1. PICK skip \in Nat : skip = Len(w1) + 1 /\ skip <= Len(u)
      BY <1>5, <2>1
    <3>2. Len(From(u, skip)) = Len(u) - skip
      BY <3>1, TextParts
    <3> QED
      BY <1>10, <2>1, <3>1, <3>2
  <2>3. WordFound(left, rest, w2, r2)
    <3>1. left \o rest = w2 \o (<<SP>> \o r2)
      BY <1>3, <1>7, <1>8, <2>1
    <3> QED
      BY <1>4, <1>5, <2>1, <3>1, NextSpace
  <2>4. CASE url = -1
    <3>1. Len(left) < Len(w2) + 1
      BY <1>5, <1>10, <2>3, <2>4 DEF WordFound
    <3>2. last = left
      BY <1>10, <1>12, <2>1, <2>4
    <3>3. PICK j \in Nat : j = l1 + 1
      BY <1>5
    <3>4. n = IF Find(left, CRLF) + 2 > Len(left) THEN Threw(m)
              ELSE [m EXCEPT !.title = <<w1, left, Upto(left, Find(left, CRLF))>>,
                             !.unparsed = From(left, Find(left, CRLF) + 2),
                             !.title_parsed = TRUE]
      BY <1>10, <1>11, <1>12, <2>1, <2>4, <3>2
    <3>5. PICK i \in Nat :
            /\ i = Len(left) /\ k < k1 + 2 /\ k2 > 1
            /\ k = j + i /\ j + k2 + 2 = k1 + 2 /\ k1 + 2 \in Nat
      <4>1. PICK i \in Nat : i = Len(left)
        BY <2>1, TextJoin
      <4>2. i < l2 + 1 /\ i = k - (l1 + 1)
        BY <1>6, <2>2, <3>1, <4>1
      <4>3. k < k1 + 2 /\ k2 > 1 /\ k1 + 2 \in Nat
        BY <1>6, <4>1, <4>2
      <4>4. k = j + i /\ j + k2 + 2 = k1 + 2
        BY <1>6, <3>3, <4>1, <4>2
      <4> QED
        BY <4>1, <4>3, <4>4
    <3>6. TitleRead(m, n, rest, <<w1, left, s2>>, j + Len(s2) + 2, t)
      <4>1. left \o rest = s2 \o (CRLF \o t)
        BY <1>2, <1>8, <2>1
      <4>2. Len(s2) > 1 /\ Len(m.unparsed) = j + Len(left)
        BY <1>1, <1>6, <3>5
      <4>3. Len(left) < Len(s2) + 2
        BY <1>6, <3>5
      <4>4. left \in Plain /\ w1 \in Plain
        BY <2>1, <4>1, <4>3, PartIsPlain, WordIsPlain
      <4> QED
        BY <1>5, <2>1, <3>4, <4>1, <4>2, <4>4, RequestTitleEnd
    <3>7. TitleRead(m, n, rest, <<w1, w2, w3>>, k1 + 2, t)
      <4>1. TitleRead(m, n, rest, <<w1, left, s2>>, k1 + 2, t)
        BY <1>6, <3>5, <3>6
      <4>2. /\ Len(m.unparsed) < k1 + 2 /\ k1 + 2 \in Nat
            /\ Len(m.unparsed) \in Nat
        BY <1>1, <1>6, <3>5
      <4> QED
        BY <4>1, <4>2, TitleSpoilt
    <3> QED
      BY <1>6, <1>10, <3>7
  <2>5. CASE url # -1
    <3>1. /\ url = Len(w2) /\ Len(left) >= Len(w2) + 1 /\ Upto(left, url) = w2
          /\ last \in Text /\ last \o rest = r2
      BY <1>5, <1>10, <2>3, <2>5 DEF WordFound
    <3>2. Len(last) = Len(left) - (Len(w2) + 1)
      <4>1. PICK skip \in Nat : skip = Len(w2) + 1 /\ skip <= Len(left)
        BY <1>5, <3>1
      <4>2. Len(From(left, skip)) = Len(left) - skip
        BY <2>1, <4>1, TextParts, ZenonT(30)
      <4> QED
        BY <1>10, <3>1, <4>1, <4>2
    <3>3. PICK j \in Nat : j = l1 + 1 + l2 + 1
      BY <1>5
    <3>4. n = IF Find(last, CRLF) + 2 > Len(last) THEN Threw(m)
              ELSE [m EXCEPT !.title = <<w1, w2, Upto(last, Find(last, CRLF))>>,
                             !.unparsed = From(last, Find(last, CRLF) + 2),
                             !.title_parsed = TRUE]
      BY <1>10, <1>11, <2>1, <3>1
    <3>5. Len(m.unparsed) = j + Len(last) /\ j + Len(w3) + 2 = Len(s1) + 2
      <4>1. PICK i \in Nat, h \in Nat : i = Len(left) /\ h = Len(last)
        BY <2>1, <3>1, TextJoin
      <4>2. i = k - (l1 + 1) /\ h = i - (l2 + 1)
        BY <1>6, <2>2, <3>2, <4>1
      <4>3. k = j + h /\ j + l3 + 2 = k1 + 2
        BY <1>6, <3>3, <4>2
      <4> QED
        BY <1>1, <1>6, <4>1, <4>3
    <3>6. TitleRead(m, n, rest, <<w1, w2, w3>>, j + Len(w3) + 2, t)
      <4>1. last \o rest = w3 \o (CRLF \o t)
        BY <1>2, <1>7, <3>1
      <4> QED
        BY <1>4, <1>5, <3>1, <3>4, <3>5, <4>1, RequestTitleEnd, WordIsPlain
    <3> QED
      BY <1>10, <3>5, <3>6
  <2> QED
    BY <2>4, <2>5
<1> QED
  BY <1>13, <1>14

-----------------------------------------------------------------------------
(* Bodies with a Content-Length, or none.                                  *)

Named(H, name) == \E line \in H : line # <<>> /\ line[1][1] = name

(* The headers H say truly how long a body is.                             *)
Measured(H, length) ==
  \A line \in H : line # <<>> /\ line[1][1] = "Content-Length" => line[1][2] = length

(* A parser in the body, and one that has all of it and nothing else.      *)
InBody(m, rest, H, whole) ==
  /\ m \in Message /\ ~m.threw /\ m.title_parsed
  /\ m.headers_parsed /\ ~m.body_parsed /\ m.headers = H
  /\ m.unparsed = <<>> /\ m.body \o rest = whole

Complete(m, rest, H, whole) ==
  /\ m \in Message /\ ~m.threw /\ is_complete(m) /\ m.headers = H
  /\ m.unparsed = <<>> /\ rest = <<>> /\ m.body = whole

(* A body with a Content-Length is complete when, and only when, all of it *)
(* is here.                                                                *)
LEMMA LengthBodyOn ==
  ASSUME NEW m \in Message, NEW rest \in Text, NEW H, NEW whole \in Text,
         ~m.threw, m.title_parsed, m.headers_parsed, ~m.body_parsed,
         m.headers = H, (m.body \o m.unparsed) \o rest = whole,
         Named(H, "Content-Length"), Measured(H, Len(whole))
  PROVE  /\ LengthBody(m).title = m.title
         /\ \/ InBody(LengthBody(m), rest, H, whole)
            \/ Complete(LengthBody(m), rest, H, whole)
<1>1. PICK body \in Text : body = m.body \o m.unparsed /\ body \o rest = whole
  BY MessageFields, TextJoin
<1>2. Header(m, "Content-Length") = Len(whole)
  BY DEF Header, Named, Measured
<1>3. PICK n \in Message :
        /\ n = LengthBody(m) /\ n.title = m.title /\ ~n.threw /\ n.title_parsed
        /\ n.headers_parsed /\ n.headers = H /\ n.unparsed = <<>> /\ n.body = body
        /\ n.body_parsed = (Len(body) = Len(whole))
  <2>1. PICK b \in BOOLEAN : b = (Len(body) = Len(whole))
    OBVIOUS
  <2>2. LengthBody(m) = [m EXCEPT !.body = body, !.unparsed = <<>>,
                                  !.body_parsed = b]
    BY <1>1, <1>2, <2>1 DEF LengthBody
  <2>3. LengthBody(m) \in Message
    BY <2>2, Symbols DEF Message
  <2> QED
    BY <2>1, <2>2, <2>3 DEF Message
<1>4. PICK i \in Nat, j \in Nat, k \in Nat :
        i = Len(body) /\ j = Len(rest) /\ k = Len(whole) /\ k = i + j
  <2>1. Len(body) \in Nat /\ Len(rest) \in Nat /\ Len(whole) \in Nat
    BY LenProperties DEF Text
  <2>2. Len(body \o rest) = Len(body) + Len(rest)
    BY TextJoin
  <2> QED
    BY <1>1, <2>1, <2>2
<1>5. CASE j = 0
  <2>1. rest = <<>>
    BY <1>4, <1>5, EmptySeq DEF Text
  <2>2. body = whole
    BY <1>1, <2>1, ConcatEmptySeq DEF Text
  <2>3. Complete(n, rest, H, whole)
    BY <1>3, <2>1, <2>2 DEF Complete, is_complete
  <2> QED
    BY <1>3, <2>3
<1>6. CASE j # 0
  <2>1. Len(body) # Len(whole)
    BY <1>4, <1>6
  <2>2. InBody(n, rest, H, whole)
    BY <1>1, <1>3, <2>1 DEF InBody
  <2> QED
    BY <1>3, <2>2
<1> QED
  BY <1>5, <1>6

(* A message with neither length nor chunks has no body.                   *)
LEMMA NoBodyOn ==
  ASSUME NEW m \in Message, NEW rest \in Text, NEW H,
         ~m.threw, m.title_parsed, m.headers_parsed, ~m.body_parsed,
         m.headers = H, (m.body \o m.unparsed) \o rest = <<>>
  PROVE  LET n == [m EXCEPT !.body_parsed = TRUE]
         IN  n.title = m.title /\ Complete(n, rest, H, <<>>)
<1>1. m.body \in Text /\ m.unparsed \in Text
  BY MessageFields
<1>2. PICK body \in Text : body = m.body \o m.unparsed
  BY <1>1, TextJoin
<1>3. body = <<>> /\ rest = <<>>
  BY <1>2, ConcatSimplifications DEF Text
<1>4. m.body = <<>> /\ m.unparsed = <<>>
  BY <1>1, <1>2, <1>3, ConcatSimplifications DEF Text
<1> QED
  BY <1>3, <1>4 DEF Complete, is_complete, Message

(* The same for any request.                                               *)
LEMMA RequestBodyOn ==
  ASSUME NEW m \in Message, NEW rest \in Text, NEW H, NEW whole \in Text,
         Measured(H, Len(whole)), Named(H, "Content-Length") \/ whole = <<>>,
         AtBody(m, rest, H, whole) \/ InBody(m, rest, H, whole)
  PROVE  /\ RequestBody[m].title = m.title
         /\ \/ InBody(RequestBody[m], rest, H, whole)
            \/ Complete(RequestBody[m], rest, H, whole)
<1>1. m.body \in Text /\ m.unparsed \in Text
  BY MessageFields
<1>2. /\ ~m.threw /\ m.title_parsed /\ m.headers_parsed /\ ~m.body_parsed
      /\ m.headers = H
  BY DEF AtBody, InBody
<1>3. (m.body \o m.unparsed) \o rest = whole
  <2>1. CASE AtBody(m, rest, H, whole)
    <3>1. m.body \o m.unparsed = m.unparsed
      BY <1>1, <2>1, ConcatEmptySeq DEF AtBody, Text
    <3> QED
      BY <2>1, <3>1 DEF AtBody
  <2>2. CASE InBody(m, rest, H, whole)
    <3>1. m.body \o m.unparsed = m.body
      BY <1>1, <2>2, ConcatEmptySeq DEF InBody, Text
    <3> QED
      BY <2>2, <3>1 DEF InBody
  <2> QED
    BY <2>1, <2>2
<1>4. Has(m, "Content-Length") <=> Named(H, "Content-Length")
  BY <1>2 DEF Has, Named
<1>5. CASE Named(H, "Content-Length")
  <2>1. RequestBody[m] = LengthBody(m)
    BY <1>2, <1>4, <1>5 DEF RequestBody
  <2> QED
    BY <1>2, <1>3, <1>5, <2>1, LengthBodyOn
<1>6. CASE ~Named(H, "Content-Length")
  <2>1. RequestBody[m] = [m EXCEPT !.body_parsed = TRUE]
    BY <1>2, <1>4, <1>6 DEF RequestBody
  <2>2. whole = <<>>
    BY <1>6
  <2> QED
    BY <1>2, <1>3, <2>1, <2>2, NoBodyOn
<1> QED
  BY <1>5, <1>6

(* A request of which all but `rest` has been parsed, as far as it can be. *)
RequestAt(m, rest, H, whole) ==
  \/ AtHeaders(m, rest, H, whole)
  \/ InBody(m, rest, H, whole)
  \/ Complete(m, rest, H, whole)

(* A request from its header lines on.                                     *)
LEMMA AfterRequestTitle ==
  ASSUME NEW m \in Message, NEW rest \in Text, NEW H, NEW whole \in Text,
         Measured(H, Len(whole)), Named(H, "Content-Length") \/ whole = <<>>,
         AtHeaders(m, rest, H, whole)
  PROVE  /\ RequestBody[Headers[m]].title = m.title
         /\ RequestAt(RequestBody[Headers[m]], rest, H, whole)
<1>1. PICK h \in Message :
        /\ h = Headers[m] /\ h.title = m.title
        /\ AtHeaders(h, rest, H, whole) \/ AtBody(h, rest, H, whole)
  BY HeadersOn
<1>2. CASE AtHeaders(h, rest, H, whole)
  <2>1. RequestBody[h] = h
    BY <1>2 DEF RequestBody, AtHeaders
  <2> QED
    BY <1>1, <1>2, <2>1 DEF RequestAt
<1>3. CASE AtBody(h, rest, H, whole)
  <2>1. PICK n : n = RequestBody[h]
    OBVIOUS
  <2>2. /\ n.title = h.title
        /\ InBody(n, rest, H, whole) \/ Complete(n, rest, H, whole)
    BY <1>3, <2>1, RequestBodyOn
  <2> QED
    BY <1>1, <2>1, <2>2 DEF RequestAt
<1> QED
  BY <1>1, <1>2, <1>3

(* The next piece of a request whose first line has been read.             *)
LEMMA AppendRequestOn ==
  ASSUME NEW m \in Message, NEW data \in Text, NEW rest \in Text,
         NEW H, NEW whole \in Text,
         Measured(H, Len(whole)), Named(H, "Content-Length") \/ whole = <<>>,
         \/ AtHeaders(m, data \o rest, H, whole)
         \/ InBody(m, data \o rest, H, whole)
  PROVE  /\ AppendRequest(m, data).title = m.title
         /\ RequestAt(AppendRequest(m, data), rest, H, whole)
<1> DEFINE Good(n) == n.title = m.title /\ RequestAt(n, rest, H, whole)
<1> SUFFICES Good(AppendRequest(m, data))
  OBVIOUS
<1>1. PICK u \in Text : u = m.unparsed
  BY MessageFields
<1>2. PICK v \in Text : v = u \o data
  BY TextJoin
<1>3. PICK a \in Message : /\ a = [m EXCEPT !.unparsed = v]
                           /\ a.unparsed = v /\ a.title = m.title
                           /\ a.body = m.body /\ a.headers = m.headers
                           /\ a.threw = m.threw /\ a.title_parsed = m.title_parsed
                           /\ a.headers_parsed = m.headers_parsed
                           /\ a.body_parsed = m.body_parsed
  <2>1. [m EXCEPT !.unparsed = v] \in Message
    BY DEF Message
  <2> QED
    BY <2>1 DEF Message
<1>4. a.title_parsed
  BY <1>3 DEF AtHeaders, InBody
<1>5. AppendRequest(m, data) = RequestBody[Headers[a]]
  <2>1. RequestTitle[a] = a
    BY <1>4 DEF RequestTitle
  <2> QED
    BY <1>1, <1>2, <1>3, <2>1 DEF AppendRequest
<1>6. v \o rest = u \o (data \o rest)
  BY <1>2, JoinAssociative, SMTT(30)
<1>7. CASE AtHeaders(m, data \o rest, H, whole)
  <2>1. AtHeaders(a, rest, H, whole)
    BY <1>1, <1>3, <1>6, <1>7 DEF AtHeaders
  <2>2. Good(RequestBody[Headers[a]])
    BY <1>3, <2>1, AfterRequestTitle
  <2> QED
    BY <1>5, <2>2
<1>8. CASE InBody(m, data \o rest, H, whole)
  <2>1. Headers[a] = a
    <3>1. HeaderTurn(a) = a
      BY <1>3, <1>8 DEF InBody, HeaderTurn, HeaderStep
    <3>2. {a} \in SUBSET Message /\ \A x \in {a} : HeaderTurn(x) \in {a}
      BY <3>1
    <3> QED
      BY <3>2, HeadersRun
  <2>2. u = <<>> /\ v = data
    BY <1>1, <1>2, <1>8, ConcatEmptySeq DEF InBody, Text
  <2>3. PICK b \in Text : b = m.body
    BY MessageFields
  <2>4. (b \o data) \o rest = b \o (data \o rest)
    BY JoinAssociative
  <2>5. (a.body \o a.unparsed) \o rest = whole
    BY <1>3, <1>8, <2>2, <2>3, <2>4 DEF InBody
  <2>6. /\ ~a.threw /\ a.title_parsed /\ a.headers_parsed /\ ~a.body_parsed
        /\ a.headers = H
    BY <1>3, <1>8 DEF InBody
  <2>7. Has(a, "Content-Length") <=> Named(H, "Content-Length")
    BY <2>6 DEF Has, Named
  <2>8. CASE Named(H, "Content-Length")
    <3>1. RequestBody[a] = LengthBody(a)
      BY <2>6, <2>7, <2>8 DEF RequestBody
    <3>2. /\ LengthBody(a).title = a.title
          /\ \/ InBody(LengthBody(a), rest, H, whole)
             \/ Complete(LengthBody(a), rest, H, whole)
      BY <2>5, <2>6, <2>8, LengthBodyOn
    <3>3. Good(LengthBody(a))
      BY <1>3, <3>2 DEF RequestAt
    <3> QED
      BY <1>5, <2>1, <3>1, <3>3
  <2>9. CASE ~Named(H, "Content-Length")
    <3>1. RequestBody[a] = [a EXCEPT !.body_parsed = TRUE]
      BY <2>6, <2>7, <2>9 DEF RequestBody
    <3>2. whole = <<>>
      BY <2>9
    <3>3. /\ RequestBody[a].title = a.title
          /\ Complete(RequestBody[a], rest, H, whole)
      BY <2>5, <2>6, <3>1, <3>2, NoBodyOn
    <3>4. Good(RequestBody[a])
      BY <1>3, <3>3 DEF RequestAt
    <3> QED
      BY <1>5, <2>1, <3>4
  <2> QED
    BY <2>8, <2>9
<1> QED
  BY <1>7, <1>8

(* A line put before others.                                               *)
LEMMA LineBefore ==
  ASSUME NEW J \in Line, NEW L \in Seq(Line)
  PROVE  \E K \in Seq(Line) : /\ Lines(K) = (J \o CRLF) \o Lines(L)
                              /\ ToSet(K) = {J} \cup ToSet(L)
<1>1. PICK j \in Seq(Line) : j = <<J>> /\ Len(j) = 1 /\ j[1] = J
  <2>1. <<J>> \in Seq(Line) /\ Len(<<J>>) = 1 /\ <<J>>[1] = J
    OBVIOUS
  <2> QED
    BY <2>1
<1>2. PICK n \in Nat : n = Len(L)
  BY LenProperties
<1>3. PICK K \in Seq(Line) :
        /\ K = j \o L /\ Len(K) = 1 + n
        /\ \A i \in 1..(1 + n) : K[i] = IF i <= 1 THEN j[i] ELSE L[i - 1]
  <2>1. /\ j \o L \in Seq(Line) /\ Len(j \o L) = Len(j) + Len(L)
        /\ \A i \in 1..(Len(j) + Len(L)) :
             (j \o L)[i] = IF i <= Len(j) THEN j[i] ELSE L[i - Len(j)]
    BY ConcatProperties
  <2> QED
    BY <1>1, <1>2, <2>1
<1>4. K # <<>>
  <2>1. Len(K) # 0
    BY <1>3
  <2> QED
    BY <2>1
<1>5. Head(K) = J
  BY <1>1, <1>3, <1>4
<1>6. Tail(K) = L
  <2>1. /\ Tail(K) \in Seq(Line) /\ Len(Tail(K)) = Len(K) - 1
        /\ \A i \in 1..Len(Tail(K)) : Tail(K)[i] = K[i + 1]
    BY <1>4, HeadTailProperties
  <2>2. Len(Tail(K)) = n
    BY <1>3, <2>1
  <2>3. ASSUME NEW i \in 1..Len(Tail(K))
        PROVE  Tail(K)[i] = L[i]
    <3>1. i + 1 \in 1..(1 + n) /\ ~(i + 1 <= 1) /\ (i + 1) - 1 = i
      BY <2>2
    <3>2. K[i + 1] = L[i]
      BY <1>3, <3>1
    <3> QED
      BY <2>1, <3>2
  <2> QED
    BY <1>2, <2>1, <2>2, <2>3, SeqEqual
<1>7. Lines(K) = (J \o CRLF) \o Lines(L)
  BY <1>4, <1>5, <1>6, LinesParts
<1>8. ToSet(K) = {J} \cup ToSet(L)
  BY <1>4, <1>5, <1>6, ElementsParts
<1> QED
  BY <1>7, <1>8

(* The first piece of a request: it is parsed as far as it goes, unless it *)
(* ends in the first line.                                                 *)
FirstRead(n, title, H, data, rest, length, whole) ==
  \/ n.title = title /\ RequestAt(n, rest, H, whole)
  \/ Len(data) < length /\ n.threw
  \/ /\ Len(data) < length /\ n.title \in Plain \X Plain \X Plain
     /\ \E J \in Junk : RequestAt(n, rest, {J} \cup H, whole)

(* The first piece of a request, whose text is given by its parts.         *)
LEMMA FirstOfRequest ==
  ASSUME NEW data \in Text, data # <<>>, NEW rest \in Text,
         NEW w1 \in Word, NEW w2 \in Word, NEW w3 \in Word, Len(w3) > 1,
         NEW s2 \in Junk, s2 = w2 \o (<<SP>> \o w3),
         NEW s1 \in Junk, s1 = w1 \o (<<SP>> \o s2),
         NEW hs \in Seq(Line), NEW whole \in Text,
         NEW t \in Text, t = Lines(hs) \o (CRLF \o whole),
         data \o rest = s1 \o (CRLF \o t),
         Measured(ToSet(hs), Len(whole)),
         Named(ToSet(hs), "Content-Length") \/ whole = <<>>
  PROVE  FirstRead(AppendRequest(NewMessage, data), <<w1, w2, w3>>, ToSet(hs),
                   data, rest, Len(s1) + 2, whole)
<1>1. PICK m \in Message :
        /\ m = [NewMessage EXCEPT !.unparsed = data]
        /\ m.unparsed = data /\ m.headers = {} /\ m.body = <<>> /\ ~m.threw
        /\ ~m.title_parsed /\ ~m.headers_parsed /\ ~m.body_parsed
  <2>1. <<>> \in Text /\ {} \in SUBSET Text /\ <<>> \in RequestTitles
    BY Symbols DEF RequestTitles
  <2>2. NewMessage \in Message
    BY <2>1 DEF NewMessage, Message
  <2>3. [NewMessage EXCEPT !.unparsed = data] \in Message
    BY <2>2 DEF Message
  <2> QED
    BY <2>3 DEF NewMessage
<1>2. PICK n : n = RequestTitle[m]
  OBVIOUS
<1>3. AppendRequest(NewMessage, data) = RequestBody[Headers[n]]
  <2>1. <<>> \o data = data
    BY ConcatEmptySeq DEF Text
  <2> QED
    BY <1>1, <1>2, <2>1 DEF AppendRequest, NewMessage
<1>4. TitleRead(m, n, rest, <<w1, w2, w3>>, Len(s1) + 2, t)
  BY <1>1, <1>2, RequestTitleOn
<1>5. <<w1, w2, w3>> \in Text \X Text \X Text
  BY WordIsJunk, JunkIsLine
<1>6. ASSUME NEW title \in Text \X Text \X Text, NEW w \in Text,
             n = [m EXCEPT !.title = title, !.unparsed = w, !.title_parsed = TRUE]
      PROVE  /\ n \in Message /\ n.title = title /\ n.unparsed = w
             /\ n.headers = {} /\ n.body = <<>> /\ ~n.threw
             /\ n.title_parsed /\ ~n.headers_parsed /\ ~n.body_parsed
  BY <1>1, <1>6 DEF Message, RequestTitles
<1>7. CASE \E w \in Text :
             /\ w \o rest = t
             /\ n = [m EXCEPT !.title = <<w1, w2, w3>>, !.unparsed = w,
                              !.title_parsed = TRUE]
  <2>1. PICK w \in Text :
          /\ w \o rest = t
          /\ n = [m EXCEPT !.title = <<w1, w2, w3>>, !.unparsed = w,
                           !.title_parsed = TRUE]
    BY <1>7
  <2>2. /\ n \in Message /\ n.title = <<w1, w2, w3>> /\ n.unparsed = w
        /\ n.headers = {} /\ n.body = <<>> /\ ~n.threw
        /\ n.title_parsed /\ ~n.headers_parsed /\ ~n.body_parsed
    BY <1>5, <1>6, <2>1
  <2>3. AtHeaders(n, rest, ToSet(hs), whole)
    BY <2>1, <2>2 DEF AtHeaders
  <2>4. /\ RequestBody[Headers[n]].title = n.title
        /\ RequestAt(RequestBody[Headers[n]], rest, ToSet(hs), whole)
    BY <2>2, <2>3, AfterRequestTitle
  <2> QED
    BY <1>3, <2>2, <2>4 DEF FirstRead
<1>8. CASE Len(m.unparsed) < Len(s1) + 2 /\ n = Threw(m)
  <2>1. n \in Message /\ n.threw /\ ~n.headers_parsed
    BY <1>1, <1>8 DEF Threw, Message
  <2>2. HeaderTurn(n) = n
    BY <2>1 DEF HeaderTurn
  <2>3. {n} \in SUBSET Message /\ \A x \in {n} : HeaderTurn(x) \in {n}
    BY <2>1, <2>2
  <2>4. Headers[n] = n
    BY <2>3, HeadersRun
  <2>5. RequestBody[n] = n
    BY <2>1 DEF RequestBody
  <2> QED
    BY <1>1, <1>3, <1>8, <2>1, <2>4, <2>5 DEF FirstRead
<1>9. CASE /\ Len(m.unparsed) < Len(s1) + 2
           /\ \E w \in Text, J \in Junk, any \in Plain \X Plain \X Plain :
                /\ w \o rest = J \o (CRLF \o t)
                /\ n = [m EXCEPT !.title = any, !.unparsed = w,
                                 !.title_parsed = TRUE]
  <2>1. PICK w \in Text, J \in Junk, any \in Plain \X Plain \X Plain :
          /\ w \o rest = J \o (CRLF \o t)
          /\ n = [m EXCEPT !.title = any, !.unparsed = w, !.title_parsed = TRUE]
    BY <1>9
  <2>2. /\ n \in Message /\ n.title = any /\ n.unparsed = w
        /\ n.headers = {} /\ n.body = <<>> /\ ~n.threw
        /\ n.title_parsed /\ ~n.headers_parsed /\ ~n.body_parsed
    <3>1. any \in Text \X Text \X Text
      BY DEF Plain
    <3> QED
      BY <1>6, <2>1, <3>1
  <2>3. J \in Line /\ J \in Text /\ J[1][1] \in {"byte", "sp"}
    BY JunkIsLine
  <2>4. PICK K \in Seq(Line) : /\ Lines(K) = (J \o CRLF) \o Lines(hs)
                               /\ ToSet(K) = {J} \cup ToSet(hs)
    BY <2>3, LineBefore
  <2>5. w \o rest = Lines(K) \o (CRLF \o whole)
    <3>1. PICK y \in Text : y = CRLF \o whole
      BY Symbols, TextJoin
    <3>2. PICK ls \in Text : ls = Lines(hs)
      BY LinesParts
    <3>3. PICK c \in Text : c = CRLF
      BY Symbols
    <3>4. PICK jc \in Text : jc = J \o c
      BY <2>3, TextJoin
    <3>5. Between(jc, ls, y) /\ Between(J, c, t)
      BY <2>3, TextBetween
    <3>6. (jc \o ls) \o y = jc \o t
      BY <3>1, <3>2, <3>5 DEF Between
    <3>7. jc \o t = J \o (c \o t)
      BY <3>4, <3>5 DEF Between
    <3> QED
      BY <2>1, <2>4, <3>1, <3>2, <3>3, <3>4, <3>6, <3>7
  <2>6. PICK H : H = {J} \cup ToSet(hs)
    OBVIOUS
  <2>7. AtHeaders(n, rest, H, whole)
    BY <2>2, <2>4, <2>5, <2>6 DEF AtHeaders
  <2>8. Measured(H, Len(whole))
    BY <2>3, <2>6 DEF Measured
  <2>9. Named(H, "Content-Length") \/ whole = <<>>
    BY <2>6 DEF Named
  <2>10. /\ RequestBody[Headers[n]].title = n.title
         /\ RequestAt(RequestBody[Headers[n]], rest, H, whole)
    BY <2>2, <2>7, <2>8, <2>9, AfterRequestTitle
  <2> QED
    BY <1>1, <1>3, <1>9, <2>2, <2>6, <2>10, ZenonT(30) DEF FirstRead
<1> QED
  BY <1>4, <1>7, <1>8, <1>9 DEF TitleRead

-----------------------------------------------------------------------------
(* The first line of a response.                                           *)

(* A text that begins with a number has its value.                         *)
LEMMA NumberFirst ==
  ASSUME NEW s \in Text, s # <<>>, NEW k \in Nat, s[1] = Num(k)
  PROVE  Numeric(s) /\ Value(s) = k
<1>1. 1 \in 1..Len(s) /\ Len(s) \in Nat
  BY EmptySeq DEF Text
<1>2. s[1][1] = "num" /\ s[1][2] = k
  BY DEF Num
<1>3. Numeric(s)
  BY <1>1, <1>2 DEF Numeric
<1>4. PICK ns : ns = {i \in 1..Len(s) : s[i][1] = "num"}
  OBVIOUS
<1>5. 1 \in ns /\ \A i \in ns : i \in Nat /\ 1 <= i
  BY <1>1, <1>2, <1>4
<1>6. Min(ns) \in ns /\ \A i \in ns : Min(ns) <= i
  BY <1>5 DEF Min
<1>7. Min(ns) = 1
  BY <1>5, <1>6
<1> QED
  BY <1>2, <1>3, <1>4, <1>7 DEF Value

(* A text without numbers has none.                                        *)
LEMMA NoNumber ==
  ASSUME NEW s \in Text, \A i \in 1..Len(s) : s[i][1] # "num"
  PROVE  ~Numeric(s)
BY DEF Numeric

(* A number is a text, and a word of its own.                              *)
LEMMA NumberAlone ==
  ASSUME NEW k \in Nat
  PROVE  /\ <<Num(k)>> \in Text /\ Len(<<Num(k)>>) = 1 /\ <<Num(k)>>[1] = Num(k)
         /\ \A i \in 1..1 : <<Num(k)>>[i] # SP /\ <<Num(k)>>[i] # CR
<1>1. Num(k) \in Symbol /\ Num(k) # SP /\ Num(k) # CR
  BY DEF Num, Symbol, SP, CR
<1>2. <<Num(k)>> \in Text /\ Len(<<Num(k)>>) = 1 /\ <<Num(k)>>[1] = Num(k)
  BY <1>1 DEF Text
<1> QED
  BY <1>1, <1>2

StatusRead(m, n, rest, code, reason, t) ==
  \E w \in Text : /\ w \o rest = t
                  /\ n = [m EXCEPT !.title = <<code, reason>>, !.unparsed = w,
                                   !.title_parsed = TRUE]

(* Version, code and reason are read from a line that is here.             *)
LEMMA ResponseTitleOn ==
  ASSUME NEW m \in Message, ~m.title_parsed, NEW rest \in Text, NEW t \in Text,
         NEW v \in Word, NEW code \in Nat,
         NEW reason \in Text, \A i \in 1..Len(reason) : reason[i] # CR,
         NEW r2 \in Text, r2 = reason \o (CRLF \o t),
         NEW r1 \in Text, r1 = <<Num(code)>> \o (<<SP>> \o r2),
         m.unparsed \o rest = v \o (<<SP>> \o r1),
         Len(m.unparsed) >= Len(v) + 3 + Len(reason) + 2
  PROVE  StatusRead(m, ResponseTitle[m], rest, code, reason, t)
<1>1. PICK u \in Text : u = m.unparsed /\ u \o rest = v \o (<<SP>> \o r1)
  BY MessageFields
<1>2. v \in Text /\ Len(v) \in Nat /\ \A i \in 1..Len(v) : v[i] # SP
  BY WordIsJunk, JunkIsLine
<1>3. PICK first, left, second, last, end, n :
        /\ first = Find(u, <<SP>>) /\ left = From(u, first + 1)
        /\ second = Find(left, <<SP>>) /\ last = From(left, second + 1)
        /\ end = Find(last, CRLF) /\ n = ResponseTitle[m]
  OBVIOUS
<1>4. n = IF ~Numeric(Upto(left, second)) \/ end + 2 > Len(last) THEN Threw(m)
          ELSE [m EXCEPT !.title = <<Value(Upto(left, second)), Upto(last, end)>>,
                         !.unparsed = From(last, end + 2),
                         !.title_parsed = TRUE]
  BY <1>1, <1>3 DEF ResponseTitle
<1>5. PICK k \in Nat, j \in Nat, i \in Nat :
        k = Len(u) /\ j = Len(v) /\ i = Len(reason) /\ k >= j + 3 + i + 2
  BY <1>1, <1>2, TextJoin
<1>6. first = j /\ left \in Text /\ left \o rest = r1 /\ Len(left) = k - (j + 1)
  <2>1. WordFound(u, rest, v, r1)
    BY <1>1, <1>2, NextSpace
  <2>2. ~(k < j + 1)
    BY <1>5
  <2>3. first = j /\ left \in Text /\ left \o rest = r1
    BY <1>3, <1>5, <2>1, <2>2 DEF WordFound
  <2>4. PICK h \in Nat : h = j + 1 /\ h <= k
    BY <1>5
  <2>5. Len(From(u, h)) = Len(u) - h
    BY <1>5, <2>4, TextParts
  <2> QED
    BY <1>3, <1>5, <2>3, <2>4, <2>5
<1>7. PICK num \in Text : /\ num = <<Num(code)>> /\ Len(num) = 1 /\ num # <<>>
                          /\ num[1] = Num(code) /\ \A x \in 1..Len(num) : num[x] # SP
  <2>1. <<Num(code)>> # <<>>
    OBVIOUS
  <2> QED
    BY <2>1, NumberAlone
<1>8. /\ second = 1 /\ Upto(left, second) = num
      /\ last \in Text /\ last \o rest = r2 /\ Len(last) = k - (j + 3)
  <2>1. left \o rest = num \o (<<SP>> \o r2)
    BY <1>6, <1>7
  <2>2. WordFound(left, rest, num, r2)
    BY <1>6, <1>7, <2>1, NextSpace
  <2>3. ~(Len(left) < Len(num) + 1)
    BY <1>5, <1>6, <1>7
  <2>4. second = 1 /\ Upto(left, 1) = num /\ last \in Text /\ last \o rest = r2
    BY <1>3, <1>7, <2>2, <2>3 DEF WordFound
  <2>5. PICK g, h : /\ g = k - (j + 1) /\ h = second + 1
                    /\ g \in Nat /\ h \in Nat /\ h = 2 /\ h <= g
                    /\ g - h = k - (j + 3)
    BY <1>5, <2>4, SMTT(30)
  <2>6. g = Len(left) /\ last = From(left, h) /\ h = Len(num) + 1
    BY <1>3, <1>6, <1>7, <2>5
  <2>7. Len(last) = g - h
    <3>1. left \in Text /\ h \in Nat /\ h <= Len(left)
      BY <1>6, <2>5, <2>6
    <3>2. Len(From(left, h)) = Len(left) - h
      BY <3>1, TextParts
    <3> QED
      BY <2>6, <3>2
  <2>8. Upto(left, second) = num /\ last \in Text /\ last \o rest = r2
    BY <2>4, <2>6, <2>5
  <2> QED
    BY <2>4, <2>5, <2>7, <2>8
<1>9. /\ end = i /\ Upto(last, end) = reason
      /\ From(last, end + 2) \in Text /\ From(last, end + 2) \o rest = t
  <2>1. LineFound(last, rest, reason, t)
    BY <1>8, NextLine DEF OneLine
  <2>2. ~(Len(last) < i + 2)
    BY <1>5, <1>8
  <2> QED
    BY <1>3, <1>5, <2>1, <2>2 DEF LineFound
<1>10. Numeric(num) /\ Value(num) = code
  BY <1>7, NumberFirst
<1>11. ~(end + 2 > Len(last))
  BY <1>5, <1>8, <1>9
<1>12. PICK w \in Text : w = From(last, end + 2) /\ w \o rest = t
  BY <1>9
<1>13. n = [m EXCEPT !.title = <<code, reason>>, !.unparsed = w,
                     !.title_parsed = TRUE]
  BY <1>4, <1>8, <1>9, <1>10, <1>11, <1>12
<1> QED
  BY <1>3, <1>12, <1>13 DEF StatusRead

(* A text without a number is no response.                                 *)
LEMMA NoResponse ==
  ASSUME NEW m \in Message, ~m.title_parsed,
         \A i \in 1..Len(m.unparsed) : m.unparsed[i][1] # "num"
  PROVE  ResponseTitle[m] = Threw(m)
<1>1. PICK u \in Text : u = m.unparsed
  BY MessageFields
<1>2. PICK first, left, second, part :
        /\ first = Find(u, <<SP>>) /\ left = From(u, first + 1)
        /\ second = Find(left, <<SP>>) /\ part = Upto(left, second)
  OBVIOUS
<1>3. ~Numeric(part) => ResponseTitle[m] = Threw(m)
  BY <1>1, <1>2 DEF ResponseTitle
<1>4. /\ left \in Text /\ \A i \in 1..Len(left) : left[i][1] # "num"
  <2>1. first + 1 \in Nat /\ first + 1 <= Len(u) /\ Len(u) \in Nat
    <3>1. PICK g \in Nat : g = Len(u)
      BY TextJoin
    <3>2. first = -1 \/ (first \in Nat /\ SpaceAt(u, first))
      BY <1>2, FindSpace
    <3> QED
      BY <3>1, <3>2 DEF SpaceAt
  <2>2. PICK k \in Nat : k = first + 1 /\ k <= Len(u)
    BY <2>1
  <2>3. /\ From(u, k) \in Text /\ Len(From(u, k)) = Len(u) - k
        /\ \A i \in 1..(Len(u) - k) : From(u, k)[i] = u[k + i]
    BY <2>2, TextParts
  <2>4. \A i \in 1..(Len(u) - k) : k + i \in 1..Len(u)
    BY <2>1, <2>2
  <2>5. left = From(u, k) /\ Len(left) = Len(u) - k
    BY <1>2, <2>2, <2>3
  <2>6. ASSUME NEW i \in 1..(Len(u) - k)
        PROVE  left[i][1] # "num"
    <3>1. left[i] = u[k + i] /\ k + i \in 1..Len(u)
      BY <2>3, <2>4, <2>5
    <3> QED
      BY <1>1, <3>1
  <2> QED
    BY <2>3, <2>5, <2>6
<1>5. /\ part \in Text /\ \A i \in 1..Len(part) : part[i][1] # "num"
  <2>1. CASE second = -1
    BY <1>2, <1>4, <2>1 DEF Upto
  <2>2. CASE second # -1
    <3>1. second \in Nat /\ second <= Len(left) /\ Len(left) \in Nat
      <4>1. PICK g \in Nat : g = Len(left)
        BY <1>4, TextJoin
      <4>2. second \in Nat /\ SpaceAt(left, second)
        BY <1>2, <1>4, <2>2, FindSpace
      <4> QED
        BY <4>1, <4>2 DEF SpaceAt
    <3>2. PICK k \in Nat : k = second /\ k <= Len(left)
      BY <3>1
    <3>3. /\ Upto(left, k) \in Text /\ Len(Upto(left, k)) = k
          /\ \A i \in 1..k : Upto(left, k)[i] = left[i]
      BY <1>4, <3>2, TextParts
    <3>4. \A i \in 1..k : i \in 1..Len(left)
      BY <3>1, <3>2
    <3> QED
      BY <1>2, <1>4, <3>2, <3>3, <3>4
  <2> QED
    BY <2>1, <2>2
<1> QED
  BY <1>3, <1>5, NoNumber

-----------------------------------------------------------------------------
(* The loop over chunks.                                                   *)

Part == Text \ {<<>>}
ChunkText == [p \in Part |-> Chunk(p)]
ChunksText(P) == FlattenSeq(Mapped(P, ChunkText))

(* The parts of a chunk, and its text before another one.                  *)
LEMMA ChunkParts ==
  ASSUME NEW p \in Text, NEW z \in Text
  PROVE  /\ Chunk(p) \in Text /\ CRLF \o z \in Text /\ p \o (CRLF \o z) \in Text
         /\ <<Num(Len(p))>> \in Text
         /\ Chunk(p) \o z = <<Num(Len(p))>> \o (CRLF \o (p \o (CRLF \o z)))
<1>1. PICK k \in Nat : k = Len(p)
  BY TextJoin
<1>2. PICK n \in Text : n = <<Num(k)>>
  BY NumberAlone
<1>3. PICK c \in Text : c = CRLF
  BY Symbols
<1>4. PICK nc \in Text : nc = n \o c
  BY TextJoin
<1>5. PICK ncp \in Text : ncp = nc \o p
  BY TextJoin
<1>6. Chunk(p) = ncp \o c
  BY <1>1, <1>2, <1>3, <1>4, <1>5 DEF Chunk
<1>7. PICK y \in Text : y = c \o z
  BY TextJoin
<1>8. PICK x \in Text : x = p \o y
  BY TextJoin
<1>9. Between(ncp, c, z) /\ Between(nc, p, y) /\ Between(n, c, x)
  BY TextBetween
<1>10. (ncp \o c) \o z = ncp \o y /\ ncp \o c \in Text
  BY <1>7, <1>9 DEF Between
<1>11. ncp \o y = nc \o x
  BY <1>5, <1>8, <1>9 DEF Between
<1>12. nc \o x = n \o (c \o x)
  BY <1>4, <1>9 DEF Between
<1> QED
  BY <1>1, <1>2, <1>3, <1>6, <1>7, <1>8, <1>10, <1>11, <1>12

(* The first of some chunks, and what follows it.                          *)
LEMMA ChunksParts ==
  ASSUME NEW P \in Seq(Part)
  PROVE  /\ ChunksText(P) \in Text
         /\ P = <<>> => ChunksText(P) = <<>>
         /\ P # <<>> => /\ Head(P) \in Part /\ Tail(P) \in Seq(Part)
                        /\ ChunksText(P) = Chunk(Head(P)) \o ChunksText(Tail(P))
<1>1. ChunkText \in [Part -> Text]
  <2>1. ASSUME NEW p \in Part
        PROVE  Chunk(p) \in Text
    BY Symbols, ChunkParts DEF Part
  <2> QED
    BY <2>1 DEF ChunkText
<1>2. \A p \in Part : ChunkText[p] = Chunk(p)
  BY DEF ChunkText
<1> QED
  BY <1>1, <1>2, MappedFlat DEF ChunksText

(* The number that a text begins with.                                     *)
LEMMA NumberType ==
  ASSUME NEW s \in Text, Numeric(s)
  PROVE  Value(s) \in Nat
<1>1. PICK ns : ns = {i \in 1..Len(s) : s[i][1] = "num"}
  OBVIOUS
<1>2. ns # {} /\ ns \subseteq Nat
  BY <1>1 DEF Numeric
<1>3. \E x \in ns : \A y \in ns : x <= y
  BY <1>2, LeastNumber
<1>4. Min(ns) \in ns
  BY <1>3 DEF Min
<1>5. Min(ns) \in 1..Len(s)
  BY <1>1, <1>4
<1>6. s[Min(ns)] \in Symbol
  BY <1>5, ElementOfSeq DEF Text
<1> QED
  BY <1>1, <1>6 DEF Value, Symbol

LastChunkText == LastChunk \in Text /\ Len(LastChunk) = 5
                 /\ LastChunk = <<Num(0)>> \o (CRLF \o CRLF)
                 /\ \A i \in 2..5 : LastChunk[i][1] # "num"

(* The last chunk has five symbols.                                        *)
LEMMA LastChunkParts == LastChunkText
<1>1. PICK n \in Text : n = <<Num(0)>> /\ Len(n) = 1
  BY NumberAlone
<1>2. PICK c \in Text : c = CRLF /\ Len(c) = 2 /\ c[1] = CR /\ c[2] = LF
  BY Symbols
<1>3. PICK nc \in Text : nc = n \o c
  BY TextJoin
<1>4. LastChunk = nc \o c
  BY <1>1, <1>2, <1>3 DEF LastChunk
<1>5. nc \o c = n \o (c \o c)
  BY <1>3, JoinAssociative
<1>6. PICK one \in 1..2, two \in 1..2 : one = 1 /\ two = 2
  OBVIOUS
<1>7. Len(nc) = 3 /\ nc[2] = CR /\ nc[3] = LF
  <2>1. /\ Len(n \o c) = Len(n) + Len(c)
        /\ \A i \in 1..Len(c) : (n \o c)[Len(n) + i] = c[i]
    BY TextJoin
  <2>2. Len(nc) = 3 /\ \A i \in 1..2 : nc[1 + i] = c[i]
    BY <1>1, <1>2, <1>3, <2>1
  <2>3. nc[1 + one] = c[one] /\ nc[1 + two] = c[two]
    BY <2>2
  <2>4. 1 + one = 2 /\ 1 + two = 3 /\ c[one] = CR /\ c[two] = LF
    BY <1>2, <1>6
  <2> QED
    BY <2>2, <2>3, <2>4
<1>8. PICK lc \in Text : /\ lc = nc \o c /\ Len(lc) = 5
                         /\ lc[2] = CR /\ lc[3] = LF /\ lc[4] = CR /\ lc[5] = LF
  <2>1. /\ nc \o c \in Text /\ Len(nc \o c) = Len(nc) + Len(c)
        /\ \A i \in 1..Len(nc) : (nc \o c)[i] = nc[i]
        /\ \A i \in 1..Len(c) : (nc \o c)[Len(nc) + i] = c[i]
    BY TextJoin
  <2>2. PICK lc \in Text : lc = nc \o c
    BY <2>1
  <2>3. Len(lc) = 5 /\ \A i \in 1..3 : lc[i] = nc[i]
    BY <1>2, <1>7, <2>1, <2>2
  <2>4. \A i \in 1..2 : lc[3 + i] = c[i]
    <3>1. Len(c) = 2 /\ Len(nc) = 3
      BY <1>2, <1>7
    <3> QED
      BY <2>1, <2>2, <3>1
  <2>5. lc[3 + one] = c[one] /\ lc[3 + two] = c[two]
    BY <2>4
  <2>6. 3 + one = 4 /\ 3 + two = 5 /\ c[one] = CR /\ c[two] = LF
    BY <1>2, <1>6
  <2>7. lc[2] = nc[2] /\ lc[3] = nc[3]
    BY <2>3
  <2> QED
    BY <1>7, <2>2, <2>5, <2>6, <2>7, <2>3
<1>9. \A i \in 2..5 : lc[i][1] # "num"
  <2>1. \A i \in 2..5 : i = 2 \/ i = 3 \/ i = 4 \/ i = 5
    OBVIOUS
  <2>2. CR[1] # "num" /\ LF[1] # "num"
    BY DEF CR, LF
  <2> QED
    BY <1>8, <2>1, <2>2
<1> QED
  BY <1>1, <1>2, <1>4, <1>5, <1>9, <1>8 DEF LastChunkText

(* What is left of what is left.                                           *)
LEMMA FromTwice ==
  ASSUME NEW s \in Text, NEW i \in Nat, NEW j \in Nat, NEW k \in Nat,
         k = i + j, k <= Len(s)
  PROVE  From(From(s, i), j) = From(s, k)
<1>1. PICK len \in Nat, a \in Nat, b \in Nat :
        len = Len(s) /\ a = len - i /\ b = len - k /\ i <= len /\ j <= a /\ b = a - j
  BY TextParts
<1>2. PICK t \in Text : /\ t = From(s, i) /\ Len(t) = a
                        /\ \A x \in 1..a : t[x] = s[i + x]
  BY <1>1, TextParts, ZenonT(30)
<1>3. PICK v \in Text : /\ v = From(t, j) /\ Len(v) = b
                        /\ \A x \in 1..b : v[x] = t[j + x]
  <2>1. PICK n : n = Len(t) - j /\ n = b /\ j <= Len(t)
    BY <1>1, <1>2
  <2>2. j <= Len(t)
    BY <2>1
  <2>3. /\ From(t, j) \in Text /\ Len(From(t, j)) = Len(t) - j
        /\ \A x \in 1..(Len(t) - j) : From(t, j)[x] = t[j + x]
    BY <2>2, TextParts
  <2>4. Len(t) - j = b
    BY <2>1
  <2>5. /\ From(t, j) \in Text /\ Len(From(t, j)) = b
        /\ \A x \in 1..b : From(t, j)[x] = t[j + x]
    BY <2>3, <2>4
  <2> QED
    BY <2>5
<1>4. PICK w \in Text : /\ w = From(s, k) /\ Len(w) = b
                        /\ \A x \in 1..b : w[x] = s[k + x]
  <2>1. PICK n : n = Len(s) - k /\ n = b
    BY <1>1
  <2>2. k <= Len(s)
    BY <2>1
  <2>3. /\ From(s, k) \in Text /\ Len(From(s, k)) = Len(s) - k
        /\ \A x \in 1..(Len(s) - k) : From(s, k)[x] = s[k + x]
    BY <2>2, TextParts
  <2>4. Len(s) - k = b
    BY <2>1
  <2>5. /\ From(s, k) \in Text /\ Len(From(s, k)) = b
        /\ \A x \in 1..b : From(s, k)[x] = s[k + x]
    BY <2>3, <2>4
  <2> QED
    BY <2>5
<1>5. ASSUME NEW x \in 1..b
      PROVE  v[x] = w[x]
  <2>1. PICK y : y = j + x /\ y \in 1..a /\ i + y = k + x
    BY <1>1
  <2>2. t[y] = s[i + y] /\ v[x] = t[y] /\ w[x] = s[k + x]
    BY <1>2, <1>3, <1>4, <2>1
  <2> QED
    BY <2>1, <2>2
<1>6. v = w
  BY <1>3, <1>4, <1>5, TextEqual
<1> QED
  BY <1>2, <1>3, <1>4, <1>6

(* What a turn does to any parser, and that it makes the text shorter or   *)
(* ends the parsing.                                                       *)
ChunkTurned(m, n) ==
  \/ n = m
  \/ n = Threw(m) /\ ~m.threw
  \/ \E k \in Nat : /\ k > 0 /\ k <= Len(m.unparsed)
                    /\ n = [m EXCEPT !.unparsed = From(m.unparsed, k),
                                     !.body_parsed = TRUE]
  \/ \E k \in Nat, b \in Text :
       /\ k > 0 /\ k <= Len(m.unparsed)
       /\ n = [m EXCEPT !.body = b, !.unparsed = From(m.unparsed, k)]

(* That is what ChunkStep does.                                            *)
LEMMA ChunkStepEffect ==
  ASSUME NEW m \in Message
  PROVE  ChunkTurned(m, ChunkStep(m))
<1>1. PICK u \in Text, len \in Nat : u = m.unparsed /\ len = Len(u)
  BY MessageFields
<1>2. PICK line : line = Find(u, CRLF)
  OBVIOUS
<1>3. PICK first, temp, n : /\ first = Upto(u, line) /\ temp = From(u, line + 2)
                            /\ n = ChunkStep(m)
  OBVIOUS
<1>4. n = IF m.threw \/ m.body_parsed \/ u = <<>> THEN m
          ELSE IF ~Numeric(first) THEN Threw(m)
          ELSE IF Value(first) = 0
          THEN IF line + 4 > len THEN Threw(m)
               ELSE [m EXCEPT !.unparsed = From(u, line + 4), !.body_parsed = TRUE]
          ELSE IF Len(temp) < Value(first) + 2 THEN m
          ELSE [m EXCEPT !.body = m.body \o Upto(temp, Value(first)),
                         !.unparsed = From(temp, Value(first) + 2)]
  BY <1>1, <1>2, <1>3 DEF ChunkStep
<1>5. CASE m.threw \/ u = <<>> \/ n = m \/ n = Threw(m)
  <2>1. n = m \/ (n = Threw(m) /\ ~m.threw)
    BY <1>4, <1>5
  <2> QED
    BY <1>3, <2>1 DEF ChunkTurned
<1>6. CASE ~(m.threw \/ u = <<>> \/ n = m \/ n = Threw(m))
  <2>1. /\ Numeric(first) /\ ~m.threw /\ ~m.body_parsed
        /\ \/ /\ ~(line + 4 > len)
              /\ n = [m EXCEPT !.unparsed = From(u, line + 4), !.body_parsed = TRUE]
           \/ /\ ~(Len(temp) < Value(first) + 2)
              /\ n = [m EXCEPT !.body = m.body \o Upto(temp, Value(first)),
                               !.unparsed = From(temp, Value(first) + 2)]
    BY <1>4, <1>6
  <2>2. line = -1 \/ (line \in Nat /\ line + 2 <= len)
    BY <1>1, <1>2, FindLineEnd DEF LineEndAt
  <2>3. len > 0
    BY <1>1, <1>6, EmptySeq DEF Text
  <2>4. CASE /\ ~(line + 4 > len)
             /\ n = [m EXCEPT !.unparsed = From(u, line + 4), !.body_parsed = TRUE]
    <3>1. PICK k \in Nat : k = line + 4 /\ k > 0 /\ k <= len
      BY <2>2, <2>4
    <3> QED
      BY <1>1, <1>3, <2>4, <3>1 DEF ChunkTurned
  <2>5. CASE /\ ~(Len(temp) < Value(first) + 2)
             /\ n = [m EXCEPT !.body = m.body \o Upto(temp, Value(first)),
                              !.unparsed = From(temp, Value(first) + 2)]
    <3>1. first \in Text
      <4>1. CASE line = -1
        BY <1>3, <4>1 DEF Upto
      <4>2. CASE line # -1
        <5>1. line \in Nat /\ line <= Len(u)
          BY <1>1, <2>2, <4>2
        <5> QED
          BY <1>3, <5>1, TextParts
      <4> QED
        BY <4>1, <4>2
    <3>2. PICK size \in Nat : size = Value(first)
      BY <2>1, <3>1, NumberType
    <3>3. PICK i \in Nat : i = line + 2 /\ i > 0 /\ i <= len
      BY <2>2, <2>3
    <3>4. temp \in Text /\ Len(temp) = len - i
      BY <1>1, <1>3, <3>3, TextParts
    <3>5. PICK j \in Nat, tlen \in Nat :
            j = size + 2 /\ tlen = len - i /\ j <= tlen /\ size <= tlen /\ tlen = Len(temp)
      BY <2>5, <3>2, <3>3, <3>4
    <3>6. PICK k \in Nat : k = i + j /\ k > 0 /\ k <= len
      BY <3>3, <3>5
    <3>7. From(temp, j) = From(u, k)
      <4>1. From(From(u, i), j) = From(u, k)
        BY <1>1, <3>6, FromTwice
      <4>2. temp = From(u, i)
        BY <1>3, <3>3
      <4> QED
        BY <4>1, <4>2
    <3>8. Upto(temp, size) \in Text
      BY <3>4, <3>5, TextParts
    <3>9. PICK b \in Text : b = m.body \o Upto(temp, size)
      BY <3>8, MessageFields, TextJoin
    <3>10. n = [m EXCEPT !.body = b, !.unparsed = From(u, k)]
      BY <2>5, <3>2, <3>5, <3>7, <3>9
    <3> QED
      BY <1>1, <1>3, <3>6, <3>10 DEF ChunkTurned
  <2> QED
    BY <2>1, <2>4, <2>5
<1> QED
  BY <1>5, <1>6

(* How much there is left to do.                                           *)
Remaining(m) == 2 * Len(m.unparsed) + IF m.threw THEN 0 ELSE 1

(* A turn leaves a parser, with less to do unless it changes nothing.      *)
LEMMA ChunkStepType ==
  ASSUME NEW m \in Message
  PROVE  /\ ChunkStep(m) \in Message
         /\ Remaining(m) \in Nat
         /\ ChunkStep(m) # m => Remaining(ChunkStep(m)) < Remaining(m)
<1>1. PICK u \in Text, len \in Nat, n \in {ChunkStep(m)} :
        u = m.unparsed /\ len = Len(u) /\ n = ChunkStep(m)
  BY MessageFields
<1>2. Remaining(m) \in Nat
  <2>1. PICK c \in {0, 1} : c = (IF m.threw THEN 0 ELSE 1)
    OBVIOUS
  <2>2. Remaining(m) = 2 * len + c
    BY <1>1, <2>1 DEF Remaining
  <2> QED
    BY <2>2
<1>3. CASE n = m
  BY <1>1, <1>2, <1>3
<1>4. CASE n = Threw(m) /\ ~m.threw
  <2>1. n \in Message /\ n.threw /\ n.unparsed = u
    BY <1>1, <1>4 DEF Threw, Message
  <2> QED
    BY <1>1, <1>2, <1>4, <2>1 DEF Remaining
<1>5. ASSUME NEW k \in Nat, k > 0, k <= len, n \in Message,
             n.unparsed = From(u, k), n.threw = m.threw
      PROVE  Remaining(n) < Remaining(m)
  <2>1. PICK i \in Nat : i = Len(n.unparsed) /\ i < len
    <3>1. Len(From(u, k)) = len - k
      BY <1>1, <1>5, TextParts
    <3> QED
      BY <1>5, <3>1
  <2>2. PICK c \in {0, 1} : c = (IF m.threw THEN 0 ELSE 1)
    OBVIOUS
  <2>3. Remaining(n) = 2 * i + c /\ Remaining(m) = 2 * len + c
    BY <1>1, <1>5, <2>1, <2>2 DEF Remaining
  <2> QED
    BY <2>1, <2>3
<1>6. CASE \E k \in Nat : /\ k > 0 /\ k <= len
                          /\ n = [m EXCEPT !.unparsed = From(u, k),
                                           !.body_parsed = TRUE]
  <2>1. PICK k \in Nat : /\ k > 0 /\ k <= len
                         /\ n = [m EXCEPT !.unparsed = From(u, k),
                                          !.body_parsed = TRUE]
    BY <1>6
  <2>2. PICK v \in Text : v = From(u, k)
    BY <1>1, <2>1, TextParts
  <2>3. n \in Message
    BY <2>1, <2>2 DEF Message
  <2>4. n.unparsed = v /\ n.threw = m.threw
    BY <2>1, <2>2 DEF Message
  <2> QED
    BY <1>1, <1>2, <1>5, <2>1, <2>2, <2>3, <2>4
<1>7. CASE \E k \in Nat, b \in Text :
             /\ k > 0 /\ k <= len
             /\ n = [m EXCEPT !.body = b, !.unparsed = From(u, k)]
  <2>1. PICK k \in Nat, b \in Text :
          /\ k > 0 /\ k <= len
          /\ n = [m EXCEPT !.body = b, !.unparsed = From(u, k)]
    BY <1>7
  <2>2. PICK v \in Text : v = From(u, k)
    BY <1>1, <2>1, TextParts
  <2>3. n \in Message
    BY <2>1, <2>2 DEF Message
  <2>4. n.unparsed = v /\ n.threw = m.threw
    BY <2>1, <2>2 DEF Message
  <2> QED
    BY <1>1, <1>2, <1>5, <2>1, <2>2, <2>3, <2>4
<1> QED
  BY <1>1, <1>3, <1>4, <1>6, <1>7, ChunkStepEffect DEF ChunkTurned

(* The loop ends, and keeps what a turn does.                              *)
LEMMA ChunksRun ==
  ASSUME NEW T \in SUBSET Message, \A m \in T : ChunkStep(m) \in T, NEW m \in T
  PROVE  Chunks[m] \in T /\ ChunkStep(Chunks[m]) = Chunks[m]
<1> DEFINE F == [x \in Message |-> ChunkStep(x)]
           size == [x \in Message |-> Remaining(x)]
<1>1. F \in [Message -> Message] /\ size \in [Message -> Nat]
  BY ChunkStepType
<1>2. \A x \in Message : F[x] # x => size[F[x]] < size[x]
  BY ChunkStepType
<1>3. \A x \in T : F[x] \in T
  OBVIOUS
<1>4. \A h : Loop(Message, F, h) <=>
        h = [x \in Message |-> IF ChunkStep(x) = x THEN x ELSE h[ChunkStep(x)]]
  <2>1. SUFFICES ASSUME NEW h
                 PROVE  [x \in Message |-> IF F[x] = x THEN x ELSE h[F[x]]]
                        = [x \in Message |-> IF ChunkStep(x) = x THEN x
                                             ELSE h[ChunkStep(x)]]
    BY DEF Loop
  <2>2. \A x \in Message : (IF F[x] = x THEN x ELSE h[F[x]])
                           = IF ChunkStep(x) = x THEN x ELSE h[ChunkStep(x)]
    OBVIOUS
  <2> QED
    BY <2>2
<1>5. \E h : Loop(Message, F, h)
  <2> HIDE DEF F
  <2> QED
    BY <1>1, LoopExists
<1>6. Chunks = [x \in Message |-> IF ChunkStep(x) = x THEN x ELSE Chunks[ChunkStep(x)]]
  <2>1. \E h : h = [x \in Message |-> IF ChunkStep(x) = x THEN x ELSE h[ChunkStep(x)]]
    BY <1>4, <1>5
  <2> QED
    BY <2>1 DEF Chunks
<1>7. Loop(Message, F, Chunks)
  BY <1>4, <1>6
<1>8. Chunks[m] \in T /\ F[Chunks[m]] = Chunks[m]
  <2> HIDE DEF F, size
  <2> QED
    BY <1>1, <1>2, <1>3, <1>7, LoopEnds
<1> QED
  BY <1>8

(* The size of a chunk, read from a text of which a part, u, is here.      *)
SizeRead(u, v, k, r) ==
  /\ Numeric(Upto(u, Find(u, CRLF))) /\ Value(Upto(u, Find(u, CRLF))) = k
  /\ \/ Find(u, CRLF) = -1 /\ Len(u) < 3
     \/ /\ Find(u, CRLF) = 1 /\ Len(u) >= 3
        /\ From(u, 3) \in Text /\ From(u, 3) \o v = r

(* A text that begins with the size of a chunk, of which u is here.        *)
LEMMA NextSize ==
  ASSUME NEW u \in Text, u # <<>>, NEW v \in Text, NEW k \in Nat, NEW r \in Text,
         u \o v = <<Num(k)>> \o (CRLF \o r)
  PROVE  SizeRead(u, v, k, r)
<1>1. PICK l \in Text : /\ l = <<Num(k)>> /\ Len(l) = 1 /\ l[1] = Num(k)
                        /\ l # <<>> /\ \A i \in 1..Len(l) : l[i] # CR
  <2>1. <<Num(k)>> # <<>>
    OBVIOUS
  <2> QED
    BY <2>1, NumberAlone
<1>2. PICK line, first : line = Find(u, CRLF) /\ first = Upto(u, line)
  OBVIOUS
<1>3. \/ line = -1 /\ Len(u) < 3
      \/ /\ line = 1 /\ Len(u) >= 3 /\ Upto(u, 1) = l
         /\ From(u, 3) \in Text /\ From(u, 3) \o v = r
  <2>1. LineFound(u, v, l, r)
    BY <1>1, NextLine DEF OneLine
  <2>2. Len(l) = 1 /\ Len(l) + 2 = 3
    BY <1>1
  <2> QED
    BY <1>2, <2>1, <2>2 DEF LineFound
<1>4. Numeric(first) /\ Value(first) = k
  <2>1. CASE line = -1
    <3>1. first = u
      BY <1>2, <2>1 DEF Upto
    <3>2. PICK x \in Text : x = CRLF \o r
      BY Symbols, TextJoin
    <3>3. Len(u) \in Nat \ {0}
      BY EmptySeq, LenProperties DEF Text
    <3>4. PICK one \in Nat : one = 1 /\ one \in 1..Len(u) /\ one \in 1..Len(l)
      BY <1>1, <3>3
    <3>5. (u \o v)[one] = u[one]
      BY <3>4, TextJoin
    <3>6. (l \o x)[one] = l[one]
      BY <3>4, TextJoin
    <3>7. u[1] = Num(k)
      BY <1>1, <3>2, <3>4, <3>5, <3>6
    <3> QED
      BY <3>1, <3>7, NumberFirst
  <2>2. CASE line # -1
    <3>1. first = l
      BY <1>2, <1>3, <2>2
    <3> QED
      BY <1>1, <3>1, NumberFirst
  <2> QED
    BY <2>1, <2>2
<1> QED
  BY <1>2, <1>3, <1>4 DEF SizeRead

(* A parser at the chunks: the parts P are still to come.                  *)
AtChunks(m, rest, H, whole) ==
  /\ m \in Message /\ ~m.threw /\ m.title_parsed
  /\ m.headers_parsed /\ ~m.body_parsed /\ m.headers = H
  /\ \E P \in Seq(Part) : /\ m.unparsed \o rest = ChunksText(P) \o LastChunk
                          /\ m.body \o FlattenSeq(P) = whole

Numberless(s) == \A i \in 1..Len(s) : s[i][1] # "num"

(* A parser that did not bear the end of a read in the last chunk.         *)
Torn(m, rest) == m \in Message /\ m.threw /\ Numberless(rest)

(* The last chunk is read in whole, or it is torn.                         *)
LEMMA LastChunkOn ==
  ASSUME NEW m \in Message, NEW rest \in Text, NEW H, NEW whole \in Text,
         ~m.threw, m.title_parsed, m.headers_parsed, ~m.body_parsed, m.headers = H,
         m.unparsed # <<>>, m.unparsed \o rest = LastChunk, m.body = whole
  PROVE  /\ ChunkStep(m).title = m.title
         /\ \/ Complete(ChunkStep(m), rest, H, whole)
            \/ Torn(ChunkStep(m), rest)
<1>1. PICK u \in Text, len \in Nat : u = m.unparsed /\ len = Len(u) /\ u # <<>>
  BY MessageFields
<1>2. PICK line, n : line = Find(u, CRLF) /\ n = ChunkStep(m)
  OBVIOUS
<1>3. PICK lc \in Text : /\ lc = LastChunk /\ Len(lc) = 5
                         /\ lc = <<Num(0)>> \o (CRLF \o CRLF)
                         /\ \A i \in 2..5 : lc[i][1] # "num"
  BY LastChunkParts DEF LastChunkText
<1>4. SizeRead(u, rest, 0, CRLF)
  <2>1. u \o rest = <<Num(0)>> \o (CRLF \o CRLF)
    BY <1>1, <1>3
  <2> QED
    BY <1>1, <2>1, Symbols, NextSize
<1>5. n = IF line + 4 > len THEN Threw(m)
          ELSE [m EXCEPT !.unparsed = From(u, line + 4), !.body_parsed = TRUE]
  BY <1>1, <1>2, <1>4 DEF ChunkStep, SizeRead
<1>6. PICK left \in Nat : left = Len(rest) /\ len + left = 5 /\ len > 0
  <2>1. Len(rest) \in Nat /\ len + Len(rest) = 5
    <3>1. Len(rest) \in Nat /\ Len(u \o rest) = Len(u) + Len(rest)
      BY TextJoin
    <3> QED
      BY <1>1, <1>3, <3>1
  <2>2. len # 0
    BY <1>1, EmptySeq DEF Text
  <2> QED
    BY <2>1, <2>2
<1>7. CASE line + 4 > len
  <2>1. n = Threw(m)
    BY <1>5, <1>7
  <2>2. n \in Message /\ n.threw /\ n.title = m.title
    BY <2>1 DEF Threw, Message
  <2>3. ASSUME NEW i \in 1..left
        PROVE  rest[i][1] # "num"
    <3>1. PICK j : j = len + i /\ j \in 2..5
      BY <1>6
    <3>2. (u \o rest)[len + i] = rest[i]
      <4>1. \A x \in 1..Len(rest) : (u \o rest)[Len(u) + x] = rest[x]
        BY TextJoin
      <4> QED
        BY <1>1, <1>6, <4>1
    <3>3. rest[i] = lc[j]
      BY <1>1, <1>3, <3>1, <3>2
    <3> QED
      BY <1>3, <3>1, <3>3
  <2>4. Torn(n, rest)
    BY <1>6, <2>2, <2>3 DEF Torn, Numberless
  <2> QED
    BY <1>2, <2>2, <2>4
<1>8. CASE ~(line + 4 > len)
  <2>1. (line = -1 /\ len < 3) \/ line = 1
    BY <1>1, <1>2, <1>4 DEF SizeRead
  <2>2. line + 4 = 5 /\ len = 5 /\ left = 0
    BY <1>6, <1>8, <2>1
  <2>3. rest = <<>>
    BY <1>6, <2>2, EmptySeq DEF Text
  <2>4. PICK five \in Nat : five = 5 /\ five <= Len(u)
    BY <1>1, <2>2
  <2>5. Len(From(u, five)) = Len(u) - five /\ From(u, five) \in Text
    BY <2>4, TextParts
  <2>6. From(u, 5) = <<>>
    <3>1. Len(From(u, five)) = 0
      BY <1>1, <2>2, <2>4, <2>5
    <3> QED
      BY <2>4, <2>5, <3>1, EmptySeq DEF Text
  <2>7. n = [m EXCEPT !.unparsed = <<>>, !.body_parsed = TRUE]
    BY <1>5, <1>8, <2>2, <2>6
  <2>8. n \in Message
    BY <2>7, Symbols DEF Message
  <2>9. Complete(n, rest, H, whole) /\ n.title = m.title
    BY <2>3, <2>7, <2>8 DEF Complete, is_complete, Message
  <2> QED
    BY <1>2, <2>9
<1> QED
  BY <1>7, <1>8

(* A chunk is read when all of it is here.                                 *)
ChunkRead(m, n, rest, p, z) ==
  \/ n = m
  \/ \E w \in Text : /\ w \o rest = z
                     /\ n = [m EXCEPT !.body = m.body \o p, !.unparsed = w]

(* A turn at a chunk that is not the last one reads it, or waits for it.   *)
LEMMA NextChunk ==
  ASSUME NEW m \in Message, NEW rest \in Text, NEW p \in Text, p # <<>>,
         NEW z \in Text, ~m.threw, ~m.body_parsed, m.unparsed # <<>>,
         m.unparsed \o rest = Chunk(p) \o z
  PROVE  ChunkRead(m, ChunkStep(m), rest, p, z)
<1>1. PICK u \in Text, len \in Nat : u = m.unparsed /\ len = Len(u) /\ u # <<>>
  BY MessageFields
<1>2. PICK line, temp, n :
        line = Find(u, CRLF) /\ temp = From(u, line + 2) /\ n = ChunkStep(m)
  OBVIOUS
<1>3. PICK k \in Nat : k = Len(p) /\ k # 0
  BY EmptySeq, LenProperties DEF Text
<1>4. PICK c \in Text : c = CRLF /\ Len(c) = 2
  BY Symbols
<1>5. PICK cz \in Text : cz = c \o z
  BY TextJoin
<1>6. PICK r \in Text : r = p \o cz
  BY TextJoin
<1>7. SizeRead(u, rest, k, r)
  <2>1. Chunk(p) \o z = <<Num(k)>> \o (CRLF \o r)
    <3>1. Chunk(p) \o z = <<Num(Len(p))>> \o (CRLF \o (p \o (CRLF \o z)))
      BY ChunkParts
    <3> QED
      BY <1>3, <1>4, <1>5, <1>6, <3>1
  <2> QED
    BY <1>1, <2>1, NextSize
<1>8. n = IF Len(temp) < k + 2 THEN m
          ELSE [m EXCEPT !.body = m.body \o Upto(temp, k),
                         !.unparsed = From(temp, k + 2)]
  BY <1>1, <1>2, <1>3, <1>7 DEF ChunkStep, SizeRead
<1>9. CASE Len(temp) < k + 2
  BY <1>2, <1>8, <1>9 DEF ChunkRead
<1>10. CASE ~(Len(temp) < k + 2)
  <2>1. line = 1
    <3>1. CASE line = -1 /\ len < 3
      <4>1. PICK one \in Nat : one = line + 2 /\ one = 1 /\ one <= Len(u)
        <5>1. len # 0
          BY <1>1, EmptySeq DEF Text
        <5> QED
          BY <1>1, <3>1, <5>1
      <4>2. Len(From(u, one)) = Len(u) - one
        BY <4>1, TextParts
      <4>3. Len(temp) = len - 1
        BY <1>1, <1>2, <4>1, <4>2
      <4> QED
        BY <1>3, <1>10, <3>1, <4>3
    <3>2. (line = -1 /\ len < 3) \/ line = 1
      BY <1>1, <1>2, <1>7 DEF SizeRead
    <3> QED
      BY <3>1, <3>2
  <2>2. temp \in Text /\ temp \o rest = r
    <3>1. line + 2 = 3 /\ line # -1
      BY <2>1
    <3> QED
      BY <1>2, <1>7, <3>1 DEF SizeRead
  <2>3. PICK pc \in Text : pc = p \o c /\ Len(pc) = k + 2
    <3>1. p \o c \in Text /\ Len(p \o c) = Len(p) + Len(c)
      BY TextJoin
    <3> QED
      BY <1>3, <1>4, <3>1
  <2>4. r = pc \o z
    <3>1. Between(p, c, z)
      BY <1>3, TextBetween
    <3> QED
      BY <1>5, <1>6, <2>3, <3>1 DEF Between
  <2>5. PICK l \in Nat : l = Len(temp) /\ k <= l /\ k + 2 <= l
    <3>1. Len(temp) \in Nat
      BY <2>2, LenProperties DEF Text
    <3> QED
      BY <1>10, <3>1
  <2>6. Upto(temp, k) = p
    <3>1. Divided(temp, rest, p, cz)
      BY <1>3, <1>6, <2>2, <2>5, SplitAt
    <3> QED
      BY <1>3, <3>1 DEF Divided
  <2>7. From(temp, k + 2) \in Text /\ From(temp, k + 2) \o rest = z
    <3>1. Divided(temp, rest, pc, z)
      BY <2>2, <2>3, <2>4, <2>5, SplitAt
    <3> QED
      BY <2>3, <3>1 DEF Divided
  <2>8. n = [m EXCEPT !.body = m.body \o p, !.unparsed = From(temp, k + 2)]
    BY <1>8, <1>10, <2>6
  <2> QED
    BY <1>2, <2>7, <2>8 DEF ChunkRead
<1> QED
  BY <1>9, <1>10

(* A turn leaves a parser at the chunks there, or ends them, or is torn.   *)
LEMMA ChunkStepOn ==
  ASSUME NEW m \in Message, NEW rest \in Text, NEW H, NEW whole \in Text,
         AtChunks(m, rest, H, whole)
  PROVE  /\ ChunkStep(m).title = m.title
         /\ \/ AtChunks(ChunkStep(m), rest, H, whole)
            \/ Complete(ChunkStep(m), rest, H, whole)
            \/ Torn(ChunkStep(m), rest)
<1>1. PICK u \in Text, b \in Text, P \in Seq(Part) :
        /\ u = m.unparsed /\ b = m.body
        /\ u \o rest = ChunksText(P) \o LastChunk
        /\ b \o FlattenSeq(P) = whole
  BY MessageFields DEF AtChunks
<1>2. /\ ~m.threw /\ m.title_parsed /\ m.headers_parsed /\ ~m.body_parsed
      /\ m.headers = H
  BY DEF AtChunks
<1>3. CASE ChunkStep(m) = m
  BY <1>3
<1>4. CASE ChunkStep(m) # m
  <2>1. u # <<>>
    BY <1>1, <1>4 DEF ChunkStep
  <2>2. PICK lc \in Text : lc = LastChunk
    BY LastChunkParts DEF LastChunkText
  <2>3. CASE P = <<>>
    <3>1. ChunksText(P) = <<>> /\ FlattenSeq(P) = <<>>
      BY <2>3, ChunksParts, Symbols DEF FlattenSeq
    <3>2. <<>> \o lc = lc /\ b \o <<>> = b
      BY ConcatEmptySeq DEF Text
    <3>3. u \o rest = LastChunk /\ b = whole
      BY <1>1, <2>2, <3>1, <3>2
    <3> QED
      BY <1>1, <1>2, <2>1, <3>3, LastChunkOn
  <2>4. CASE P # <<>>
    <3>1. PICK p \in Text, Q \in Seq(Part) :
            /\ p = Head(P) /\ Q = Tail(P) /\ p # <<>>
            /\ ChunksText(P) = Chunk(p) \o ChunksText(Q)
      BY <2>4, ChunksParts DEF Part
    <3>2. PICK ch \in Text, x \in Text : ch = Chunk(p) /\ x = ChunksText(Q)
      BY <3>1, Symbols, ChunkParts, ChunksParts
    <3>3. PICK z \in Text : z = x \o lc
      BY <2>2, TextJoin
    <3>4. u \o rest = Chunk(p) \o z
      <4>1. Between(ch, x, lc)
        BY TextBetween
      <4> QED
        BY <1>1, <2>2, <3>1, <3>2, <3>3, <4>1 DEF Between
    <3>5. PICK w \in Text :
            /\ w \o rest = z
            /\ ChunkStep(m) = [m EXCEPT !.body = m.body \o p, !.unparsed = w]
      <4>1. m.unparsed # <<>> /\ m.unparsed \o rest = Chunk(p) \o z
        BY <1>1, <2>1, <3>4
      <4>2. ChunkRead(m, ChunkStep(m), rest, p, z)
        BY <1>2, <3>1, <4>1, NextChunk
      <4> QED
        BY <1>4, <4>2 DEF ChunkRead
    <3>6. PICK d \in Text : d = b \o p
      BY <3>1, TextJoin
    <3>7. PICK n \in Message :
            /\ n = ChunkStep(m) /\ n.body = d /\ n.unparsed = w
            /\ n.title = m.title /\ n.headers = m.headers /\ ~n.threw
            /\ n.title_parsed /\ n.headers_parsed /\ ~n.body_parsed
      <4>1. ChunkStep(m) = [m EXCEPT !.body = d, !.unparsed = w]
        BY <1>1, <3>5, <3>6
      <4>2. ChunkStep(m) \in Message
        BY ChunkStepType
      <4> QED
        BY <1>2, <4>1, <4>2 DEF Message
    <3>8. d \o FlattenSeq(Q) = whole
      <4>1. P \in Seq(Text) /\ Q \in Seq(Text)
        BY DEF Part
      <4>2. PICK f \in Text : f = FlattenSeq(Q)
        BY <4>1, Flatten
      <4>3. FlattenSeq(P) = p \o f
        BY <2>4, <3>1, <4>1, <4>2, Flatten
      <4>4. Between(b, p, f)
        BY TextBetween
      <4> QED
        BY <1>1, <3>6, <4>2, <4>3, <4>4 DEF Between
    <3>9. AtChunks(n, rest, H, whole)
      BY <1>2, <2>2, <3>2, <3>3, <3>5, <3>7, <3>8 DEF AtChunks
    <3> QED
      BY <3>7, <3>9
  <2> QED
    BY <2>3, <2>4
<1> QED
  BY <1>3, <1>4

(* The loop leaves the parser at the chunks, or has read all, or is torn.  *)
LEMMA ChunksOn ==
  ASSUME NEW m \in Message, NEW rest \in Text, NEW H, NEW whole \in Text,
         AtChunks(m, rest, H, whole)
  PROVE  /\ Chunks[m] \in Message /\ Chunks[m].title = m.title
         /\ \/ AtChunks(Chunks[m], rest, H, whole)
            \/ Complete(Chunks[m], rest, H, whole)
            \/ Torn(Chunks[m], rest)
<1> DEFINE T == {x \in Message : /\ x.title = m.title
                                 /\ \/ AtChunks(x, rest, H, whole)
                                    \/ Complete(x, rest, H, whole)
                                    \/ Torn(x, rest)}
<1>1. ASSUME NEW x \in T
      PROVE  ChunkStep(x) \in T
  <2>1. CASE AtChunks(x, rest, H, whole)
    BY <2>1, ChunkStepOn, ChunkStepType
  <2>2. CASE Complete(x, rest, H, whole) \/ Torn(x, rest)
    <3>1. ChunkStep(x) = x
      BY <2>2 DEF Complete, Torn, is_complete, ChunkStep
    <3> QED
      BY <3>1
  <2> QED
    BY <2>1, <2>2
<1>2. m \in T
  OBVIOUS
<1>3. Chunks[m] \in T
  <2> HIDE DEF T
  <2>1. T \in SUBSET Message
    BY DEF T
  <2> QED
    BY <1>1, <1>2, <2>1, ChunksRun
<1> QED
  BY <1>3

-----------------------------------------------------------------------------
(* What AppendResponse makes of the next piece of a response.              *)

(* How the body, `whole`, is written into the text after the headers.      *)
InChunkForm(H, after, whole) ==
  /\ Named(H, "Transfer-Encoding") /\ ~Named(H, "Content-Length")
  /\ \E P \in Seq(Part) :
       after = ChunksText(P) \o LastChunk /\ whole = FlattenSeq(P)

AsItIs(H, after, whole) ==
  /\ after = whole
  /\ \/ Named(H, "Content-Length") /\ Measured(H, Len(whole))
     \/ /\ ~Named(H, "Content-Length") /\ ~Named(H, "Transfer-Encoding")
        /\ whole = <<>>

(* A parser that has the headers, and text of the body that it may not     *)
(* have looked at.                                                         *)
BodyReady(m, rest, H, after, whole) ==
  /\ m \in Message /\ ~m.threw /\ m.title_parsed
  /\ m.headers_parsed /\ ~m.body_parsed /\ m.headers = H
  /\ \/ AsItIs(H, after, whole) /\ (m.body \o m.unparsed) \o rest = whole
     \/ InChunkForm(H, after, whole) /\ AtChunks(m, rest, H, whole)

(* A response of which all but `rest` has been parsed, as far as it can be.*)
ResponseAt(m, rest, H, after, whole) ==
  \/ AtHeaders(m, rest, H, after)
  \/ AsItIs(H, after, whole) /\ InBody(m, rest, H, whole)
  \/ InChunkForm(H, after, whole) /\ AtChunks(m, rest, H, whole)
  \/ Complete(m, rest, H, whole)
  \/ Torn(m, rest)

(* The body of a response, from the first piece of it or from a later one. *)
LEMMA ResponseBodyOn ==
  ASSUME NEW m \in Message, NEW rest \in Text, NEW H, NEW after \in Text,
         NEW whole \in Text, BodyReady(m, rest, H, after, whole)
  PROVE  /\ ResponseBody[m].title = m.title
         /\ ResponseAt(ResponseBody[m], rest, H, after, whole)
<1>1. /\ ~m.threw /\ m.title_parsed /\ m.headers_parsed /\ ~m.body_parsed
      /\ m.headers = H
  BY DEF BodyReady
<1>2. /\ Has(m, "Content-Length") <=> Named(H, "Content-Length")
      /\ Has(m, "Transfer-Encoding") <=> Named(H, "Transfer-Encoding")
  BY <1>1 DEF Has, Named
<1>3. CASE AsItIs(H, after, whole) /\ (m.body \o m.unparsed) \o rest = whole
  <2>1. CASE Named(H, "Content-Length")
    <3>1. ResponseBody[m] = LengthBody(m)
      BY <1>1, <1>2, <2>1 DEF ResponseBody
    <3>2. Measured(H, Len(whole))
      BY <1>3, <2>1 DEF AsItIs
    <3>3. PICK n : n = LengthBody(m)
      OBVIOUS
    <3>4. n.title = m.title /\ (InBody(n, rest, H, whole) \/ Complete(n, rest, H, whole))
      BY <1>1, <1>3, <2>1, <3>2, <3>3, LengthBodyOn
    <3> QED
      BY <1>3, <3>1, <3>3, <3>4 DEF ResponseAt
  <2>2. CASE ~Named(H, "Content-Length")
    <3>1. ~Named(H, "Transfer-Encoding") /\ whole = <<>>
      BY <1>3, <2>2 DEF AsItIs
    <3>2. PICK n : n = [m EXCEPT !.body_parsed = TRUE]
      OBVIOUS
    <3>3. ResponseBody[m] = n
      BY <1>1, <1>2, <2>2, <3>1, <3>2 DEF ResponseBody
    <3>4. n.title = m.title /\ Complete(n, rest, H, whole)
      BY <1>1, <1>3, <3>1, <3>2, NoBodyOn
    <3> QED
      BY <3>3, <3>4 DEF ResponseAt
  <2> QED
    BY <2>1, <2>2
<1>4. CASE InChunkForm(H, after, whole) /\ AtChunks(m, rest, H, whole)
  <2>1. ResponseBody[m] = Chunks[m]
    BY <1>1, <1>2, <1>4 DEF ResponseBody, InChunkForm
  <2>2. PICK n : n = Chunks[m]
    OBVIOUS
  <2>3. /\ n.title = m.title
        /\ \/ AtChunks(n, rest, H, whole) \/ Complete(n, rest, H, whole)
           \/ Torn(n, rest)
    BY <1>4, <2>2, ChunksOn
  <2> QED
    BY <1>4, <2>1, <2>2, <2>3 DEF ResponseAt
<1> QED
  BY <1>3, <1>4 DEF BodyReady

(* A response from its header lines on.                                    *)
LEMMA AfterResponseTitle ==
  ASSUME NEW m \in Message, NEW rest \in Text, NEW H, NEW after \in Text,
         NEW whole \in Text,
         AsItIs(H, after, whole) \/ InChunkForm(H, after, whole),
         AtHeaders(m, rest, H, after)
  PROVE  /\ ResponseBody[Headers[m]].title = m.title
         /\ ResponseAt(ResponseBody[Headers[m]], rest, H, after, whole)
<1>1. PICK h \in Message :
        /\ h = Headers[m] /\ h.title = m.title
        /\ AtHeaders(h, rest, H, after) \/ AtBody(h, rest, H, after)
  BY HeadersOn
<1>2. CASE AtHeaders(h, rest, H, after)
  <2>1. ResponseBody[h] = h
    BY <1>2 DEF ResponseBody, AtHeaders
  <2> QED
    BY <1>1, <1>2, <2>1 DEF ResponseAt
<1>3. CASE AtBody(h, rest, H, after)
  <2>1. /\ h.body = <<>> /\ h.unparsed \in Text /\ h.unparsed \o rest = after
        /\ ~h.threw /\ h.title_parsed /\ h.headers_parsed /\ ~h.body_parsed
        /\ h.headers = H
    BY <1>3, MessageFields DEF AtBody
  <2>2. ASSUME AsItIs(H, after, whole)
        PROVE  BodyReady(h, rest, H, after, whole)
    <3>1. h.body \o h.unparsed = h.unparsed
      BY <2>1, ConcatEmptySeq DEF Text
    <3> QED
      BY <2>1, <2>2, <3>1 DEF BodyReady, AsItIs
  <2>3. ASSUME InChunkForm(H, after, whole)
        PROVE  BodyReady(h, rest, H, after, whole)
    <3>1. PICK P \in Seq(Part) :
            after = ChunksText(P) \o LastChunk /\ whole = FlattenSeq(P)
      BY <2>3 DEF InChunkForm
    <3>2. <<>> \o whole = whole
      BY ConcatEmptySeq DEF Text
    <3>3. AtChunks(h, rest, H, whole)
      BY <2>1, <3>1, <3>2 DEF AtChunks
    <3> QED
      BY <2>1, <2>3, <3>3 DEF BodyReady
  <2>4. BodyReady(h, rest, H, after, whole)
    BY <2>2, <2>3
  <2>5. /\ ResponseBody[h].title = h.title
        /\ ResponseAt(ResponseBody[h], rest, H, after, whole)
    BY <2>4, ResponseBodyOn
  <2> QED
    BY <1>1, <2>5
<1> QED
  BY <1>1, <1>2, <1>3

(* The next piece of a response whose first line has been read.            *)
LEMMA AppendResponseOn ==
  ASSUME NEW m \in Message, NEW data \in Text, NEW rest \in Text,
         NEW H, NEW after \in Text, NEW whole \in Text,
         AsItIs(H, after, whole) \/ InChunkForm(H, after, whole),
         \/ AtHeaders(m, data \o rest, H, after)
         \/ AsItIs(H, after, whole) /\ InBody(m, data \o rest, H, whole)
         \/ InChunkForm(H, after, whole) /\ AtChunks(m, data \o rest, H, whole)
  PROVE  /\ AppendResponse(m, data).title = m.title
         /\ ResponseAt(AppendResponse(m, data), rest, H, after, whole)
<1> DEFINE Good(n) == n.title = m.title /\ ResponseAt(n, rest, H, after, whole)
<1> SUFFICES Good(AppendResponse(m, data))
  OBVIOUS
<1>1. PICK u \in Text : u = m.unparsed
  BY MessageFields
<1>2. PICK v \in Text : v = u \o data
  BY TextJoin
<1>3. PICK a \in Message : /\ a = [m EXCEPT !.unparsed = v]
                           /\ a.unparsed = v /\ a.title = m.title
                           /\ a.body = m.body /\ a.headers = m.headers
                           /\ a.threw = m.threw /\ a.title_parsed = m.title_parsed
                           /\ a.headers_parsed = m.headers_parsed
                           /\ a.body_parsed = m.body_parsed
  <2>1. [m EXCEPT !.unparsed = v] \in Message
    BY DEF Message
  <2> QED
    BY <2>1 DEF Message
<1>4. a.title_parsed
  BY <1>3 DEF AtHeaders, InBody, AtChunks
<1>5. AppendResponse(m, data) = ResponseBody[Headers[a]]
  <2>1. ResponseTitle[a] = a
    BY <1>4 DEF ResponseTitle
  <2> QED
    BY <1>1, <1>2, <1>3, <2>1 DEF AppendResponse
<1>6. v \o rest = u \o (data \o rest)
  BY <1>2, JoinAssociative, SMTT(30)
<1>7. CASE AtHeaders(m, data \o rest, H, after)
  <2>1. AtHeaders(a, rest, H, after)
    BY <1>1, <1>3, <1>6, <1>7 DEF AtHeaders
  <2>2. Good(ResponseBody[Headers[a]])
    BY <1>3, <2>1, AfterResponseTitle
  <2> QED
    BY <1>5, <2>2
<1>8. ASSUME a.headers_parsed, BodyReady(a, rest, H, after, whole)
      PROVE  Good(AppendResponse(m, data))
  <2>1. Headers[a] = a
    <3>1. HeaderTurn(a) = a
      BY <1>8 DEF HeaderTurn, HeaderStep
    <3>2. {a} \in SUBSET Message /\ \A x \in {a} : HeaderTurn(x) \in {a}
      BY <3>1
    <3> QED
      BY <3>2, HeadersRun
  <2>2. /\ ResponseBody[a].title = a.title
        /\ ResponseAt(ResponseBody[a], rest, H, after, whole)
    BY <1>8, ResponseBodyOn
  <2> QED
    BY <1>3, <1>5, <2>1, <2>2
<1>9. CASE AsItIs(H, after, whole) /\ InBody(m, data \o rest, H, whole)
  <2>1. u = <<>> /\ v = data
    BY <1>1, <1>2, <1>9, ConcatEmptySeq DEF InBody, Text
  <2>2. PICK b \in Text : b = m.body
    BY MessageFields
  <2>3. Between(b, data, rest)
    BY TextBetween
  <2>4. (a.body \o a.unparsed) \o rest = whole
    BY <1>3, <1>9, <2>1, <2>2, <2>3 DEF InBody, Between
  <2>5. /\ ~a.threw /\ a.title_parsed /\ a.headers_parsed /\ ~a.body_parsed
        /\ a.headers = H
    BY <1>3, <1>9 DEF InBody
  <2>6. BodyReady(a, rest, H, after, whole)
    BY <1>9, <2>4, <2>5 DEF BodyReady
  <2> QED
    BY <1>8, <2>5, <2>6
<1>10. CASE InChunkForm(H, after, whole) /\ AtChunks(m, data \o rest, H, whole)
  <2>1. PICK P \in Seq(Part) : /\ u \o (data \o rest) = ChunksText(P) \o LastChunk
                               /\ m.body \o FlattenSeq(P) = whole
    BY <1>1, <1>10 DEF AtChunks
  <2>2. /\ ~a.threw /\ a.title_parsed /\ a.headers_parsed /\ ~a.body_parsed
        /\ a.headers = H
    BY <1>3, <1>10 DEF AtChunks
  <2>3. AtChunks(a, rest, H, whole)
    BY <1>3, <1>6, <2>1, <2>2 DEF AtChunks
  <2>4. BodyReady(a, rest, H, after, whole)
    BY <1>10, <2>2, <2>3 DEF BodyReady
  <2> QED
    BY <1>8, <2>2, <2>4
<1> QED
  BY <1>7, <1>9, <1>10

(* A new parser with its first piece of text.                              *)
LEMMA NewMessageWith ==
  ASSUME NEW data \in Text
  PROVE  \E m \in Message :
           /\ m = [NewMessage EXCEPT !.unparsed = NewMessage.unparsed \o data]
           /\ m.unparsed = data /\ m.headers = {} /\ m.body = <<>> /\ ~m.threw
           /\ ~m.title_parsed /\ ~m.headers_parsed /\ ~m.body_parsed
<1>1. <<>> \in Text /\ {} \in SUBSET Text /\ <<>> \in RequestTitles
  BY Symbols DEF RequestTitles
<1>2. NewMessage \in Message
  BY <1>1 DEF NewMessage, Message
<1>3. [NewMessage EXCEPT !.unparsed = data] \in Message
  BY <1>2 DEF Message
<1>4. NewMessage.unparsed \o data = data
  BY ConcatEmptySeq DEF Text, NewMessage
<1> QED
  BY <1>3, <1>4 DEF NewMessage

(* The first piece of a response, which goes beyond the first line.        *)
ResponseForm(s, v, code, reason, hs, after, whole, t, r2, r1) ==
  /\ \A i \in 1..Len(reason) : reason[i] # CR
  /\ t = Lines(hs) \o (CRLF \o after)
  /\ r2 = reason \o (CRLF \o t)
  /\ r1 = <<Num(code)>> \o (<<SP>> \o r2)
  /\ s = v \o (<<SP>> \o r1)
  /\ AsItIs(ToSet(hs), after, whole) \/ InChunkForm(ToSet(hs), after, whole)

Beyond(data, v, reason) == Len(data) >= Len(v) + 3 + Len(reason) + 2

(* It is parsed as far as it goes.                                         *)
LEMMA FirstOfResponse ==
  ASSUME NEW data \in Text, NEW rest \in Text, NEW v \in Word, NEW code \in Nat,
         NEW reason \in Text, NEW hs \in Seq(Line), NEW after \in Text,
         NEW whole \in Text, NEW t \in Text, NEW r2 \in Text, NEW r1 \in Text,
         ResponseForm(data \o rest, v, code, reason, hs, after, whole, t, r2, r1),
         Beyond(data, v, reason)
  PROVE  /\ AppendResponse(NewMessage, data).title = <<code, reason>>
         /\ ResponseAt(AppendResponse(NewMessage, data), rest, ToSet(hs), after, whole)
<1>1. /\ \A i \in 1..Len(reason) : reason[i] # CR
      /\ t = Lines(hs) \o (CRLF \o after)
      /\ r2 = reason \o (CRLF \o t)
      /\ r1 = <<Num(code)>> \o (<<SP>> \o r2)
      /\ data \o rest = v \o (<<SP>> \o r1)
      /\ AsItIs(ToSet(hs), after, whole) \/ InChunkForm(ToSet(hs), after, whole)
  BY DEF ResponseForm
<1>2. PICK m \in Message :
        /\ m = [NewMessage EXCEPT !.unparsed = NewMessage.unparsed \o data]
        /\ m.unparsed = data /\ m.headers = {} /\ m.body = <<>> /\ ~m.threw
        /\ ~m.title_parsed /\ ~m.headers_parsed /\ ~m.body_parsed
  BY NewMessageWith
<1>3. PICK n : n = ResponseTitle[m]
  OBVIOUS
<1>4. AppendResponse(NewMessage, data) = ResponseBody[Headers[n]]
  BY <1>2, <1>3 DEF AppendResponse
<1>5. PICK w \in Text :
        /\ w \o rest = t
        /\ n = [m EXCEPT !.title = <<code, reason>>, !.unparsed = w,
                         !.title_parsed = TRUE]
  <2>1. /\ m.unparsed \o rest = v \o (<<SP>> \o r1)
        /\ Len(m.unparsed) >= Len(v) + 3 + Len(reason) + 2
    BY <1>1, <1>2 DEF Beyond
  <2>2. StatusRead(m, ResponseTitle[m], rest, code, reason, t)
    BY <1>1, <1>2, <2>1, ResponseTitleOn
  <2> QED
    BY <1>3, <2>2 DEF StatusRead
<1>6. PICK title \in RequestTitles \cup ResponseTitles : title = <<code, reason>>
  BY DEF ResponseTitles
<1>7. /\ n \in Message /\ n.title = title /\ n.unparsed = w
      /\ n.headers = {} /\ n.body = <<>> /\ ~n.threw
      /\ n.title_parsed /\ ~n.headers_parsed /\ ~n.body_parsed
  BY <1>2, <1>5, <1>6 DEF Message
<1>8. AtHeaders(n, rest, ToSet(hs), after)
  BY <1>1, <1>5, <1>7 DEF AtHeaders
<1>9. PICK H : H = ToSet(hs)
  OBVIOUS
<1>10. /\ ResponseBody[Headers[n]].title = n.title
      /\ ResponseAt(ResponseBody[Headers[n]], rest, H, after, whole)
  BY <1>1, <1>7, <1>8, <1>9, AfterResponseTitle
<1> QED
  BY <1>4, <1>6, <1>7, <1>9, <1>10

(* What is left of a torn last chunk is no response either.                *)
LEMMA NumberlessResponse ==
  ASSUME NEW data \in Text, Numberless(data)
  PROVE  AppendResponse(NewMessage, data).threw
<1>1. PICK m \in Message :
        /\ m = [NewMessage EXCEPT !.unparsed = NewMessage.unparsed \o data]
        /\ m.unparsed = data /\ m.headers = {} /\ m.body = <<>> /\ ~m.threw
        /\ ~m.title_parsed /\ ~m.headers_parsed /\ ~m.body_parsed
  BY NewMessageWith
<1>2. PICK n : n = ResponseTitle[m]
  OBVIOUS
<1>3. AppendResponse(NewMessage, data) = ResponseBody[Headers[n]]
  BY <1>1, <1>2 DEF AppendResponse
<1>4. n = Threw(m)
  BY <1>1, <1>2, NoResponse DEF Numberless
<1>5. n \in Message /\ n.threw /\ ~n.headers_parsed
  BY <1>1, <1>4 DEF Threw, Message
<1>6. Headers[n] = n
  <2>1. HeaderTurn(n) = n
    BY <1>5 DEF HeaderTurn
  <2>2. {n} \in SUBSET Message /\ \A x \in {n} : HeaderTurn(x) \in {n}
    BY <1>5, <2>1
  <2> QED
    BY <2>2, HeadersRun
<1>7. ResponseBody[n] = n
  BY <1>5 DEF ResponseBody
<1> QED
  BY <1>3, <1>5, <1>6, <1>7

-----------------------------------------------------------------------------
(* What EncodeChunks writes.                                               *)

Piece(body, i) == SubSeq(body, ChunkSize * (i - 1) + 1, ChunkSize * i)
Pieces(body, n) == [i \in 1..n |-> Piece(body, i)]

(* One piece of ChunkSize, and the next.                                   *)
LEMMA PieceOf ==
  ASSUME NEW body \in Text, NEW n \in Nat, ChunkSize * (n + 1) <= Len(body)
  PROVE  /\ Piece(body, n + 1) \in Part
         /\ ChunkSize * n \in Nat /\ ChunkSize * n <= Len(body)
         /\ Upto(body, ChunkSize * n) \o Piece(body, n + 1)
              = Upto(body, ChunkSize * (n + 1))
<1>1. PICK c \in Nat : c = ChunkSize /\ c > 0
  BY ChunkSizeAssumption
<1>2. PICK a \in Nat, b \in Nat, len \in Nat :
        a = c * n /\ b = c * (n + 1) /\ len = Len(body) /\ b = a + c /\ b <= len
  <2>1. Len(body) \in Nat
    BY LenProperties DEF Text
  <2>2. c * n \in Nat /\ c * (n + 1) = c * n + c
    OBVIOUS
  <2>3. c * (n + 1) <= Len(body)
    BY <1>1
  <2>4. PICK a, b, len : a = c * n /\ b = c * (n + 1) /\ len = Len(body)
    OBVIOUS
  <2>5. a \in Nat /\ b = a + c
    BY <2>2, <2>4
  <2>6. len \in Nat /\ b <= len
    BY <2>1, <2>3, <2>4
  <2>7. b \in Nat
    BY <2>5
  <2> QED
    BY <2>4, <2>5, <2>6, <2>7
<1>3. PICK first : first = a + 1 /\ first \in Nat /\ first <= b
  BY <1>1, <1>2
<1>4. Piece(body, n + 1) = SubSeq(body, first, b)
  <2>1. (n + 1) - 1 = n
    OBVIOUS
  <2> QED
    BY <1>1, <1>2, <1>3, <2>1 DEF Piece
<1>5. SubSeq(body, first, b) \in Text /\ Len(SubSeq(body, first, b)) = c
  <2>1. \A i \in first..b : body[i] \in Symbol
    <3>1. \A i \in first..b : i \in 1..Len(body)
      BY <1>2, <1>3
    <3> QED
      BY <3>1, ElementOfSeq DEF Text
  <2>2. /\ SubSeq(body, first, b) \in Seq(Symbol)
        /\ Len(SubSeq(body, first, b)) = IF first <= b THEN b - first + 1 ELSE 0
    BY <1>3, <2>1, SubSeqProperties
  <2> QED
    BY <1>2, <1>3, <2>2 DEF Text
<1>6. SubSeq(body, first, b) # <<>>
  <2>1. PICK x \in Text : x = SubSeq(body, first, b) /\ Len(x) = c
    BY <1>5
  <2>2. x # <<>>
    BY <1>1, <2>1, EmptySeq DEF Text
  <2> QED
    BY <2>1, <2>2
<1>7. SubSeq(body, 1, a) \o SubSeq(body, first, b) = SubSeq(body, 1, b)
  <2>1. 1 \in 1..(Len(body) + 1) /\ a \in (1 - 1)..Len(body) /\ b \in a..Len(body)
    BY <1>1, <1>2
  <2>2. SubSeq(body, 1, a) \o SubSeq(body, a + 1, b) = SubSeq(body, 1, b)
    BY <2>1, ConcatAdjacentSubSeq DEF Text
  <2> QED
    BY <1>3, <2>2
<1>8. Upto(body, a) = SubSeq(body, 1, a) /\ Upto(body, b) = SubSeq(body, 1, b)
  BY DEF Upto
<1>9. ChunkSize * n = a /\ ChunkSize * (n + 1) = b
  BY <1>1, <1>2
<1>10. Piece(body, n + 1) \in Part
  BY <1>4, <1>5, <1>6 DEF Part
<1>11. Upto(body, a) \o Piece(body, n + 1) = Upto(body, b)
  BY <1>4, <1>7, <1>8
<1>12. a \in Nat /\ a <= Len(body)
  BY <1>1, <1>2
<1> QED
  BY <1>9, <1>10, <1>11, <1>12

(* Some pieces of ChunkSize are the beginning of the body.                 *)
LEMMA PiecesOf ==
  ASSUME NEW body \in Text, NEW k \in Nat, ChunkSize * k <= Len(body)
  PROVE  /\ Pieces(body, k) \in Seq(Part)
         /\ FlattenSeq(Pieces(body, k)) = Upto(body, ChunkSize * k)
<1> DEFINE Good(n) ==
      ChunkSize * n <= Len(body)
        => /\ Pieces(body, n) \in Seq(Part)
           /\ FlattenSeq(Pieces(body, n)) = Upto(body, ChunkSize * n)
<1>1. Good(0)
  <2>1. ChunkSize * 0 = 0
    BY ChunkSizeAssumption
  <2>2. Pieces(body, 0) = <<>>
    BY DEF Pieces
  <2>3. FlattenSeq(<<>>) = <<>>
    BY Symbols DEF FlattenSeq
  <2>4. Upto(body, 0) = <<>>
    <3>1. PICK zero \in Nat : zero = 0 /\ zero <= Len(body)
      BY LenProperties DEF Text
    <3>2. Upto(body, zero) \in Text /\ Len(Upto(body, zero)) = zero
      BY <3>1, TextParts
    <3> QED
      BY <3>1, <3>2, EmptySeq DEF Text
  <2>5. <<>> \in Seq(Part)
    OBVIOUS
  <2> QED
    BY <2>1, <2>2, <2>3, <2>4, <2>5
<1>2. ASSUME NEW n \in Nat, Good(n)
      PROVE  Good(n + 1)
  <2>1. SUFFICES ASSUME ChunkSize * (n + 1) <= Len(body)
                 PROVE  /\ Pieces(body, n + 1) \in Seq(Part)
                        /\ FlattenSeq(Pieces(body, n + 1))
                             = Upto(body, ChunkSize * (n + 1))
    OBVIOUS
  <2>2. PICK p \in Part : /\ p = Piece(body, n + 1)
                          /\ ChunkSize * n \in Nat /\ ChunkSize * n <= Len(body)
                          /\ Upto(body, ChunkSize * n) \o p
                               = Upto(body, ChunkSize * (n + 1))
    BY <2>1, PieceOf
  <2>3. PICK P \in Seq(Part) : /\ P = Pieces(body, n)
                               /\ FlattenSeq(P) = Upto(body, ChunkSize * n)
    BY <1>2, <2>2
  <2>4. Pieces(body, n + 1) = Append(P, p)
    <3>1. PICK m \in Nat : m = n + 1
      OBVIOUS
    <3>2. Len(P) = n /\ P = [i \in 1..n |-> Piece(body, i)]
      BY <2>3 DEF Pieces
    <3>3. PICK Q \in Seq(Part) : Q = Append(P, p)
      BY AppendProperties
    <3>4. Len(Q) = m /\ \A i \in 1..m : Q[i] = IF i = m THEN p ELSE P[i]
      BY <3>1, <3>2, <3>3, AppendProperties
    <3>5. \A i \in 1..m : Q[i] = Piece(body, i)
      <4>1. \A i \in 1..m : i # m => i \in 1..n
        BY <3>1
      <4> QED
        BY <2>2, <3>1, <3>2, <3>4, <4>1
    <3>6. Q = [i \in 1..m |-> Q[i]]
      BY <3>4
    <3> QED
      BY <3>1, <3>3, <3>5, <3>6 DEF Pieces
  <2>5. FlattenSeq(Append(P, p)) = FlattenSeq(P) \o p
    <3>1. P \in Seq(Text) /\ p \in Text
      BY DEF Part
    <3> QED
      BY <3>1, FlattenAppend
  <2>6. Append(P, p) \in Seq(Part)
    BY AppendProperties
  <2> QED
    BY <2>2, <2>3, <2>4, <2>5, <2>6
<1>3. \A n \in Nat : Good(n)
  <2> DEFINE T == {n \in Nat : Good(n)}
  <2> HIDE DEF Good
  <2>1. 0 \in T /\ \A n \in T : n + 1 \in T
    BY <1>1, <1>2
  <2>2. T = Nat
    <3> HIDE DEF T
    <3>1. T \in SUBSET Nat
      BY DEF T
    <3> QED
      BY <2>1, <3>1, Induction
  <2> QED
    BY <2>2
<1>4. Good(k)
  <2> HIDE DEF Good
  <2> QED
    BY <1>3
<1> QED
  BY <1>4

(* One more chunk.                                                         *)
LEMMA ChunksAppend ==
  ASSUME NEW P \in Seq(Part), NEW p \in Part
  PROVE  ChunksText(Append(P, p)) = ChunksText(P) \o Chunk(p)
<1>1. ChunkText \in [Part -> Text] /\ ChunkText[p] = Chunk(p)
  <2>1. ASSUME NEW x \in Part
        PROVE  Chunk(x) \in Text
    BY Symbols, ChunkParts DEF Part
  <2> QED
    BY <2>1 DEF ChunkText
<1>2. PICK n \in Nat : n = Len(P)
  BY LenProperties
<1>3. PICK Q \in Seq(Part) :
        /\ n = Len(P) /\ Q = Append(P, p) /\ Len(Q) = n + 1
        /\ \A i \in 1..n : Q[i] = P[i]
        /\ Q[n + 1] = p
  BY <1>2, AppendProperties
<1>4. PICK M \in Seq(Text) : /\ M = Mapped(P, ChunkText) /\ Len(M) = n
                             /\ \A i \in 1..n : M[i] = ChunkText[P[i]]
  BY <1>1, <1>3, MappedType
<1>5. PICK t \in Text : t = Chunk(p)
  BY <1>1
<1>6. PICK m \in Nat : m = n + 1
  OBVIOUS
<1>7. PICK A \in Seq(Text) : /\ A = Append(M, t) /\ Len(A) = m
                             /\ \A i \in 1..n : A[i] = M[i]
                             /\ A[m] = t
  <2>1. /\ Append(M, t) \in Seq(Text) /\ Len(Append(M, t)) = Len(M) + 1
        /\ \A i \in 1..Len(M) : Append(M, t)[i] = M[i]
        /\ Append(M, t)[Len(M) + 1] = t
    BY AppendProperties
  <2> QED
    BY <1>4, <1>6, <2>1
<1>8. ASSUME NEW i \in 1..m
      PROVE  A[i] = ChunkText[Q[i]]
  <2>1. CASE i = m
    BY <1>1, <1>3, <1>5, <1>6, <1>7, <2>1
  <2>2. CASE i # m
    <3>1. i \in 1..n
      BY <1>6, <2>2
    <3> QED
      BY <1>3, <1>4, <1>7, <3>1
  <2> QED
    BY <2>1, <2>2
<1>9. Mapped(Q, ChunkText) = A
  <2>1. A = [i \in 1..m |-> A[i]]
    <3>1. A = [i \in 1..Len(A) |-> A[i]]
      OBVIOUS
    <3> QED
      BY <1>7, <3>1
  <2>2. Len(Q) = m
    BY <1>3, <1>6
  <2> QED
    BY <1>8, <2>1, <2>2 DEF Mapped
<1>10. FlattenSeq(A) = FlattenSeq(M) \o t
  BY <1>7, FlattenAppend
<1> QED
  BY <1>3, <1>4, <1>5, <1>9, <1>10 DEF ChunksText

(* An empty chunk is a last one.                                           *)
LEMMA EmptyChunk == Chunk(<<>>) = LastChunk
<1>1. PICK n \in Text, c \in Text : n = <<Num(0)>> /\ c = CRLF
  BY Symbols, NumberAlone
<1>2. Chunk(<<>>) = ((n \o c) \o <<>>) \o c
  BY <1>1, Symbols DEF Chunk
<1>3. (n \o c) \o <<>> = n \o c
  BY TextJoin, ConcatEmptySeq DEF Text
<1> QED
  BY <1>1, <1>2, <1>3 DEF LastChunk

(* What EncodeChunks writes is the chunks of some parts of the body and a  *)
(* last chunk.  Where nothing is left for the chunk before it, that is a   *)
(* last chunk, too, and another one comes after it.                        *)
LEMMA EncodeChunksText ==
  ASSUME NEW body \in Text
  PROVE  \E P \in Seq(Part), j \in Text :
           /\ EncodeChunks(body) = ChunksText(P) \o (LastChunk \o j)
           /\ FlattenSeq(P) = body
<1>1. PICK full \in Nat, a \in Nat :
        full = Len(body) \div ChunkSize /\ a = ChunkSize * full /\ a <= Len(body)
  <2>1. PICK c \in Nat \ {0}, n \in Nat : c = ChunkSize /\ n = Len(body)
    BY ChunkSizeAssumption, LenProperties DEF Text
  <2>2. n \div c \in Nat /\ c * (n \div c) <= n
    OBVIOUS
  <2>3. PICK full \in Nat : full = n \div c
    BY <2>2
  <2>4. c * full \in Nat /\ c * full <= n
    BY <2>2, <2>3
  <2> QED
    BY <2>1, <2>3, <2>4
<1>2. PICK P \in Seq(Part) : /\ P = Pieces(body, full)
                             /\ FlattenSeq(P) = Upto(body, a)
  BY <1>1, PiecesOf
<1>3. PICK left \in Text : left = From(body, a) /\ Upto(body, a) \o left = body
  BY <1>1, TextParts
<1>4. PICK x \in Text : x = ChunksText(P)
  BY ChunksParts
<1>5. PICK lc \in Text : lc = LastChunk
  BY LastChunkParts DEF LastChunkText
<1>6. PICK ch \in Text : ch = Chunk(left)
  BY Symbols, ChunkParts
<1>7. EncodeChunks(body) = (x \o ch) \o lc
  <2>1. FlattenSeq([i \in 1..full |->
                      Chunk(SubSeq(body, ChunkSize * (i - 1) + 1, ChunkSize * i))])
        = ChunksText(P)
    <3>1. Len(P) = full /\ \A i \in 1..full : P[i] = Piece(body, i)
      BY <1>2 DEF Pieces
    <3>2. \A i \in 1..full : P[i] \in Part
      BY <3>1, ElementOfSeq
    <3>3. \A i \in 1..full : ChunkText[P[i]] = Chunk(Piece(body, i))
      BY <3>1, <3>2 DEF ChunkText
    <3>4. Mapped(P, ChunkText) = [i \in 1..full |-> Chunk(Piece(body, i))]
      BY <3>1, <3>3 DEF Mapped
    <3> QED
      BY <3>4 DEF ChunksText, Piece
  <2>2. SubSeq(body, ChunkSize * full + 1, Len(body)) = left
    BY <1>1, <1>3 DEF From
  <2> QED
    BY <1>1, <1>4, <1>5, <1>6, <2>1, <2>2 DEF EncodeChunks
<1>8. CASE left = <<>>
  <2>1. ch = lc
    BY <1>5, <1>6, <1>8, EmptyChunk
  <2>2. FlattenSeq(P) = body
    <3>1. Upto(body, a) \in Text
      BY <1>1, TextParts
    <3>2. Upto(body, a) \o <<>> = Upto(body, a)
      BY <3>1, ConcatEmptySeq DEF Text
    <3> QED
      BY <1>2, <1>3, <1>8, <3>2
  <2>3. EncodeChunks(body) = x \o (lc \o lc)
    BY <1>7, <2>1, JoinAssociative, ZenonT(30)
  <2> QED
    BY <1>4, <1>5, <2>2, <2>3
<1>9. CASE left # <<>>
  <2>1. left \in Part
    BY <1>9 DEF Part
  <2>2. PICK Q \in Seq(Part) : Q = Append(P, left)
    BY <2>1, AppendProperties
  <2>3. ChunksText(Q) = x \o ch
    BY <1>4, <1>6, <2>1, <2>2, ChunksAppend
  <2>4. FlattenSeq(Q) = body
    <3>1. P \in Seq(Text)
      BY DEF Part
    <3>2. FlattenSeq(Append(P, left)) = FlattenSeq(P) \o left
      BY <3>1, FlattenAppend
    <3> QED
      BY <1>2, <1>3, <2>2, <3>2
  <2>5. lc \o <<>> = lc
    BY ConcatEmptySeq DEF Text
  <2>6. EncodeChunks(body) = ChunksText(Q) \o (LastChunk \o <<>>)
    BY <1>5, <1>7, <2>3, <2>5
  <2> QED
    BY <2>4, <2>6, Symbols
<1> QED
  BY <1>8, <1>9
=============================================================================
