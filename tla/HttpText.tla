------------------------------ MODULE HttpText ------------------------------
(***************************************************************************)
(* The text that the parsers take apart, and the std::string operations    *)
(* they do it with.  A text is a sequence of symbols, a symbol a pair      *)
(* <<what, value>>.  A read may end between any two symbols, so whatever   *)
(* the parsers treat differently when it is cut is several symbols: a line *)
(* end is two, a title is its words and spaces, a body its bytes.  A       *)
(* header line without its line end is one symbol: a cut inside it has the *)
(* same effect as one beside it.  So is a number, without leading zeros:   *)
(* of a chunk's size, a cut inside leaves another size, other than 0, for  *)
(* a chunk that is not here yet.  Not modelled are reads that end in a     *)
(* status line, and those that end in a size with zeros before it, which   *)
(* is then taken for 0 or for another size.                                *)
(***************************************************************************)
EXTENDS Integers, SequencesExt

SP   == <<"sp", 0>>
CR   == <<"cr", 0>>
LF   == <<"lf", 0>>
CRLF == <<CR, LF>>

Num(n)  == <<"num", n>>   \* the digits of a status code or of a chunk's size
Byte(n) == <<"byte", n>>  \* a byte of a body, or a letter

Host(h)          == <<"Host", h>>
ContentLength(n) == <<"Content-Length", n>>
Chunked          == <<"Transfer-Encoding", 0>>  \* Transfer-Encoding: chunked

Symbol == {"sp", "cr", "lf", "num", "byte",
           "Host", "Content-Length", "Transfer-Encoding"} \X Nat
Text   == Seq(Symbol)

(* What may stand in a title, and in a line of its own.                    *)
Word == Seq({"byte"} \X Nat) \ {<<>>}
Line == {l \in Text : l # <<>> /\ \A i \in 1..Len(l) : l[i] # CR}

(* s.find(t), where npos is -1: the code adds 1, 2 or 4 to it, which wraps *)
(* around to 0, 1 and 3.                                                   *)
Find(s, t) ==
  LET at == {i \in 0..(Len(s) - Len(t)) : SubSeq(s, i + 1, i + Len(t)) = t}
  IN  IF at = {} THEN -1 ELSE Min(at)

(* s.substr(0, n), and s.substr(n), which throws when n > s.length().      *)
Upto(s, n) == IF n = -1 THEN s ELSE SubSeq(s, 1, n)
From(s, n) == SubSeq(s, n + 1, Len(s))

(* std::stoi and std::stoul skip white space and throw without a digit.    *)
Numeric(s) ==
  \E i \in 1..Len(s) : /\ s[i][1] = "num"
                       /\ \A j \in 1..(i - 1) : s[j] \in {SP, CR, LF}

Value(s) == s[Min({i \in 1..Len(s) : s[i][1] = "num"})][2]
=============================================================================
