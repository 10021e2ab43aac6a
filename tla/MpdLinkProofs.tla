--------------------------- MODULE MpdLinkProofs ---------------------------
(***************************************************************************)
(* Theorems of MpdLink, for any songs, any length of an answer and any     *)
(* bounds: the types and what is shown of the text that MPD writes, then   *)
(* the connection and its polling.                                         *)
(***************************************************************************)
EXTENDS MpdLink, WellFoundedInduction, FiniteSetTheorems, FunctionTheorems, SequenceTheorems, TLAPS

-----------------------------------------------------------------------------
(* Induction, for a set in the place of a predicate *)

\* Smaller is related, in the order of the naturals.
LEMMA PredecessorsAreRelated ==
    ASSUME NEW x \in Nat, NEW y \in Nat, y < x
    PROVE  <<y, x>> \in OpToRel(<, Nat)
BY DEF OpToRel

\* A set of naturals that 0 begins and every number continues has them all.
LEMMA NatSetInduction ==
    ASSUME NEW S, 0 \in S, \A n \in Nat : n \in S => n + 1 \in S
    PROVE  Nat \subseteq S
<1> DEFINE R == OpToRel(<, Nat)
<1>1. IsWellFoundedOn(R, Nat)
    BY NatLessThanWellFounded
<1>2. \A x, y \in Nat : y < x => <<y, x>> \in R
    BY PredecessorsAreRelated
<1> HIDE DEF R
<1> SUFFICES ASSUME Nat \ S # {} PROVE FALSE
    OBVIOUS
<1>3. PICK x \in Nat \ S : \A y \in Nat \ S : ~(<<y, x>> \in R)
    BY <1>1, WFMin
<1>4. x # 0 /\ x - 1 \in Nat /\ x - 1 < x /\ (x - 1) + 1 = x
    BY <1>3
<1> QED
    BY <1>2, <1>3, <1>4

\* A set of naturals that is not empty has a least member.
LEMMA LeastElement ==
    ASSUME NEW S \in SUBSET Nat, S # {}
    PROVE  \E m \in S : \A k \in S : m <= k
<1> DEFINE R == OpToRel(<, Nat)
<1>1. IsWellFoundedOn(R, Nat)
    BY NatLessThanWellFounded
<1>2. \A x, y \in Nat : y < x => <<y, x>> \in R
    BY PredecessorsAreRelated
<1> HIDE DEF R
<1>3. PICK m \in S : \A k \in S : ~(<<k, m>> \in R)
    BY <1>1, WFMin
<1>4. \A k \in S : ~(k < m)
    BY <1>2, <1>3
<1> QED
    BY <1>4

-----------------------------------------------------------------------------
(* What is written: parts, answers and links between parts *)

\* The lines after which MPD writes OK: the last of the status and the last of all.
LastLines(s) == {StatusLines, LinesOf(s)}
\* What comes after a part of the infos: a name is followed by its value, a value
\* by the next name or, at the end of an answer, by the OK line.
Goes(p, q) ==
    /\ p.line <= LinesOf(p.song)
    /\ p.nl <=> p.kind = "value"
    /\ p.kind \in {"value", NameOf(p.song, p.line)}
    /\ p.kind # "value" => q = Part("value", p.line, p.song, TRUE)
    /\ p.kind = "value" =>
         \/ p.line < LinesOf(p.song) /\ q = Part(NameOf(p.song, p.line + 1), p.line + 1, p.song, FALSE)
         \/ p.line \in LastLines(p.song) /\ q = Sign("O", FALSE)
\* The parts of an answer before its OK line.
OfInfos(p) == p.kind \in {"name", "title", "value"}
\* A text where every part of infos is followed by what MPD wrote after it.
Linked(text) ==
    \A i \in 1 .. Len(text) : OfInfos(text[i]) => i < Len(text) /\ Goes(text[i], text[i + 1])

\* An answer to the poll has two lines at least, and one more than InfoLines at most; the
\* title is not its first line.
LEMMA LinesOfType ==
    /\ InfoLines \in Nat \ {0, 1} /\ StatusLines \in Nat \ {0} /\ StatusLines < InfoLines
    /\ NameLine \in 2 .. InfoLines
    /\ \A s : LinesOf(s) \in Nat \ {0, 1} /\ StatusLines < LinesOf(s)
            /\ LinesOf(s) = IF s \in Titled THEN InfoLines + 1 ELSE InfoLines
BY LinesAssumption DEF LinesOf

\* The parts that are not of the infos.
LEMMA SignType ==
    ASSUME NEW kind \in {"OK MPD ", "version", "O", "K", "ACK", "null", "line", "okline"},
           NEW nl \in BOOLEAN
    PROVE  /\ Sign(kind, nl) \in Parts /\ ~OfInfos(Sign(kind, nl))
           /\ Sign(kind, nl).kind = kind /\ Sign(kind, nl).nl = nl
BY DEF Sign, Parts, OfInfos

\* The parts of the infos.
LEMMA PartType ==
    ASSUME NEW kind \in {"name", "title", "value"}, NEW i \in 1 .. InfoLines + 1, NEW s \in Songs,
           NEW nl \in BOOLEAN
    PROVE  /\ Part(kind, i, s, nl) \in Parts /\ OfInfos(Part(kind, i, s, nl))
           /\ Part(kind, i, s, nl).kind = kind
BY DEF Part, Parts, OfInfos

\* A part of the infos is known from its kind, its line, its song and its end.
LEMMA InfosPart ==
    ASSUME NEW p \in Parts, OfInfos(p)
    PROVE  /\ p.line \in 1 .. InfoLines + 1 /\ p.song \in Songs /\ p.nl \in BOOLEAN
           /\ p.kind \in {"name", "title", "value"}
           /\ p = Part(p.kind, p.line, p.song, p.nl)
BY DEF Parts, Part, OfInfos

\* A name is of a line or of the title.
LEMMA NameOfType == \A s, i : NameOf(s, i) \in {"name", "title"}
BY DEF NameOf

\* The infos alternate names and values.
LEMMA InfosType ==
    ASSUME NEW s \in Songs
    PROVE  /\ Infos(s) \in Seq(Parts) /\ Len(Infos(s)) = 2 * LinesOf(s)
           /\ \A i \in 1 .. 2 * LinesOf(s) :
                /\ OfInfos(Infos(s)[i])
                /\ Infos(s)[i] = IF i % 2 = 1
                                 THEN Part(NameOf(s, (i + 1) \div 2), (i + 1) \div 2, s, FALSE)
                                 ELSE Part("value", i \div 2, s, TRUE)
<1> DEFINE L == LinesOf(s)
           at(i) == IF i % 2 = 1 THEN Part(NameOf(s, (i + 1) \div 2), (i + 1) \div 2, s, FALSE)
                    ELSE Part("value", i \div 2, s, TRUE)
<1>1. L \in Nat \ {0, 1} /\ L <= InfoLines + 1 /\ InfoLines \in Nat
    BY LinesOfType
<1> HIDE DEF L
<1>2. ASSUME NEW i \in 1 .. 2 * L
      PROVE  at(i) \in Parts /\ OfInfos(at(i))
    <2>1. CASE i % 2 = 1
        <3>1. (i + 1) \div 2 \in 1 .. InfoLines + 1
            BY <1>1, <2>1
        <3>2. NameOf(s, (i + 1) \div 2) \in {"name", "title", "value"}
            BY NameOfType
        <3>. QED
            BY <2>1, <3>1, <3>2, PartType
    <2>2. CASE i % 2 # 1
        <3>1. i \div 2 \in 1 .. InfoLines + 1
            BY <1>1, <2>2
        <3>. QED
            BY <2>2, <3>1, PartType
    <2>. QED
        BY <2>1, <2>2
<1> HIDE DEF at
<1>3. Infos(s) = [i \in 1 .. 2 * L |-> at(i)]
    BY DEF Infos, at, L
<1>4. 2 * L \in Nat
    BY <1>1
<1>5. Infos(s) \in Seq(Parts) /\ Len(Infos(s)) = 2 * L
    BY <1>2, <1>3, <1>4
<1>6. \A i \in 1 .. 2 * L : Infos(s)[i] = at(i)
    BY <1>3
<1>. QED
    BY <1>2, <1>5, <1>6 DEF at, L

\* Tuples of one and of two members of a set.
LEMMA TupleType ==
    ASSUME NEW S, NEW a \in S, NEW b \in S
    PROVE  <<a>> \in Seq(S) /\ <<a, b>> \in Seq(S)
OBVIOUS

\* The places where answers end.
LEMMA EndingsAre ==
    ASSUME NEW text \in Seq(Parts)
    PROVE  Endings(text) = {i \in 1 .. Len(text) : text[i].kind \in {"K", "ACK"}}
BY LenProperties DEF Endings

\* The OK line.
LEMMA OkType ==
    /\ Ok \in Seq(Parts) /\ Len(Ok) = 2 /\ Ok[1] = Sign("O", FALSE) /\ Ok[2] = Sign("K", TRUE)
    /\ Last(Ok) = Sign("K", TRUE)
    /\ Linked(Ok) /\ Endings(Ok) = {2}
<1>1. /\ Ok[1] = Sign("O", FALSE) /\ Ok[2] = Sign("K", TRUE) /\ Len(Ok) = 2 /\ DOMAIN Ok = 1 .. 2
    BY DEF Ok
<1>2. /\ Ok[1] \in Parts /\ ~OfInfos(Ok[1]) /\ Ok[1].kind = "O"
      /\ Ok[2] \in Parts /\ ~OfInfos(Ok[2]) /\ Ok[2].kind = "K"
    BY <1>1, SignType
<1>3. Ok \in Seq(Parts)
    BY <1>1, <1>2, TupleType DEF Ok
<1>4. \A i \in 1 .. 2 : i = 1 \/ i = 2
    OBVIOUS
<1>5. Linked(Ok)
    BY <1>1, <1>2, <1>4 DEF Linked
<1>6. Endings(Ok) = {2}
    <2>1. \A i \in 1 .. 2 : Ok[i].kind \in {"K", "ACK"} <=> i = 2
        BY <1>2, <1>4
    <2>. QED
        BY <1>1, <1>3, <2>1, EndingsAre
<1>7. Last(Ok) = Ok[2]
    BY <1>1 DEF Last
<1>. QED
    BY <1>1, <1>3, <1>5, <1>6, <1>7

\* The answer that refuses a command.
LEMMA AckType ==
    /\ Ack \in Seq(Parts) /\ Len(Ack) = 1 /\ Linked(Ack) /\ Endings(Ack) = {1}
<1>1. /\ Ack[1] = Sign("ACK", TRUE) /\ Len(Ack) = 1 /\ DOMAIN Ack = 1 .. 1
    BY DEF Ack
<1>2. Ack[1] \in Parts /\ ~OfInfos(Ack[1]) /\ Ack[1].kind = "ACK"
    BY <1>1, SignType
<1>3. Ack \in Seq(Parts)
    BY <1>1, <1>2, TupleType DEF Ack
<1>4. \A i \in 1 .. 1 : i = 1
    OBVIOUS
<1>5. Linked(Ack)
    BY <1>1, <1>2, <1>4 DEF Linked
<1>6. Endings(Ack) = {1}
    <2>1. \A i \in 1 .. 1 : Ack[i].kind \in {"K", "ACK"} <=> i = 1
        BY <1>2, <1>4
    <2>. QED
        <3>1. Endings(Ack) = {i \in 1 .. 1 : Ack[i].kind \in {"K", "ACK"}}
            BY <1>1, <1>3, EndingsAre
        <3>2. 1 \in 1 .. 1
            OBVIOUS
        <3>. QED
            BY <1>4, <2>1, <3>1, <3>2
<1>. QED
    BY <1>1, <1>3, <1>5, <1>6

\* The greeting, which ends no answer that was asked for.
LEMMA GreetingType ==
    /\ Greeting \in Seq(Parts) /\ Linked(Greeting) /\ Endings(Greeting) = {}
    /\ Greeting # <<>> /\ Head(Greeting).kind = "OK MPD "
<1>1. /\ Greeting[1] = Sign("OK MPD ", FALSE) /\ Greeting[2] = Sign("version", TRUE)
      /\ Len(Greeting) = 2 /\ DOMAIN Greeting = 1 .. 2 /\ Head(Greeting) = Sign("OK MPD ", FALSE)
    BY DEF Greeting
<1>2. /\ Greeting[1] \in Parts /\ ~OfInfos(Greeting[1]) /\ Greeting[1].kind = "OK MPD "
      /\ Greeting[2] \in Parts /\ ~OfInfos(Greeting[2]) /\ Greeting[2].kind = "version"
    BY <1>1, SignType
<1>3. Greeting \in Seq(Parts)
    BY <1>1, <1>2, TupleType DEF Greeting
<1>4. \A i \in 1 .. 2 : i = 1 \/ i = 2
    OBVIOUS
<1>5. Linked(Greeting)
    BY <1>1, <1>2, <1>4 DEF Linked
<1>6. Endings(Greeting) = {}
    <2>1. \A i \in 1 .. 2 : Greeting[i].kind \notin {"K", "ACK"}
        BY <1>2, <1>4
    <2>. QED
        BY <1>1, <1>3, <2>1, EndingsAre
<1>7. Greeting # <<>>
    BY DEF Greeting
<1>8. Head(Greeting).kind = "OK MPD "
    BY <1>1, <1>2
<1>. QED
    BY <1>3, <1>5, <1>6, <1>7, <1>8

\* Two linked texts make a linked one, and so does what is left of one.
LEMMA LinkedConcat ==
    ASSUME NEW a \in Seq(Parts), NEW b \in Seq(Parts), Linked(a), Linked(b)
    PROVE  Linked(a \o b)
<1>1. /\ Len(a) \in Nat /\ Len(b) \in Nat /\ Len(a \o b) = Len(a) + Len(b)
      /\ \A i \in 1 .. Len(a) + Len(b) : (a \o b)[i] = IF i <= Len(a) THEN a[i] ELSE b[i - Len(a)]
    BY ConcatProperties, LenProperties
<1> SUFFICES ASSUME NEW i \in 1 .. Len(a) + Len(b), OfInfos((a \o b)[i])
             PROVE  i < Len(a) + Len(b) /\ Goes((a \o b)[i], (a \o b)[i + 1])
    BY <1>1 DEF Linked
<1>2. CASE i <= Len(a)
    <2>1. i \in 1 .. Len(a) /\ (a \o b)[i] = a[i]
        BY <1>1, <1>2
    <2>2. i < Len(a) /\ Goes(a[i], a[i + 1])
        BY <2>1 DEF Linked
    <2>3. (a \o b)[i + 1] = a[i + 1]
        BY <1>1, <2>1, <2>2
    <2>. QED
        BY <1>1, <2>1, <2>2, <2>3
<1>3. CASE i > Len(a)
    <2>1. i - Len(a) \in 1 .. Len(b) /\ (a \o b)[i] = b[i - Len(a)]
        BY <1>1, <1>3
    <2>2. i - Len(a) < Len(b) /\ Goes(b[i - Len(a)], b[(i - Len(a)) + 1])
        BY <2>1 DEF Linked
    <2>3. (a \o b)[i + 1] = b[(i + 1) - Len(a)] /\ (i + 1) - Len(a) = (i - Len(a)) + 1
        BY <1>1, <1>3, <2>2
    <2>. QED
        BY <1>1, <2>1, <2>2, <2>3
<1>. QED
    BY <1>1, <1>2, <1>3

\* What is left of a text, part by part.
LEMMA RestIs ==
    ASSUME NEW text \in Seq(Parts), NEW n \in 0 .. Len(text)
    PROVE  /\ SubSeq(text, n + 1, Len(text)) \in Seq(Parts)
           /\ Len(SubSeq(text, n + 1, Len(text))) = Len(text) - n
           /\ \A i \in 1 .. Len(text) - n : SubSeq(text, n + 1, Len(text))[i] = text[n + i]
<1> DEFINE rest == SubSeq(text, n + 1, Len(text))
<1>1. Len(text) \in Nat /\ n \in Nat /\ n <= Len(text) /\ \A i \in 1 .. Len(text) : text[i] \in Parts
    BY LenProperties, ElementOfSeq
<1>2. \A i \in n + 1 .. Len(text) : text[i] \in Parts
    BY <1>1
<1>3. n + 1 \in Int /\ Len(text) \in Int
    BY <1>1
<1>4. /\ rest \in Seq(Parts)
      /\ Len(rest) = IF n + 1 <= Len(text) THEN Len(text) - (n + 1) + 1 ELSE 0
      /\ \A i \in 1 .. Len(text) - (n + 1) + 1 : rest[i] = text[(n + 1) + i - 1]
    BY <1>2, <1>3, SubSeqProperties
<1>5. Len(text) - (n + 1) + 1 = Len(text) - n
    BY <1>1
<1>6. ASSUME NEW i \in 1 .. Len(text) - n
      PROVE  rest[i] = text[n + i]
    <2>1. rest[i] = text[(n + 1) + i - 1]
        BY <1>4, <1>5
    <2>2. (n + 1) + i - 1 = n + i
        BY <1>1
    <2>. QED
        BY <2>1, <2>2
<1>7. Len(rest) = Len(text) - n
    BY <1>1, <1>4
<1>. QED
    BY <1>4, <1>6, <1>7

\* What is left of a linked text is linked.
LEMMA LinkedRest ==
    ASSUME NEW text \in Seq(Parts), NEW n \in 0 .. Len(text), Linked(text)
    PROVE  Linked(SubSeq(text, n + 1, Len(text)))
<1> DEFINE rest == SubSeq(text, n + 1, Len(text))
<1>1. Len(text) \in Nat /\ n \in Nat /\ n <= Len(text)
    BY LenProperties
<1>2. /\ Len(rest) = Len(text) - n
      /\ \A i \in 1 .. Len(text) - n : rest[i] = text[n + i]
    BY RestIs
<1> HIDE DEF rest
<1>3. ASSUME NEW i \in 1 .. Len(rest), OfInfos(rest[i])
      PROVE  i < Len(rest) /\ Goes(rest[i], rest[i + 1])
    <2>1. n + i \in 1 .. Len(text) /\ rest[i] = text[n + i]
        BY <1>1, <1>2
    <2>2. n + i < Len(text) /\ Goes(text[n + i], text[(n + i) + 1])
        BY <1>3, <2>1 DEF Linked
    <2>3. i + 1 \in 1 .. Len(text) - n /\ n + (i + 1) = (n + i) + 1
        BY <1>1, <2>2
    <2>4. rest[i + 1] = text[(n + i) + 1]
        BY <1>2, <2>3
    <2>. QED
        BY <1>1, <1>2, <2>1, <2>2, <2>3, <2>4
<1>. QED
    BY <1>3 DEF Linked, rest

\* An answer of MPD to the poll: infos and the OK line.
LEMMA ConcatOk ==
    ASSUME NEW text \in Seq(Parts)
    PROVE  /\ text \o Ok \in Seq(Parts)
           /\ Len(text \o Ok) = Len(text) + 2
           /\ \A i \in 1 .. Len(text) : (text \o Ok)[i] = text[i]
           /\ (text \o Ok)[Len(text) + 1] = Sign("O", FALSE)
           /\ (text \o Ok)[Len(text) + 2] = Sign("K", TRUE)
<1> DEFINE n == Len(text)
<1>1. /\ n \in Nat /\ text \o Ok \in Seq(Parts) /\ Len(text \o Ok) = n + 2
      /\ \A i \in 1 .. n + 2 : (text \o Ok)[i] = IF i <= n THEN text[i] ELSE Ok[i - n]
    BY OkType, ConcatProperties, LenProperties
<1> HIDE DEF n
<1>2. /\ n + 1 \in 1 .. n + 2 /\ ~(n + 1 <= n) /\ (n + 1) - n = 1
      /\ n + 2 \in 1 .. n + 2 /\ ~(n + 2 <= n) /\ (n + 2) - n = 2
      /\ \A i \in 1 .. n : i \in 1 .. n + 2 /\ i <= n
    BY <1>1
<1>3. (text \o Ok)[n + 1] = Ok[1] /\ (text \o Ok)[n + 2] = Ok[2]
    BY <1>1, <1>2
<1>. QED
    BY <1>1, <1>2, <1>3, OkType DEF n

\* A name goes on with its value.
LEMMA NameGoes ==
    ASSUME NEW i \in Nat, NEW s, i <= LinesOf(s)
    PROVE  Goes(Part(NameOf(s, i), i, s, FALSE), Part("value", i, s, TRUE))
<1> DEFINE p == Part(NameOf(s, i), i, s, FALSE)
<1>1. /\ p.line = i /\ p.song = s /\ p.kind = NameOf(s, i) /\ p.nl = FALSE
    BY DEF Part
<1>2. p.kind # "value"
    BY <1>1, NameOfType
<1> HIDE DEF p
<1>3. Goes(p, Part("value", i, s, TRUE))
    BY <1>1, <1>2 DEF Goes
<1>. QED
    BY <1>3 DEF p

\* A value goes on with the next name, and the last one with the OK line.
LEMMA ValueGoes ==
    ASSUME NEW i \in Nat, NEW s
    PROVE  /\ i < LinesOf(s) =>
                Goes(Part("value", i, s, TRUE), Part(NameOf(s, i + 1), i + 1, s, FALSE))
           /\ i \in LastLines(s) => Goes(Part("value", i, s, TRUE), Sign("O", FALSE))
<1> DEFINE p == Part("value", i, s, TRUE)
<1>1. /\ p.line = i /\ p.song = s /\ p.kind = "value" /\ p.nl = TRUE
    BY DEF Part
<1>2. LinesOf(s) \in Nat /\ StatusLines \in Nat /\ StatusLines < LinesOf(s)
    BY LinesOfType
<1> HIDE DEF p
<1>3. ASSUME i < LinesOf(s) PROVE Goes(p, Part(NameOf(s, i + 1), i + 1, s, FALSE))
    <2>1. i <= LinesOf(s)
        BY <1>2, <1>3
    <2>. QED
        BY <1>1, <1>3, <2>1 DEF Goes
<1>4. ASSUME i \in LastLines(s) PROVE Goes(p, Sign("O", FALSE))
    <2>1. i <= LinesOf(s)
        BY <1>2, <1>4 DEF LastLines
    <2>. QED
        BY <1>1, <1>4, <2>1 DEF Goes
<1>. QED
    BY <1>3, <1>4 DEF p

\* Lines of the infos: those after line a, up to line e.
Piece(s, a, e) == SubSeq(Infos(s), 2 * a + 1, 2 * e)

\* Lines of the infos are their parts in order.
LEMMA PieceType ==
    ASSUME NEW s \in Songs, NEW a \in Nat, NEW e \in LastLines(s), a <= e
    PROVE  /\ Piece(s, a, e) \in Seq(Parts) /\ Len(Piece(s, a, e)) = 2 * (e - a)
           /\ \A i \in 1 .. 2 * (e - a) :
                Piece(s, a, e)[i] = Infos(s)[2 * a + i] /\ OfInfos(Piece(s, a, e)[i])
<1> DEFINE piece == Piece(s, a, e)
           L == LinesOf(s)
<1>1. /\ L \in Nat /\ e \in Nat /\ e <= L
    BY LinesOfType DEF LastLines
<1>2. /\ Infos(s) \in Seq(Parts) /\ Len(Infos(s)) = 2 * L
      /\ \A i \in 1 .. 2 * L : OfInfos(Infos(s)[i])
    BY InfosType
<1> HIDE DEF L
<1>3. /\ 2 * a + 1 \in Int /\ 2 * e \in Int
      /\ \A i \in 2 * a + 1 .. 2 * e : i \in 1 .. 2 * L
    BY <1>1
<1>4. \A i \in 2 * a + 1 .. 2 * e : Infos(s)[i] \in Parts
    BY <1>2, <1>3, ElementOfSeq
<1>5. /\ piece \in Seq(Parts)
      /\ Len(piece) = IF 2 * a + 1 <= 2 * e THEN 2 * e - (2 * a + 1) + 1 ELSE 0
      /\ \A i \in 1 .. 2 * e - (2 * a + 1) + 1 : piece[i] = Infos(s)[(2 * a + 1) + i - 1]
    BY <1>3, <1>4, SubSeqProperties DEF Piece
<1> HIDE DEF piece
<1>6. 2 * e - (2 * a + 1) + 1 = 2 * (e - a) /\ Len(piece) = 2 * (e - a)
    BY <1>1, <1>5
<1>7. ASSUME NEW i \in 1 .. 2 * (e - a)
      PROVE  piece[i] = Infos(s)[2 * a + i] /\ OfInfos(piece[i])
    <2>1. (2 * a + 1) + i - 1 = 2 * a + i /\ 2 * a + i \in 1 .. 2 * L
        BY <1>1
    <2>2. piece[i] = Infos(s)[(2 * a + 1) + i - 1]
        BY <1>5, <1>6
    <2>. QED
        BY <1>2, <2>1, <2>2
<1>. QED
    BY <1>5, <1>6, <1>7 DEF piece

\* Lines of the infos up to the end of an answer are linked, with its OK line.
LEMMA LinkedPiece ==
    ASSUME NEW s \in Songs, NEW a \in Nat, NEW e \in LastLines(s), a <= e
    PROVE  Linked(Piece(s, a, e) \o Ok)
<1>1. PICK L \in Nat \ {0, 1} : L = LinesOf(s)
    BY LinesOfType
<1>2. e \in Nat /\ e <= L
    BY <1>1, LinesOfType DEF LastLines
<1> DEFINE n == 2 * (e - a)
           text == Piece(s, a, e) \o Ok
<1>3. n \in Nat
    BY <1>2
<1>4. /\ Piece(s, a, e) \in Seq(Parts) /\ Len(Piece(s, a, e)) = n
      /\ \A i \in 1 .. n : Piece(s, a, e)[i] = Infos(s)[2 * a + i]
    BY PieceType
<1>5. \A i \in 1 .. 2 * L :
        Infos(s)[i] = IF i % 2 = 1 THEN Part(NameOf(s, (i + 1) \div 2), (i + 1) \div 2, s, FALSE)
                      ELSE Part("value", i \div 2, s, TRUE)
    BY <1>1, InfosType
<1>6. /\ Len(text) = n + 2
      /\ \A i \in 1 .. n : text[i] = Infos(s)[2 * a + i]
      /\ text[n + 1] = Sign("O", FALSE)
      /\ text[n + 2] = Sign("K", TRUE)
    BY <1>4, ConcatOk
<1> HIDE DEF text
<1>7. \A k \in 0 .. (e - a) - 1 :
        /\ text[2 * k + 1] = Part(NameOf(s, a + k + 1), a + k + 1, s, FALSE)
        /\ text[2 * k + 2] = Part("value", a + k + 1, s, TRUE)
    <2> TAKE k \in 0 .. (e - a) - 1
    <2>1. /\ k \in Nat /\ 2 * k + 1 \in 1 .. n /\ 2 * k + 2 \in 1 .. n
          /\ 2 * a + (2 * k + 1) \in 1 .. 2 * L /\ 2 * a + (2 * k + 2) \in 1 .. 2 * L
        BY <1>1, <1>2
    <2>2. /\ (2 * a + (2 * k + 1)) % 2 = 1 /\ ((2 * a + (2 * k + 1)) + 1) \div 2 = a + k + 1
          /\ (2 * a + (2 * k + 2)) % 2 # 1 /\ (2 * a + (2 * k + 2)) \div 2 = a + k + 1
        BY <2>1
    <2>3. /\ text[2 * k + 1] = Infos(s)[2 * a + (2 * k + 1)]
          /\ text[2 * k + 2] = Infos(s)[2 * a + (2 * k + 2)]
        BY <1>6, <2>1
    <2>4. Infos(s)[2 * a + (2 * k + 1)] = Part(NameOf(s, a + k + 1), a + k + 1, s, FALSE)
        BY <1>5, <2>1, <2>2
    <2>5. Infos(s)[2 * a + (2 * k + 2)] = Part("value", a + k + 1, s, TRUE)
        BY <1>5, <2>1, <2>2
    <2>. QED
        BY <2>3, <2>4, <2>5
<1>8. ASSUME NEW i \in 1 .. Len(text), OfInfos(text[i])
      PROVE  i < Len(text) /\ Goes(text[i], text[i + 1])
    <2>1. ~OfInfos(Sign("O", FALSE)) /\ ~OfInfos(Sign("K", TRUE))
        BY SignType
    <2>2. i \in 1 .. n
        <3>1. i # n + 1 /\ i # n + 2
            BY <1>6, <1>8, <2>1
        <3>. QED
            BY <1>3, <1>6, <3>1
    <2>3. i < Len(text)
        BY <1>3, <1>6, <2>2
    <2>4. CASE i % 2 = 1
        <3>1. PICK k \in 0 .. (e - a) - 1 : i = 2 * k + 1
            <4>1. (i - 1) \div 2 \in 0 .. (e - a) - 1 /\ i = 2 * ((i - 1) \div 2) + 1
                BY <1>2, <2>2, <2>4
            <4>. QED
                BY <4>1
        <3>2. a + k + 1 \in Nat /\ a + k + 1 <= L /\ i + 1 = 2 * k + 2
            BY <1>1, <1>2, <3>1
        <3>3. /\ text[i] = Part(NameOf(s, a + k + 1), a + k + 1, s, FALSE)
              /\ text[i + 1] = Part("value", a + k + 1, s, TRUE)
            BY <1>7, <3>1, <3>2
        <3>. QED
            BY <1>1, <2>3, <3>2, <3>3, NameGoes
    <2>5. CASE i % 2 # 1
        <3>1. PICK k \in 0 .. (e - a) - 1 : i = 2 * k + 2
            <4>1. (i \div 2) - 1 \in 0 .. (e - a) - 1 /\ i = 2 * ((i \div 2) - 1) + 2
                BY <1>2, <2>2, <2>5
            <4>. QED
                BY <4>1
        <3>2. a + k + 1 \in Nat /\ a + k + 1 <= e /\ k \in Nat
            BY <1>2, <3>1
        <3>3. text[i] = Part("value", a + k + 1, s, TRUE)
            BY <1>7, <3>1
        <3>4. CASE a + k + 1 = e
            <4>1. i = n
                BY <1>2, <3>1, <3>4
            <4>2. text[i + 1] = Sign("O", FALSE)
                BY <1>6, <4>1
            <4>. QED
                BY <2>3, <3>2, <3>3, <3>4, <4>2, ValueGoes
        <3>5. CASE a + k + 1 # e
            <4>1. /\ k + 1 \in 0 .. (e - a) - 1 /\ i + 1 = 2 * (k + 1) + 1
                  /\ a + (k + 1) + 1 = (a + k + 1) + 1 /\ a + k + 1 < L
                BY <1>2, <3>1, <3>2, <3>5
            <4>2. text[i + 1] = Part(NameOf(s, (a + k + 1) + 1), (a + k + 1) + 1, s, FALSE)
                BY <1>7, <4>1
            <4>. QED
                BY <1>1, <2>3, <3>2, <3>3, <4>1, <4>2, ValueGoes
        <3>. QED
            BY <3>4, <3>5
    <2>. QED
        BY <2>4, <2>5
<1>. QED
    BY <1>8 DEF Linked, text

\* Such an answer ends with its OK line and nowhere before.
LEMMA EndingOfPiece ==
    ASSUME NEW s \in Songs, NEW a \in Nat, NEW e \in LastLines(s), a <= e
    PROVE  LET text == Piece(s, a, e) \o Ok
           IN  /\ text \in Seq(Parts) /\ Linked(text)
               /\ Len(text) \in Nat \ {0} /\ Endings(text) = {Len(text)}
<1> DEFINE text == Piece(s, a, e) \o Ok
           n == Len(Piece(s, a, e))
<1>1. /\ Piece(s, a, e) \in Seq(Parts) /\ n \in Nat
      /\ \A i \in 1 .. n : OfInfos(Piece(s, a, e)[i])
    BY PieceType, LenProperties
<1>2. /\ text \in Seq(Parts) /\ Len(text) = n + 2
      /\ \A i \in 1 .. n : text[i] = Piece(s, a, e)[i]
      /\ text[n + 1] = Sign("O", FALSE) /\ text[n + 2] = Sign("K", TRUE)
    BY <1>1, ConcatOk
<1>3. Linked(text)
    BY LinkedPiece
<1> HIDE DEF text, n
<1>4. ASSUME NEW i \in 1 .. n + 2
      PROVE  text[i].kind \in {"K", "ACK"} <=> i = n + 2
    <2>1. CASE i \in 1 .. n
        <3>1. OfInfos(text[i]) /\ i # n + 2
            BY <1>1, <1>2, <2>1
        <3>. QED
            BY <3>1 DEF OfInfos
    <2>2. CASE i = n + 1
        <3>1. text[i].kind = "O" /\ i # n + 2
            BY <1>1, <1>2, <2>2, SignType
        <3>. QED
            BY <3>1
    <2>3. CASE i = n + 2
        <3>1. text[i].kind = "K"
            BY <1>2, <2>3, SignType
        <3>. QED
            BY <2>3, <3>1
    <2>. QED
        BY <1>1, <2>1, <2>2, <2>3
<1>5. Endings(text) = {n + 2}
    <2>1. Endings(text) = {i \in 1 .. n + 2 : text[i].kind \in {"K", "ACK"}}
        BY <1>2, EndingsAre
    <2>2. n + 2 \in 1 .. n + 2
        BY <1>1
    <2>. QED
        BY <1>4, <2>1, <2>2
<1>. QED
    BY <1>1, <1>2, <1>3, <1>5 DEF text

\* An answer is linked, and its last part is the only one that ends an answer.
LEMMA AnswerType ==
    ASSUME NEW command \in Commands, NEW s \in Songs
    PROVE  /\ Answer(command, s) \in Seq(Parts) /\ Linked(Answer(command, s))
           /\ Len(Answer(command, s)) \in Nat \ {0}
           /\ Endings(Answer(command, s)) = {Len(Answer(command, s))}
<1> DEFINE L == LinesOf(s)
<1>1. /\ StatusLines \in Nat \ {0} /\ L \in Nat /\ StatusLines < L
      /\ StatusLines \in LastLines(s) /\ L \in LastLines(s)
    BY LinesOfType DEF LastLines
<1>2. Infos(s) = Piece(s, 0, L)
    <2>1. Infos(s) \in Seq(Parts) /\ Len(Infos(s)) = 2 * L
        BY InfosType
    <2>2. 2 * 0 + 1 = 1
        OBVIOUS
    <2>3. Piece(s, 0, L) = SubSeq(Infos(s), 1, Len(Infos(s)))
        BY <2>1, <2>2 DEF Piece
    <2>. QED
        BY <2>1, <2>3, SubSeqFull
<1>3. Status(s) = Piece(s, 0, StatusLines)
    <2>1. 2 * 0 + 1 = 1
        OBVIOUS
    <2>. QED
        BY <2>1 DEF Status, Piece
<1>4. CurrentSong(s) = Piece(s, StatusLines, L)
    BY DEF CurrentSong, Piece
<1> HIDE DEF L
<1>5. CASE command = "infos"
    <2>1. Answer(command, s) = Piece(s, 0, L) \o Ok
        BY <1>2, <1>5 DEF Answer
    <2>. QED
        BY <1>1, <2>1, EndingOfPiece
<1>6. CASE command = "status"
    <2>1. Answer(command, s) = Piece(s, 0, StatusLines) \o Ok
        BY <1>3, <1>6 DEF Answer
    <2>. QED
        BY <1>1, <2>1, EndingOfPiece
<1>7. CASE command = "currentsong"
    <2>1. Answer(command, s) = Piece(s, StatusLines, L) \o Ok
        BY <1>4, <1>7 DEF Answer
    <2>. QED
        BY <1>1, <2>1, EndingOfPiece
<1>8. CASE command = "prev"
    <2>1. Answer(command, s) = Ack
        BY <1>8 DEF Answer
    <2>. QED
        BY <2>1, AckType
<1>9. CASE command = "next"
    <2>1. Answer(command, s) = Ok
        BY <1>9 DEF Answer
    <2>. QED
        BY <2>1, OkType
<1>. QED
    BY <1>5, <1>6, <1>7, <1>8, <1>9 DEF Commands

-----------------------------------------------------------------------------
(* One answer *)

\* The line ends of a text and of the same text without its last one.
LEMMA TrimmedIs ==
    ASSUME NEW text \in Seq(Parts), text # <<>>
    PROVE  /\ Trimmed(text) \in Seq(Parts) /\ Len(Trimmed(text)) = Len(text)
           /\ \A i \in 1 .. Len(text) : Trimmed(text)[i] =
                IF i = Len(text) THEN [text[i] EXCEPT !.nl = FALSE] ELSE text[i]
<1> DEFINE n == Len(text)
           last == [text[n] EXCEPT !.nl = FALSE]
<1>1. n \in Nat \ {0} /\ n \in 1 .. Len(text)
    BY EmptySeq
<1>2. text[n] \in Parts
    BY <1>1, ElementOfSeq
<1>3. last \in Parts
    BY <1>2 DEF Parts
<1>4. Trimmed(text) = [text EXCEPT ![n] = last]
    BY DEF Trimmed
<1> HIDE DEF last
<1>5. /\ Trimmed(text) \in Seq(Parts) /\ Len(Trimmed(text)) = Len(text)
      /\ \A i \in 1 .. Len(text) : Trimmed(text)[i] = IF i = n THEN last ELSE text[i]
    BY <1>1, <1>3, <1>4, ExceptSeq
<1>. QED
    BY <1>5 DEF last

\* A text whose lines all begin with a name has nothing but names and values.
LEMMA OnlyInfos ==
    ASSUME NEW text \in Seq(Parts), NEW n \in 1 .. Len(text),
           \A i \in 1 .. n : OfInfos(text[i]) /\ i < n => Goes(text[i], text[i + 1]),
           \A i \in 1 .. n : (i = 1 \/ text[i - 1].nl) => text[i].kind = "name"
    PROVE  \A i \in 1 .. n : OfInfos(text[i])
<1> DEFINE S == {i \in Nat : i + 1 \in 1 .. n => OfInfos(text[i + 1])}
<1>1. n \in Nat \ {0} /\ Len(text) \in Nat
    BY LenProperties
<1>2. 0 \in S
    <2>1. 1 \in 1 .. n
        BY <1>1
    <2>2. OfInfos(text[1])
        BY <2>1 DEF OfInfos
    <2>. QED
        BY <2>2
<1>3. ASSUME NEW k \in Nat, k \in S
      PROVE  k + 1 \in S
    <2> SUFFICES ASSUME (k + 1) + 1 \in 1 .. n
                 PROVE  OfInfos(text[(k + 1) + 1])
        OBVIOUS
    <2> DEFINE i == k + 1
    <2>1. i \in 1 .. n /\ i < n /\ i + 1 # 1 /\ (i + 1) - 1 = i /\ i + 1 \in 1 .. n
        BY <1>1
    <2>2. OfInfos(text[i])
        BY <1>3, <2>1
    <2> HIDE DEF i
    <2>3. Goes(text[i], text[i + 1])
        BY <2>1, <2>2
    <2>4. CASE text[i].nl
        <3>1. text[i + 1].kind = "name"
            BY <2>1, <2>4
        <3>. QED
            BY <3>1 DEF OfInfos, i
    <2>5. CASE ~text[i].nl
        <3>1. text[i].kind # "value"
            BY <2>3, <2>5 DEF Goes
        <3>2. text[i + 1].kind = "value"
            BY <2>3, <3>1 DEF Goes, Part
        <3>. QED
            BY <3>2 DEF OfInfos, i
    <2>. QED
        BY <2>4, <2>5
<1> HIDE DEF S
<1>4. Nat \subseteq S
    BY <1>2, <1>3, NatSetInduction
<1>5. ASSUME NEW i \in 1 .. n
      PROVE  OfInfos(text[i])
    <2>1. i - 1 \in Nat /\ (i - 1) + 1 = i
        BY <1>1
    <2>2. i - 1 \in S
        BY <1>4, <2>1
    <2>. QED
        BY <2>1, <2>2 DEF S
<1>. QED
    BY <1>5

\* What comes before a part of an answer is the part before it in the answer.
LEMMA Before ==
    ASSUME NEW s \in Songs, NEW m \in 2 .. 2 * LinesOf(s), NEW p \in Parts,
           OfInfos(p), Goes(p, Infos(s)[m])
    PROVE  p = Infos(s)[m - 1]
<1>1. PICK L \in Nat \ {0, 1} : L = LinesOf(s)
    BY LinesOfType
<1>2. \A i \in 1 .. 2 * L :
        Infos(s)[i] = IF i % 2 = 1 THEN Part(NameOf(s, (i + 1) \div 2), (i + 1) \div 2, s, FALSE)
                      ELSE Part("value", i \div 2, s, TRUE)
    BY <1>1, InfosType
<1>3. m \in 1 .. 2 * L /\ m - 1 \in 1 .. 2 * L /\ m \in Nat
    BY <1>1
<1>4. /\ p.line \in Nat /\ p.line # 0 /\ p.nl \in BOOLEAN
      /\ p = Part(p.kind, p.line, p.song, p.nl)
    BY InfosPart, LinesOfType
<1>5. /\ p.nl <=> p.kind = "value"
      /\ p.kind \in {"value", NameOf(p.song, p.line)}
      /\ p.kind # "value" => Infos(s)[m] = Part("value", p.line, p.song, TRUE)
      /\ p.kind = "value" =>
            \/ Infos(s)[m] = Part(NameOf(p.song, p.line + 1), p.line + 1, p.song, FALSE)
            \/ Infos(s)[m] = Sign("O", FALSE)
    BY DEF Goes
<1>6. CASE m % 2 = 1
    <2>1. Infos(s)[m] = Part(NameOf(s, (m + 1) \div 2), (m + 1) \div 2, s, FALSE)
        BY <1>2, <1>3, <1>6
    <2>2. (m - 1) % 2 # 1 /\ (m + 1) \div 2 = ((m - 1) \div 2) + 1 /\ (m - 1) \div 2 \in Nat
        BY <1>3, <1>6
    <2>3. Infos(s)[m - 1] = Part("value", (m - 1) \div 2, s, TRUE)
        BY <1>2, <1>3, <2>2
    <2>4. /\ Infos(s)[m].kind \in {"name", "title"}
          /\ Infos(s)[m].line = ((m - 1) \div 2) + 1 /\ Infos(s)[m].song = s
        BY <2>1, <2>2, NameOfType DEF Part
    <2>5. p.kind = "value"
        <3>1. Part("value", p.line, p.song, TRUE).kind = "value"
            BY DEF Part
        <3>. QED
            BY <1>5, <2>4, <3>1
    <2>6. Infos(s)[m] = Part(NameOf(p.song, p.line + 1), p.line + 1, p.song, FALSE)
        <3>1. Sign("O", FALSE).kind = "O"
            BY DEF Sign
        <3>. QED
            BY <1>5, <2>4, <2>5, <3>1
    <2>7. p.song = s /\ p.line + 1 = ((m - 1) \div 2) + 1
        BY <2>4, <2>6 DEF Part
    <2>8. p.line = (m - 1) \div 2
        BY <1>4, <2>2, <2>7
    <2>9. p.nl = TRUE
        BY <1>4, <1>5, <2>5
    <2>. QED
        BY <1>4, <2>3, <2>5, <2>7, <2>8, <2>9
<1>7. CASE m % 2 # 1
    <2>1. Infos(s)[m] = Part("value", m \div 2, s, TRUE)
        BY <1>2, <1>3, <1>7
    <2>2. (m - 1) % 2 = 1 /\ ((m - 1) + 1) \div 2 = m \div 2
        BY <1>3, <1>7
    <2>3. Infos(s)[m - 1] = Part(NameOf(s, m \div 2), m \div 2, s, FALSE)
        BY <1>2, <1>3, <2>2
    <2>4. Infos(s)[m].kind = "value" /\ Infos(s)[m].line = m \div 2 /\ Infos(s)[m].song = s
        BY <2>1 DEF Part
    <2>5. p.kind # "value"
        <3>1. /\ Part(NameOf(p.song, p.line + 1), p.line + 1, p.song, FALSE).kind # "value"
              /\ Sign("O", FALSE).kind # "value"
            BY NameOfType DEF Part, Sign
        <3>. QED
            BY <1>5, <2>4, <3>1
    <2>6. Infos(s)[m] = Part("value", p.line, p.song, TRUE)
        BY <1>5, <2>5
    <2>7. p.song = s /\ p.line = m \div 2
        BY <2>4, <2>6 DEF Part
    <2>8. p.nl = FALSE /\ p.kind = NameOf(s, m \div 2)
        BY <1>4, <1>5, <2>5, <2>7
    <2>. QED
        BY <1>4, <2>3, <2>7, <2>8
<1>. QED
    BY <1>6, <1>7

\* Parts that lead up to a place of the infos are the ones of one answer in front of
\* it, from the end backwards.
LEMMA EndOfAnswer ==
    ASSUME NEW text \in Seq(Parts), NEW n \in 1 .. Len(text), NEW s \in Songs,
           NEW e \in 1 .. 2 * LinesOf(s),
           \A i \in 1 .. n : OfInfos(text[i]),
           \A i \in 1 .. n : i < n => Goes(text[i], text[i + 1]),
           text[n] = Infos(s)[e]
    PROVE  /\ n <= e
           /\ \A i \in 1 .. n : text[i] = Infos(s)[(e - n) + i]
<1>1. /\ LinesOf(s) \in Nat /\ e \in Nat \ {0} /\ e <= 2 * LinesOf(s)
    BY LinesOfType
<1>2. n \in Nat \ {0} /\ Len(text) \in Nat /\ \A i \in 1 .. n : text[i] \in Parts
    <2>1. n \in Nat \ {0} /\ Len(text) \in Nat /\ \A i \in 1 .. n : i \in 1 .. Len(text)
        BY LenProperties
    <2>. QED
        BY <2>1, ElementOfSeq
<1> DEFINE S == {k \in Nat : k < n => k < e /\ text[n - k] = Infos(s)[e - k]}
<1>3. 0 \in S
    <2>1. n - 0 = n /\ e - 0 = e /\ 0 < e
        BY <1>1, <1>2
    <2>. QED
        BY <1>1, <2>1
<1>4. ASSUME NEW k \in Nat, k \in S
      PROVE  k + 1 \in S
    <2> SUFFICES ASSUME k + 1 < n
                 PROVE  k + 1 < e /\ text[n - (k + 1)] = Infos(s)[e - (k + 1)]
        OBVIOUS
    <2> DEFINE i == n - (k + 1)
               m == e - k
    <2>1. k < n /\ i \in 1 .. n /\ i < n /\ i + 1 = n - k
        BY <1>2
    <2>2. k < e /\ text[n - k] = Infos(s)[m]
        BY <1>4, <2>1
    <2>3. m \in 1 .. 2 * LinesOf(s) /\ e - (k + 1) = m - 1
        <3>1. k < e
            BY <2>2
        <3>2. PICK N \in Nat : N = 2 * LinesOf(s) /\ e <= N
            BY <1>1
        <3>3. m \in 1 .. N /\ e - (k + 1) = m - 1
            BY <1>1, <3>1, <3>2
        <3>. QED
            BY <3>2, <3>3
    <2> HIDE DEF i, m
    <2>4. OfInfos(text[i]) /\ text[i] \in Parts /\ Goes(text[i], Infos(s)[m])
        BY <1>2, <2>1, <2>2
    <2>5. m # 1
        <3> SUFFICES ASSUME m = 1 PROVE FALSE
            OBVIOUS
        <3>1. Infos(s)[1] = Part(NameOf(s, (1 + 1) \div 2), (1 + 1) \div 2, s, FALSE)
            <4>1. 1 \in 1 .. 2 * LinesOf(s) /\ 1 % 2 = 1
                BY <1>1
            <4>. QED
                BY <4>1, InfosType
        <3>2. (1 + 1) \div 2 = 1
            OBVIOUS
        <3>3. Infos(s)[1].kind \in {"name", "title"} /\ Infos(s)[1].line = 1
            BY <3>1, <3>2, NameOfType DEF Part
        <3>4. text[i].line \in Nat \ {0}
            BY <2>4, InfosPart, LinesOfType
        <3>5. \/ Infos(s)[1] = Part("value", text[i].line, text[i].song, TRUE)
              \/ Infos(s)[1] = Part(NameOf(text[i].song, text[i].line + 1), text[i].line + 1,
                                    text[i].song, FALSE)
              \/ Infos(s)[1] = Sign("O", FALSE)
            BY <2>4 DEF Goes
        <3>6. \/ Infos(s)[1].kind = "value"
              \/ Infos(s)[1].line = text[i].line + 1
              \/ Infos(s)[1].kind = "O"
            BY <3>5 DEF Part, Sign
        <3>. QED
            BY <3>3, <3>4, <3>6
    <2>6. m \in 2 .. 2 * LinesOf(s)
        BY <1>1, <2>3, <2>5
    <2>7. text[i] = Infos(s)[m - 1]
        BY <2>4, <2>6, Before
    <2>8. k + 1 < e
        BY <1>1, <2>3, <2>5, <2>6 DEF m
    <2>. QED
        BY <2>3, <2>7, <2>8 DEF i
<1> HIDE DEF S
<1>5. Nat \subseteq S
    BY <1>3, <1>4, NatSetInduction
<1>6. n <= e
    <2>1. n - 1 \in S /\ n - 1 < n
        BY <1>2, <1>5
    <2>2. n - 1 < e
        BY <2>1 DEF S
    <2>. QED
        BY <1>1, <1>2, <2>2
<1>7. ASSUME NEW i \in 1 .. n
      PROVE  text[i] = Infos(s)[(e - n) + i]
    <2>1. n - i \in Nat /\ n - i < n /\ n - (n - i) = i /\ e - (n - i) = (e - n) + i
        BY <1>1, <1>2
    <2>2. n - i \in S
        BY <1>5, <2>1
    <2>. QED
        BY <2>1, <2>2 DEF S
<1>. QED
    BY <1>6, <1>7

\* A text of names and values in turn has a line for every two parts.
LEMMA LinesOfPairs ==
    ASSUME NEW text \in Seq(Parts), NEW k \in Nat, Len(text) = 2 * k,
           \A i \in 1 .. 2 * k - 1 : text[i].nl <=> i % 2 = 0
    PROVE  /\ LineStarts(text) = {i \in 1 .. 2 * k : i % 2 = 1}
           /\ Cardinality(LineStarts(text)) = k
<1> DEFINE S == {i \in 1 .. 2 * k : i % 2 = 1}
           f == [i \in 1 .. k |-> 2 * i - 1]
<1>1. DOMAIN text = 1 .. 2 * k
    BY LenProperties
<1>2. ASSUME NEW i \in 1 .. 2 * k
      PROVE  (i = 1 \/ text[i - 1].nl) <=> i % 2 = 1
    <2>1. CASE i = 1
        BY <2>1
    <2>2. CASE i # 1
        <3>1. i - 1 \in 1 .. 2 * k - 1 /\ ((i - 1) % 2 = 0 <=> i % 2 = 1)
            BY <2>2
        <3>. QED
            BY <2>2, <3>1
    <2>. QED
        BY <2>1, <2>2
<1>3. LineStarts(text) = S
    BY <1>1, <1>2 DEF LineStarts
<1>4. f \in Bijection(1 .. k, S)
    <2>1. f \in [1 .. k -> S]
        <3>1. \A i \in 1 .. k : 2 * i - 1 \in 1 .. 2 * k /\ (2 * i - 1) % 2 = 1
            OBVIOUS
        <3>. QED
            BY <3>1
    <2>2. \A i, j \in 1 .. k : f[i] = f[j] => i = j
        OBVIOUS
    <2>3. \A x \in S : \E i \in 1 .. k : f[i] = x
        <3> TAKE x \in S
        <3>1. (x + 1) \div 2 \in 1 .. k /\ 2 * ((x + 1) \div 2) - 1 = x
            OBVIOUS
        <3>. QED
            BY <3>1
    <2> HIDE DEF S, f
    <2>4. f \in Injection(1 .. k, S)
        BY <2>1, <2>2, Fun_IsInj
    <2>5. f \in Surjection(1 .. k, S)
        BY <2>1, <2>3, Fun_IsSurj
    <2>. QED
        BY <2>4, <2>5 DEF Bijection
<1> HIDE DEF S, f
<1>5. IsFiniteSet(1 .. k) /\ Cardinality(1 .. k) = k
    <2>1. IsFiniteSet(1 .. k) /\ Cardinality(1 .. k) = IF 1 > k THEN 0 ELSE k - 1 + 1
        <3>1. 1 \in Int /\ k \in Int
            OBVIOUS
        <3>. QED
            BY <3>1, FS_Interval
    <2>. QED
        BY <2>1
<1>6. Cardinality(S) = k
    <2>1. ExistsBijection(1 .. k, S)
        BY <1>4 DEF ExistsBijection
    <2>. QED
        BY <1>5, <2>1, FS_Bijection
<1>. QED
    BY <1>3, <1>6 DEF S

\* What an OK line ends is a text in front of it.
LEMMA BeforeOkIs ==
    ASSUME NEW text \in Seq(Parts), OkLines(text) # {}
    PROVE  \E n \in 1 .. Len(text) - 2 :
              /\ text[n].nl /\ text[n + 1].kind = "O"
              /\ BeforeOk(text) \in Seq(Parts) /\ Len(BeforeOk(text)) = n
              /\ \A i \in 1 .. n : BeforeOk(text)[i] =
                    IF i = n THEN [text[i] EXCEPT !.nl = FALSE] ELSE text[i]
<1> DEFINE first == CHOOSE j \in OkLines(text) : \A k \in OkLines(text) : j <= k
           n == first - 1
           front == SubSeq(text, 1, n)
<1>1. Len(text) \in Nat /\ \A i \in 1 .. Len(text) : text[i] \in Parts
    BY LenProperties, ElementOfSeq
<1>2. OkLines(text) \in SUBSET Nat
    BY <1>1 DEF OkLines
<1>3. first \in OkLines(text)
    <2>1. \E j \in OkLines(text) : \A k \in OkLines(text) : j <= k
        BY <1>2, LeastElement
    <2>. QED
        BY <2>1
<1>4. BeforeOk(text) = Trimmed(front)
    BY DEF BeforeOk
<1> HIDE DEF first
<1>5. first \in 2 .. Len(text) - 1 /\ text[first - 1].nl /\ text[first].kind = "O"
    BY <1>3 DEF OkLines
<1>6. /\ n \in 1 .. Len(text) - 2 /\ n \in Nat /\ n + 1 = first
      /\ \A i \in 1 .. n : i \in 1 .. Len(text)
    BY <1>1, <1>5
<1>7. text[n].nl /\ text[n + 1].kind = "O"
    BY <1>5, <1>6
<1> HIDE DEF n
<1>8. /\ front \in Seq(Parts) /\ Len(front) = n /\ \A i \in 1 .. n : front[i] = text[i]
    <2>1. \A i \in 1 .. n : text[i] \in Parts
        BY <1>1, <1>6
    <2>2. /\ front \in Seq(Parts) /\ Len(front) = IF 1 <= n THEN n - 1 + 1 ELSE 0
          /\ \A i \in 1 .. n - 1 + 1 : front[i] = text[1 + i - 1]
        BY <1>6, <2>1, SubSeqProperties
    <2>3. ASSUME NEW i \in 1 .. n PROVE front[i] = text[i]
        <3>1. i \in 1 .. n - 1 + 1 /\ 1 + i - 1 = i
            BY <1>6
        <3>. QED
            BY <2>2, <3>1
    <2>4. Len(front) = n
        BY <1>6, <2>2
    <2>. QED
        BY <2>2, <2>3, <2>4
<1> HIDE DEF front
<1>9. front # <<>>
    BY <1>6, <1>8, EmptySeq
<1>10. /\ Trimmed(front) \in Seq(Parts) /\ Len(Trimmed(front)) = n
       /\ \A i \in 1 .. n : Trimmed(front)[i] =
             IF i = n THEN [front[i] EXCEPT !.nl = FALSE] ELSE front[i]
    BY <1>8, <1>9, TrimmedIs
<1>11. \A i \in 1 .. n : Trimmed(front)[i] = IF i = n THEN [text[i] EXCEPT !.nl = FALSE] ELSE text[i]
    BY <1>8, <1>10
<1>. QED
    BY <1>4, <1>6, <1>7, <1>10, <1>11

\* A text of known names only that an OK line ends, and that has the lines of an answer,
\* is one answer to the poll of a song without a title: the parts say of each other
\* where they belong, and the lines say how far back they go.
LEMMA OneAnswer ==
    ASSUME NEW text \in Seq(Parts), OkLines(text) # {},
           HasInfoLines(BeforeOk(text)), AllNamesKnown(BeforeOk(text)),
           \A i \in 1 .. Len(text) - 1 : OfInfos(text[i]) => Goes(text[i], text[i + 1])
    PROVE  \E s \in Songs \ Titled : BeforeOk(text) = Trimmed(Infos(s))
<1> DEFINE b == BeforeOk(text)
<1>1. PICK n \in 1 .. Len(text) - 2 :
          /\ text[n].nl /\ text[n + 1].kind = "O"
          /\ b \in Seq(Parts) /\ Len(b) = n
          /\ \A i \in 1 .. n : b[i] = IF i = n THEN [text[i] EXCEPT !.nl = FALSE] ELSE text[i]
    BY BeforeOkIs
<1>2. /\ Len(text) \in Nat /\ n \in Nat \ {0} /\ n \in 1 .. Len(text) /\ DOMAIN b = 1 .. n
      /\ \A i \in 1 .. n : i \in 1 .. Len(text) - 1 /\ i \in 1 .. Len(text)
    BY <1>1, LenProperties
<1>3. \A i \in 1 .. n : text[i] \in Parts
    BY <1>2, ElementOfSeq
<1>4. /\ \A i \in LineStarts(b) : b[i].kind = "name"
      /\ Cardinality(LineStarts(b)) = InfoLines
    BY DEF AllNamesKnown, HasInfoLines
<1> HIDE DEF b
<1>5. ASSUME NEW i \in 1 .. n
      PROVE  b[i].kind = text[i].kind /\ (i < n => b[i].nl = text[i].nl)
    <2>1. CASE i = n
        <3>1. b[i] = [text[i] EXCEPT !.nl = FALSE]
            BY <1>1, <2>1
        <3>2. b[i].kind = text[i].kind
            BY <1>3, <3>1 DEF Parts
        <3>. QED
            BY <1>2, <2>1, <3>2
    <2>2. CASE i # n
        BY <1>1, <2>2
    <2>. QED
        BY <2>1, <2>2
<1>6. ASSUME NEW i \in 1 .. n, i = 1 \/ text[i - 1].nl
      PROVE  text[i].kind = "name"
    <2>1. i \in LineStarts(b)
        <3>1. CASE i = 1
            BY <1>2, <3>1 DEF LineStarts
        <3>2. CASE i # 1
            <4>1. i - 1 \in 1 .. n /\ i - 1 < n
                BY <1>2, <3>2
            <4>2. b[i - 1].nl = text[i - 1].nl
                BY <1>5, <4>1
            <4>. QED
                BY <1>2, <1>6, <3>2, <4>2 DEF LineStarts
        <3>. QED
            BY <3>1, <3>2
    <2>. QED
        BY <1>4, <1>5, <2>1
<1>7. \A i \in 1 .. n : OfInfos(text[i]) => Goes(text[i], text[i + 1])
    BY <1>2
<1>8. \A i \in 1 .. n : OfInfos(text[i])
    BY <1>2, <1>6, <1>7, OnlyInfos
<1>9. PICK s \in Songs, l \in Nat \ {0} :
          l \in LastLines(s) /\ text[n] = Part("value", l, s, TRUE)
    <2>1. n \in 1 .. n
        BY <1>2
    <2>2. /\ text[n].line \in Nat \ {0} /\ text[n].song \in Songs /\ text[n].nl \in BOOLEAN
          /\ Goes(text[n], text[n + 1])
          /\ text[n] = Part(text[n].kind, text[n].line, text[n].song, text[n].nl)
        BY <1>3, <1>7, <1>8, <2>1, InfosPart, LinesOfType
    <2>3. text[n].kind = "value" /\ text[n].nl = TRUE
        BY <1>1, <2>2 DEF Goes
    <2>4. Part(NameOf(text[n].song, text[n].line + 1), text[n].line + 1, text[n].song, FALSE).kind # "O"
        BY NameOfType DEF Part
    <2>5. text[n].line \in LastLines(text[n].song)
        BY <1>1, <2>2, <2>3, <2>4 DEF Goes
    <2>. QED
        BY <2>2, <2>3, <2>5
<1>10. PICK L \in Nat \ {0, 1} : L = LinesOf(s) /\ l <= L /\ (l # L => l < InfoLines)
    BY <1>9, LinesOfType DEF LastLines
<1>11. \A i \in 1 .. 2 * L :
         Infos(s)[i] = IF i % 2 = 1 THEN Part(NameOf(s, (i + 1) \div 2), (i + 1) \div 2, s, FALSE)
                       ELSE Part("value", i \div 2, s, TRUE)
    BY <1>10, InfosType
<1>12. /\ n <= 2 * l
       /\ \A i \in 1 .. n : text[i] = Infos(s)[(2 * l - n) + i]
    <2>1. 2 * l \in 1 .. 2 * L /\ (2 * l) % 2 # 1 /\ (2 * l) \div 2 = l
        BY <1>10
    <2>2. text[n] = Infos(s)[2 * l]
        BY <1>9, <1>11, <2>1
    <2>. QED
        BY <1>2, <1>7, <1>8, <1>10, <2>1, <2>2, EndOfAnswer
<1>13. ASSUME NEW i \in 1 .. n
       PROVE  /\ (2 * l - n) + i \in 1 .. 2 * L
              /\ (2 * l - n) + i \in Nat
    BY <1>2, <1>10, <1>12
<1>14. PICK k \in Nat \ {0} : n = 2 * k
    <2> DEFINE m == (2 * l - n) + 1
    <2>1. 1 \in 1 .. n
        BY <1>2
    <2>2. m \in 1 .. 2 * L /\ m \in Nat /\ text[1] = Infos(s)[m] /\ text[1].kind = "name"
        BY <1>6, <1>12, <1>13, <2>1
    <2>3. m % 2 = 1
        <3> SUFFICES ASSUME m % 2 # 1 PROVE FALSE
            OBVIOUS
        <3> HIDE DEF m
        <3>1. text[1] = Part("value", m \div 2, s, TRUE)
            BY <1>11, <2>2
        <3>. QED
            BY <2>2, <3>1 DEF Part
    <2> HIDE DEF m
    <2>4. PICK j \in Nat : m = 2 * j + 1
        <3>1. m \div 2 \in Nat /\ m = 2 * (m \div 2) + 1
            BY <2>2, <2>3
        <3>. QED
            BY <3>1
    <2>5. l - j \in Nat \ {0} /\ n = 2 * (l - j)
        <3>1. (2 * l - n) + 1 = 2 * j + 1
            BY <2>4 DEF m
        <3>. QED
            BY <1>2, <3>1
    <2>. QED
        BY <2>5
<1>15. ASSUME NEW i \in 1 .. n
       PROVE  /\ i % 2 = 1 => text[i] = Part(NameOf(s, (l - k) + ((i + 1) \div 2)),
                                             (l - k) + ((i + 1) \div 2), s, FALSE)
              /\ i % 2 # 1 => text[i].nl = TRUE
    <2> DEFINE m == (2 * l - n) + i
    <2>1. m \in 1 .. 2 * L /\ text[i] = Infos(s)[m]
        BY <1>12, <1>13
    <2>4. m % 2 = i % 2 /\ (i % 2 = 1 => (m + 1) \div 2 = (l - k) + ((i + 1) \div 2))
        <3>1. PICK c \in Nat : c = l - k
            BY <1>12, <1>14
        <3>2. m = 2 * c + i /\ i \in Nat
            BY <1>2, <1>14, <3>1
        <3>3. (2 * c + i) % 2 = i % 2
              /\ (i % 2 = 1 => ((2 * c + i) + 1) \div 2 = c + ((i + 1) \div 2))
            BY <3>2
        <3>. QED
            BY <3>1, <3>2, <3>3
    <2> HIDE DEF m
    <2>2. CASE i % 2 = 1
        BY <1>11, <2>1, <2>2, <2>4
    <2>3. CASE i % 2 # 1
        <3>1. text[i] = Part("value", m \div 2, s, TRUE)
            BY <1>11, <2>1, <2>3, <2>4
        <3>. QED
            BY <2>3, <3>1 DEF Part
    <2>. QED
        BY <2>2, <2>3
<1>16. LineStarts(b) = {i \in 1 .. 2 * k : i % 2 = 1} /\ k = InfoLines
    <2>1. ASSUME NEW i \in 1 .. 2 * k - 1
          PROVE  b[i].nl <=> i % 2 = 0
        <3>1. i \in 1 .. n /\ i < n /\ (i % 2 = 1 \/ i % 2 = 0)
            BY <1>14
        <3>2. b[i].nl = text[i].nl
            BY <1>5, <3>1
        <3>3. CASE i % 2 = 1
            <4>1. text[i].nl = FALSE
                <5>1. text[i] = Part(NameOf(s, (l - k) + ((i + 1) \div 2)),
                                     (l - k) + ((i + 1) \div 2), s, FALSE)
                    BY <1>15, <3>1, <3>3
                <5>. QED
                    BY <5>1 DEF Part
            <4>2. i % 2 # 0
                BY <3>3
            <4>. QED
                BY <3>2, <4>1, <4>2
        <3>4. CASE i % 2 = 0
            <4>1. i % 2 # 1
                BY <3>4
            <4>2. text[i].nl = TRUE
                BY <1>15, <3>1, <4>1
            <4>. QED
                BY <3>2, <3>4, <4>2
        <3>. QED
            BY <3>1, <3>3, <3>4
    <2>2. Len(b) = 2 * k /\ b \in Seq(Parts)
        BY <1>1, <1>14
    <2>3. LineStarts(b) = {i \in 1 .. 2 * k : i % 2 = 1} /\ Cardinality(LineStarts(b)) = k
        BY <2>1, <2>2, LinesOfPairs
    <2>. QED
        BY <1>4, <2>3
<1>17. l = L
    BY <1>10, <1>12, <1>14, <1>16
<1>18. s \notin Titled
    <2> SUFFICES ASSUME s \in Titled PROVE FALSE
        OBVIOUS
    <2> DEFINE i == 2 * NameLine - 3
    <2>1. L = InfoLines + 1 /\ NameLine \in Nat /\ NameLine >= 2 /\ NameLine <= InfoLines
        BY <1>10, LinesOfType
    <2>2. /\ i \in 1 .. n /\ i \in 1 .. 2 * k /\ i % 2 = 1
          /\ (l - k) + ((i + 1) \div 2) = NameLine
        <3>1. L = InfoLines + 1 /\ l = L /\ k = InfoLines /\ n = 2 * k /\ InfoLines \in Nat
            BY <1>14, <1>16, <1>17, <2>1
        <3>2. (i + 1) \div 2 = NameLine - 1 /\ i \in 1 .. 2 * k /\ i % 2 = 1
            BY <2>1, <3>1
        <3>. QED
            BY <2>1, <3>1, <3>2
    <2> HIDE DEF i
    <2>3. text[i].kind = NameOf(s, NameLine)
        <3>1. text[i] = Part(NameOf(s, NameLine), NameLine, s, FALSE)
            BY <1>15, <2>2
        <3>. QED
            BY <3>1 DEF Part
    <2>4. text[i].kind = "title"
        BY <2>3 DEF NameOf
    <2>5. text[i].kind = "name"
        <3>1. i \in LineStarts(b)
            BY <1>16, <2>2
        <3>. QED
            BY <1>4, <1>5, <2>2, <3>1
    <2>. QED
        BY <2>4, <2>5
<1>19. n = 2 * L /\ \A i \in 1 .. n : text[i] = Infos(s)[i]
    <2>1. L = InfoLines
        BY <1>10, <1>18, LinesOfType
    <2>2. n = 2 * l
        BY <1>14, <1>16, <1>17, <2>1
    <2>3. ASSUME NEW i \in 1 .. n PROVE (2 * l - n) + i = i
        BY <1>2, <2>2
    <2>. QED
        BY <1>12, <1>17, <2>2, <2>3
<1> DEFINE t == Infos(s)
<1>20. t \in Seq(Parts) /\ Len(t) = n /\ t # <<>>
    <2>1. t \in Seq(Parts) /\ Len(t) = n
        BY <1>10, <1>19, InfosType
    <2>2. Len(t) # 0
        BY <1>2, <2>1
    <2>. QED
        BY <2>1, <2>2, EmptySeq
<1>21. \A i \in 1 .. n : text[i] = t[i]
    BY <1>19
<1> HIDE DEF t
<1>22. /\ Trimmed(t) \in Seq(Parts) /\ Len(Trimmed(t)) = n
       /\ \A i \in 1 .. n : Trimmed(t)[i] = IF i = n THEN [t[i] EXCEPT !.nl = FALSE] ELSE t[i]
    BY <1>20, TrimmedIs
<1>23. ASSUME NEW i \in 1 .. n PROVE b[i] = Trimmed(t)[i]
    <2>1. text[i] = t[i]
        BY <1>21
    <2>2. CASE i = n
        <3>1. b[i] = [text[i] EXCEPT !.nl = FALSE] /\ Trimmed(t)[i] = [t[i] EXCEPT !.nl = FALSE]
            BY <1>1, <1>22, <2>2
        <3>. QED
            BY <2>1, <3>1
    <2>3. CASE i # n
        BY <1>1, <1>22, <2>1, <2>3
    <2>. QED
        BY <2>2, <2>3
<1>24. b = Trimmed(t)
    BY <1>1, <1>22, <1>23, SeqEqual
<1>. QED
    BY <1>18, <1>24 DEF b, t

-----------------------------------------------------------------------------
(* Answers on their way *)

\* The places where answers end can be counted.
LEMMA EndingsFinite ==
    ASSUME NEW text \in Seq(Parts)
    PROVE  IsFiniteSet(Endings(text)) /\ Cardinality(Endings(text)) \in Nat
<1>1. IsFiniteSet(1 .. Len(text))
    BY LenProperties, FS_Interval
<1>2. Endings(text) \in SUBSET (1 .. Len(text))
    BY EndingsAre
<1>3. IsFiniteSet(Endings(text))
    BY <1>1, <1>2, FS_Subset
<1>. QED
    BY <1>3, FS_CardinalityType

\* An answer that arrives at the end of a text ends once.
LEMMA EndingsOfAnswer ==
    ASSUME NEW text \in Seq(Parts), NEW answer \in Seq(Parts), Len(answer) # 0,
           Endings(answer) = {Len(answer)}
    PROVE  Cardinality(Endings(text \o answer)) = Cardinality(Endings(text)) + 1
<1> DEFINE m == Len(text)
           n == Len(answer)
<1>1. /\ m \in Nat /\ n \in Nat \ {0} /\ Len(text \o answer) = m + n /\ text \o answer \in Seq(Parts)
      /\ \A i \in 1 .. m + n : (text \o answer)[i] = IF i <= m THEN text[i] ELSE answer[i - m]
    BY ConcatProperties, LenProperties
<1>2. \A i \in 1 .. n : answer[i].kind \in {"K", "ACK"} <=> i = n
    <2>1. Endings(answer) = {i \in 1 .. n : answer[i].kind \in {"K", "ACK"}}
        BY EndingsAre
    <2>. QED
        BY <2>1
<1> HIDE DEF m, n
<1>3. ASSUME NEW i \in 1 .. m + n
      PROVE  (text \o answer)[i].kind \in {"K", "ACK"}
                <=> (i \in 1 .. m /\ text[i].kind \in {"K", "ACK"}) \/ i = m + n
    <2>1. CASE i <= m
        BY <1>1, <2>1
    <2>2. CASE i > m
        <3>1. i - m \in 1 .. n /\ ~(i <= m) /\ (i - m = n <=> i = m + n)
            BY <1>1, <2>2
        <3>2. (text \o answer)[i] = answer[i - m] /\ i \notin 1 .. m
            BY <1>1, <2>2, <3>1
        <3>3. answer[i - m].kind \in {"K", "ACK"} <=> i - m = n
            BY <1>2, <3>1
        <3>. QED
            BY <3>1, <3>2, <3>3
    <2>. QED
        BY <1>1, <2>1, <2>2
<1>4. Endings(text \o answer) = Endings(text) \cup {m + n} /\ m + n \notin Endings(text)
    <2>1. /\ Endings(text \o answer) = {i \in 1 .. m + n : (text \o answer)[i].kind \in {"K", "ACK"}}
          /\ Endings(text) = {i \in 1 .. m : text[i].kind \in {"K", "ACK"}}
        BY <1>1, EndingsAre DEF m
    <2>2. m + n \in 1 .. m + n /\ m + n \notin 1 .. m /\ \A i \in 1 .. m : i \in 1 .. m + n
        BY <1>1
    <2>. QED
        BY <1>3, <2>1, <2>2
<1>. QED
    BY <1>4, EndingsFinite, FS_AddElement

\* What is left of a text ends no more answers than the text.
LEMMA EndingsOfRest ==
    ASSUME NEW text \in Seq(Parts), NEW n \in 0 .. Len(text)
    PROVE  Cardinality(Endings(SubSeq(text, n + 1, Len(text)))) <= Cardinality(Endings(text))
<1> DEFINE rest == SubSeq(text, n + 1, Len(text))
           S == Endings(rest)
           T == Endings(text)
           f == [i \in S |-> n + i]
<1>1. Len(text) \in Nat /\ n \in Nat /\ n <= Len(text)
    BY LenProperties
<1>2. /\ rest \in Seq(Parts) /\ Len(rest) = Len(text) - n
      /\ \A i \in 1 .. Len(text) - n : rest[i] = text[n + i]
    BY RestIs
<1> HIDE DEF rest
<1>3. /\ S = {i \in 1 .. Len(text) - n : rest[i].kind \in {"K", "ACK"}}
      /\ T = {i \in 1 .. Len(text) : text[i].kind \in {"K", "ACK"}}
    BY <1>2, EndingsAre
<1> HIDE DEF S, T
<1>4. ASSUME NEW i \in S PROVE n + i \in T /\ i \in Nat
    <2>1. i \in 1 .. Len(text) - n /\ rest[i].kind \in {"K", "ACK"}
        BY <1>3
    <2>2. n + i \in 1 .. Len(text) /\ text[n + i] = rest[i] /\ i \in Nat
        BY <1>1, <1>2, <2>1
    <2>. QED
        BY <1>3, <2>1, <2>2
<1>5. f \in Injection(S, T)
    <2>1. f \in [S -> T]
        BY <1>4
    <2>2. \A i, j \in S : f[i] = f[j] => i = j
        BY <1>1, <1>4
    <2>. QED
        BY <2>1, <2>2, Fun_IsInj
<1>6. IsFiniteSet(T)
    BY EndingsFinite DEF T
<1>7. Cardinality(S) <= Cardinality(T)
    BY <1>5, <1>6, FS_Injection
<1>. QED
    BY <1>7 DEF S, T, rest

-----------------------------------------------------------------------------
(* Receiving *)

\* What a String of undefined or null holds.
LEMMA NullType == Null \in Seq(Parts) /\ Linked(Null)
<1>1. Null[1] = Sign("null", FALSE) /\ Len(Null) = 1
    BY DEF Null
<1>2. Null[1] \in Parts /\ ~OfInfos(Null[1])
    BY <1>1, SignType
<1>3. Null \in Seq(Parts)
    BY <1>1, <1>2, TupleType DEF Null
<1>4. \A i \in 1 .. 1 : i = 1
    OBVIOUS
<1>5. Linked(Null)
    BY <1>1, <1>2, <1>4 DEF Linked
<1>. QED
    BY <1>3, <1>5

\* What an exception of the parser leaves in the buffer.
LEMMA LeftoverType ==
    ASSUME NEW text
    PROVE  Leftover(text) \in Seq(Parts) /\ Linked(Leftover(text))
<1> DEFINE at(i) == Sign(IF i = 1 /\ IsComplete(text) THEN "okline" ELSE "line", i < InfoLines)
<1>1. ASSUME NEW i \in 1 .. InfoLines
      PROVE  at(i) \in Parts /\ ~OfInfos(at(i))
    <2>1. (i < InfoLines) \in BOOLEAN
        OBVIOUS
    <2>2. CASE i = 1 /\ IsComplete(text)
        BY <2>1, <2>2, SignType
    <2>3. CASE ~(i = 1 /\ IsComplete(text))
        BY <2>1, <2>3, SignType
    <2>. QED
        BY <2>2, <2>3
<1> HIDE DEF at
<1>2. InfoLines \in Nat
    BY LinesOfType
<1>3. Leftover(text) = [i \in 1 .. InfoLines |-> at(i)]
    BY DEF Leftover, at
<1>4. Leftover(text) \in Seq(Parts) /\ Len(Leftover(text)) = InfoLines
    BY <1>1, <1>2, <1>3
<1>5. \A i \in 1 .. InfoLines : ~OfInfos(Leftover(text)[i])
    BY <1>1, <1>3
<1>. QED
    BY <1>4, <1>5 DEF Linked

\* The empty buffer.
LEMMA NothingLinked == <<>> \in Seq(Parts) /\ Linked(<<>>) /\ Endings(<<>>) = {}
<1>1. <<>> \in Seq(Parts) /\ Len(<<>>) = 0
    OBVIOUS
<1>2. Endings(<<>>) = {}
    <2>1. Endings(<<>>) = {i \in 1 .. 0 : <<>>[i].kind \in {"K", "ACK"}}
        BY <1>1, EndingsAre
    <2>. QED
        BY <2>1
<1>. QED
    BY <1>1, <1>2 DEF Linked

\* What becomes of the text of the buffer and a chunk: it waits, or what takes its
\* place links with anything; the infos shown are new only when it had an OK line and,
\* before it, the lines of an answer and known names.
LEMMA ScanIs ==
    ASSUME NEW text \in Seq(Parts), shown \in Seq(Parts), Scan(text)
    PROVE  /\ buffer' \in Seq(Parts) /\ shown' \in Seq(Parts)
           /\ buffer' = text \/ Linked(buffer')
           /\ \/ shown' = shown
              \/ /\ OkLines(text) # {} /\ HasInfoLines(BeforeOk(text))
                 /\ AllNamesKnown(BeforeOk(text)) /\ shown' = BeforeOk(text)
<1>1. CASE ~IsComplete(text) /\ buffer' = text /\ UNCHANGED shown
    BY <1>1
<1>2. CASE text = Ok /\ buffer' = <<>> /\ UNCHANGED shown
    BY <1>2, NothingLinked
<1>3. CASE IsComplete(text) /\ text # Ok /\ OkLines(text) = {} /\ buffer' = Null /\ UNCHANGED shown
    BY <1>3, NullType
<1>4. CASE IsComplete(text) /\ OkLines(text) # {} /\ Use(BeforeOk(text))
    <2> DEFINE b == BeforeOk(text)
    <2>1. b \in Seq(Parts)
        BY <1>4, BeforeOkIs
    <2> HIDE DEF b
    <2>2. CASE ~HasInfoLines(b) /\ buffer' = <<>> /\ UNCHANGED shown
        BY <2>2, NothingLinked
    <2>3. CASE HasInfoLines(b) /\ AllNamesKnown(b) /\ buffer' = <<>> /\ shown' = b
        BY <1>4, <2>1, <2>3, NothingLinked DEF b
    <2>4. CASE HasInfoLines(b) /\ ~AllNamesKnown(b) /\ buffer' = Leftover(b) /\ UNCHANGED shown
        BY <2>4, LeftoverType
    <2>5. Use(b)
        BY <1>4 DEF b
    <2>. QED
        BY <2>2, <2>3, <2>4, <2>5 DEF Use
<1>. QED
    BY <1>1, <1>2, <1>3, <1>4 DEF Scan

\* An empty text is not complete.
LEMMA ScanNothing == Scan(<<>>) => buffer' = <<>> /\ shown' = shown
<1>1. ~IsComplete(<<>>)
    BY DEF IsComplete, ToSet
<1>. QED
    BY <1>1, OkType DEF Scan

\* What a chunk does: what is read is the buffer and the chunk, but a greeting is dropped.
LEMMA ReceiveIs ==
    ASSUME NEW chunk \in Seq(Parts), buffer \in Seq(Parts), shown \in Seq(Parts), Receive(chunk)
    PROVE  /\ buffer' \in Seq(Parts) /\ shown' \in Seq(Parts)
           /\ buffer' = buffer \o chunk \/ Linked(buffer')
           /\ IsGreeting(buffer \o chunk) => buffer' = <<>> /\ shown' = shown
           /\ \/ shown' = shown
              \/ /\ OkLines(buffer \o chunk) # {} /\ HasInfoLines(BeforeOk(buffer \o chunk))
                 /\ AllNamesKnown(BeforeOk(buffer \o chunk))
                 /\ shown' = BeforeOk(buffer \o chunk)
<1> DEFINE text == buffer \o chunk
<1>1. text \in Seq(Parts)
    BY ConcatProperties
<1>2. CASE IsGreeting(text)
    <2>1. buffer' = <<>> /\ shown' = shown
        BY <1>2, ScanNothing DEF Receive
    <2>. QED
        BY <2>1, NothingLinked
<1>3. CASE ~IsGreeting(text)
    <2>1. Scan(text)
        BY <1>3 DEF Receive
    <2>. QED
        BY <1>1, <1>3, <2>1, ScanIs
<1>. QED
    BY <1>2, <1>3

-----------------------------------------------------------------------------
(* The text that is read *)

\* What is in the buffer and what comes after it are one stream of answers, but for
\* the greeting of a new connection, which empties the buffer before anything of that
\* connection is in it.
Unread == wire # <<>> /\ Head(wire).kind = "OK MPD "
StreamInv == sock = "connected" => Linked(wire) /\ (Unread \/ Linked(buffer \o wire))

\* The inductive invariant of the text.
TextInv == TypeOK /\ StreamInv /\ InfosAreOneAnswer

\* What the types say of the texts and the counts.
LEMMA TypedText ==
    ASSUME TypeOK
    PROVE  /\ buffer \in Seq(Parts) /\ shown \in Seq(Parts) /\ wire \in Seq(Parts)
           /\ requests \in Seq(Commands) /\ Len(requests) \in Nat
           /\ Cardinality(Endings(wire)) \in Nat
           /\ Outstanding \in Nat /\ Outstanding <= MaxOutstanding /\ MaxOutstanding \in Nat \ {0}
<1>1. wire \in Seq(Parts) /\ requests \in Seq(Commands)
    BY DEF TypeOK
<1>2. Len(requests) \in Nat /\ Cardinality(Endings(wire)) \in Nat
    BY <1>1, EndingsFinite, LenProperties
<1>. QED
    BY <1>1, <1>2, BoundsAssumption DEF TypeOK, Outstanding

\* Without a connection nothing is outstanding.
LEMMA NothingOutstanding ==
    ASSUME requests' = <<>>, wire' = <<>>
    PROVE  Outstanding' <= MaxOutstanding /\ wire' \in Seq(Parts)
           /\ requests' \in Seq(Commands)
<1>1. Cardinality(Endings(<<>>)) = 0 /\ <<>> \in Seq(Parts)
    BY NothingLinked, FS_EmptySet
<1>2. Len(requests') = 0 /\ requests' \in Seq(Commands)
    OBVIOUS
<1>3. Outstanding' = 0
    BY <1>1, <1>2 DEF Outstanding
<1>. QED
    BY <1>1, <1>2, <1>3, BoundsAssumption

\* Nothing is shown before the first answer.
LEMMA TextInit == Init => TextInv
<1> SUFFICES ASSUME Init PROVE TextInv
    OBVIOUS
<1>1. Outstanding <= MaxOutstanding
    <2>1. Cardinality(Endings(<<>>)) = 0 /\ Len(requests) = 0
        BY NothingLinked, FS_EmptySet DEF Init
    <2>2. Outstanding = 0
        BY <2>1 DEF Init, Outstanding
    <2>. QED
        BY <2>2, BoundsAssumption
<1>2. TypeOK
    <2>1. <<>> \in Seq(Parts) /\ <<>> \in Seq(Commands)
        OBVIOUS
    <2>2. commands \in 0 .. MaxCommands
        BY BoundsAssumption DEF Init
    <2>. QED
        BY <1>1, <2>1, <2>2 DEF Init, TypeOK
<1>3. StreamInv
    BY DEF Init, StreamInv
<1>4. InfosAreOneAnswer
    BY DEF Init, InfosAreOneAnswer
<1>. QED
    BY <1>2, <1>3, <1>4 DEF TextInv

\* A stream may be cut where one likes.
LEMMA Regrouped ==
    ASSUME NEW S, NEW b \in Seq(S), NEW c \in Seq(S), NEW r \in Seq(S)
    PROVE  b \o (c \o r) = (b \o c) \o r
OBVIOUS

\* A chunk: the stream is read on, or read from where the chunk ends.
LEMMA TextReceived == TextInv /\ Network => TextInv'
<1> SUFFICES ASSUME TextInv, NEW n \in 1 .. Len(wire), OnSocketDataReceive(n)
             PROVE  TextInv'
    BY DEF Network
<1> DEFINE chunk == SubSeq(wire, 1, n)
           rest == SubSeq(wire, n + 1, Len(wire))
           text == buffer \o chunk
<1>1. TypeOK /\ StreamInv /\ InfosAreOneAnswer
    BY DEF TextInv
<1>2. /\ sock = "connected" /\ Receive(chunk) /\ wire' = rest
      /\ UNCHANGED <<appActive, sock, timer, requests, song, commands, failed, escaped>>
    BY DEF OnSocketDataReceive, app, hist
<1>3. /\ buffer \in Seq(Parts) /\ shown \in Seq(Parts) /\ wire \in Seq(Parts)
      /\ Len(requests) \in Nat /\ Cardinality(Endings(wire)) \in Nat
      /\ Outstanding <= MaxOutstanding /\ MaxOutstanding \in Nat
    BY <1>1, TypedText
<1>4. Len(wire) \in Nat /\ n \in 0 .. Len(wire) /\ n \in Nat /\ n >= 1
    BY <1>3, LenProperties
<1>5. /\ chunk \in Seq(Parts) /\ Len(chunk) = n /\ \A i \in 1 .. n : chunk[i] = wire[i]
    <2>1. \A i \in 1 .. n : wire[i] \in Parts
        BY <1>3, <1>4, ElementOfSeq
    <2>2. /\ chunk \in Seq(Parts) /\ Len(chunk) = IF 1 <= n THEN n - 1 + 1 ELSE 0
          /\ \A i \in 1 .. n - 1 + 1 : chunk[i] = wire[1 + i - 1]
        BY <1>4, <2>1, SubSeqProperties
    <2>3. ASSUME NEW i \in 1 .. n PROVE chunk[i] = wire[i]
        <3>1. i \in 1 .. n - 1 + 1 /\ 1 + i - 1 = i
            BY <1>4
        <3>. QED
            BY <2>2, <3>1
    <2>4. Len(chunk) = n
        BY <1>4, <2>2
    <2>. QED
        BY <2>2, <2>3, <2>4
<1>6. rest \in Seq(Parts) /\ Linked(wire) /\ Linked(rest)
    BY <1>1, <1>2, <1>3, <1>4, RestIs, LinkedRest DEF StreamInv
<1>7. text \in Seq(Parts) /\ buffer \o wire = text \o rest
    <2>1. chunk \o rest = wire
        <3>1. 1 \in 1 .. Len(wire) + 1 /\ n \in 1 - 1 .. Len(wire) /\ Len(wire) \in n .. Len(wire)
            BY <1>4
        <3>2. chunk \o rest = SubSeq(wire, 1, Len(wire))
            BY <1>3, <3>1, ConcatAdjacentSubSeq
        <3>. QED
            BY <1>3, <3>2, SubSeqFull
    <2>. QED
        <3>1. text \in Seq(Parts)
            BY <1>3, <1>5, ConcatProperties
        <3>2. buffer \in Seq(Parts) /\ chunk \in Seq(Parts) /\ rest \in Seq(Parts)
            BY <1>3, <1>5, <1>6
        <3>3. buffer \o (chunk \o rest) = (buffer \o chunk) \o rest
            <4> DEFINE S == Parts
            <4>1. buffer \in Seq(S) /\ chunk \in Seq(S) /\ rest \in Seq(S)
                BY <3>2
            <4> HIDE DEF S, chunk, rest
            <4>. QED
                BY <4>1, Regrouped
        <3>4. buffer \o wire = text \o rest
            BY <2>1, <3>3
        <3>. QED
            BY <3>1, <3>4
<1> HIDE DEF chunk, rest
<1>8. /\ buffer' \in Seq(Parts) /\ shown' \in Seq(Parts)
      /\ buffer' = text \/ Linked(buffer')
      /\ IsGreeting(text) => buffer' = <<>> /\ shown' = shown
      /\ \/ shown' = shown
         \/ /\ OkLines(text) # {} /\ HasInfoLines(BeforeOk(text))
            /\ AllNamesKnown(BeforeOk(text)) /\ shown' = BeforeOk(text)
    BY <1>2, <1>3, <1>5, ReceiveIs
<1>9. Unread => IsGreeting(text)
    <2> SUFFICES ASSUME Unread PROVE IsGreeting(text)
        OBVIOUS
    <2>1. wire[1].kind = "OK MPD " /\ chunk[1] = wire[1]
        <3>1. Head(wire) = wire[1] /\ 1 \in 1 .. n
            BY <1>3, <1>4
        <3>2. chunk[1] = wire[1]
            BY <1>5, <3>1
        <3>. QED
            BY <3>1, <3>2 DEF Unread
    <2>2. Len(text) = Len(buffer) + n /\ text[Len(buffer) + 1] = chunk[1] /\ Len(buffer) \in Nat
        <3>1. /\ Len(buffer) \in Nat /\ Len(text) = Len(buffer) + n
              /\ \A i \in 1 .. Len(buffer) + n :
                    text[i] = IF i <= Len(buffer) THEN buffer[i] ELSE chunk[i - Len(buffer)]
            BY <1>3, <1>5, ConcatProperties, LenProperties
        <3>2. /\ Len(buffer) + 1 \in 1 .. Len(buffer) + n /\ ~(Len(buffer) + 1 <= Len(buffer))
              /\ (Len(buffer) + 1) - Len(buffer) = 1
            BY <1>4, <3>1
        <3>. QED
            BY <3>1, <3>2
    <2>3. Len(buffer) + 1 \in DOMAIN text
        BY <1>4, <1>7, <2>2, LenProperties
    <2>. QED
        BY <2>1, <2>2, <2>3 DEF IsGreeting, ToSet
<1>10. ~IsGreeting(text) => Linked(text \o rest)
    BY <1>1, <1>2, <1>7, <1>9 DEF StreamInv
<1>11. StreamInv'
    <2>1. Linked(buffer' \o wire')
        <3>1. CASE Linked(buffer')
            BY <1>2, <1>6, <1>8, <3>1, LinkedConcat
        <3>2. CASE ~Linked(buffer')
            <4>1. buffer' = text /\ ~IsGreeting(text)
                BY <1>8, <3>2, NothingLinked
            <4>. QED
                BY <1>2, <1>10, <4>1
        <3>. QED
            BY <3>1, <3>2
    <2>. QED
        BY <1>2, <1>6, <2>1 DEF StreamInv
<1>12. InfosAreOneAnswer'
    <2>1. CASE shown' = shown
        BY <1>1, <2>1 DEF InfosAreOneAnswer
    <2>2. CASE shown' # shown
        <3>1. /\ OkLines(text) # {} /\ HasInfoLines(BeforeOk(text)) /\ AllNamesKnown(BeforeOk(text))
              /\ shown' = BeforeOk(text) /\ Linked(text \o rest)
            BY <1>8, <1>10, <2>2
        <3>2. ASSUME NEW i \in 1 .. Len(text) - 1, OfInfos(text[i])
              PROVE  Goes(text[i], text[i + 1])
            <4>1. /\ Len(text) \in Nat /\ Len(rest) \in Nat /\ Len(text \o rest) = Len(text) + Len(rest)
                  /\ \A k \in 1 .. Len(text) + Len(rest) :
                        (text \o rest)[k] = IF k <= Len(text) THEN text[k] ELSE rest[k - Len(text)]
                BY <1>6, <1>7, ConcatProperties, LenProperties
            <4>2. /\ i \in 1 .. Len(text) + Len(rest) /\ i <= Len(text)
                  /\ i + 1 \in 1 .. Len(text) + Len(rest) /\ i + 1 <= Len(text)
                BY <4>1
            <4>3. (text \o rest)[i] = text[i] /\ (text \o rest)[i + 1] = text[i + 1]
                BY <4>1, <4>2
            <4>. QED
                BY <3>1, <3>2, <4>1, <4>2, <4>3 DEF Linked
        <3>3. \E s \in Songs \ Titled : BeforeOk(text) = Trimmed(Infos(s))
            BY <1>7, <3>1, <3>2, OneAnswer
        <3>. QED
            BY <3>1, <3>3 DEF InfosAreOneAnswer
    <2>. QED
        BY <2>1, <2>2
<1>13. TypeOK'
    <2>1. Outstanding' <= MaxOutstanding
        <3>1. Cardinality(Endings(rest)) <= Cardinality(Endings(wire))
            BY <1>3, <1>4, EndingsOfRest DEF rest
        <3>2. Cardinality(Endings(rest)) \in Nat
            BY <1>6, EndingsFinite
        <3>3. Outstanding' = Len(requests) + Cardinality(Endings(rest))
            BY <1>2 DEF Outstanding
        <3>4. Outstanding = Len(requests) + Cardinality(Endings(wire))
            BY DEF Outstanding
        <3>. QED
            BY <1>3, <3>1, <3>2, <3>3, <3>4
    <2>. QED
        BY <1>1, <1>2, <1>6, <1>8, <2>1 DEF TypeOK
<1>. QED
    BY <1>11, <1>12, <1>13 DEF TextInv

\* What leaves the stream, the infos shown and the connection's being there as they
\* are keeps all but the counts.
LEMMA TextUntouched ==
    ASSUME TextInv, UNCHANGED <<buffer, shown, wire>>, sock' = "connected" => sock = "connected"
    PROVE  StreamInv' /\ InfosAreOneAnswer'
BY DEF TextInv, StreamInv, Unread, InfosAreOneAnswer

\* A connection that ends takes its stream with it.
LEMMA TextDisconnected ==
    ASSUME TextInv, sock' # "connected", UNCHANGED <<buffer, shown, song, commands>>,
           {appActive', timer', escaped', failed'} \subseteq BOOLEAN,
           sock' \in {"closed", "connecting"}, requests' = <<>>, wire' = <<>>
    PROVE  TextInv'
<1>1. Outstanding' <= MaxOutstanding /\ wire' \in Seq(Parts)
      /\ requests' \in Seq(Commands)
    BY NothingOutstanding
<1>2. TypeOK'
    BY <1>1 DEF TextInv, TypeOK
<1>. QED
    BY <1>2 DEF TextInv, StreamInv, InfosAreOneAnswer

\* The steps of the connection that end or begin an attempt.
LEMMA TextConnection ==
    ASSUME TextInv, OnAppActivate \/ OnAppDeActivate \/ AttemptFails \/ OnSocketClosed
    PROVE  TextInv'
<1>1. /\ TypeOK /\ {appActive, timer, escaped, failed} \subseteq BOOLEAN
      /\ sock \in {"closed", "connecting", "connected"}
      /\ sock # "connected" => requests = <<>> /\ wire = <<>>
    BY DEF TextInv, TypeOK
<1>2. CASE OnAppActivate
    <2>1. /\ UNCHANGED <<timer, buffer, shown, requests, wire, song, commands, failed>>
          /\ appActive' = TRUE /\ escaped' = FALSE
          /\ sock' = IF sock = "connected" THEN sock ELSE "connecting"
        BY <1>2 DEF OnAppActivate, Connect, link
    <2>2. Outstanding' = Outstanding
        BY <2>1 DEF Outstanding
    <2>3. TypeOK'
        BY <1>1, <2>1, <2>2 DEF TypeOK
    <2>4. sock' = "connected" => sock = "connected"
        BY <2>1
    <2>. QED
        BY <2>1, <2>3, <2>4, TextUntouched DEF TextInv
<1>3. CASE OnAppDeActivate
    BY <1>1, <1>3, TextDisconnected DEF OnAppDeActivate, Close
<1>4. CASE AttemptFails
    BY <1>1, <1>4, TextDisconnected DEF AttemptFails, link
<1>5. CASE OnSocketClosed
    BY <1>1, <1>5, TextDisconnected DEF OnSocketClosed, hist
<1>. QED
    BY <1>2, <1>3, <1>4, <1>5

\* A new connection begins with its greeting.
LEMMA TextConnected == TextInv /\ OnSocketConnected => TextInv'
<1> SUFFICES ASSUME TextInv, OnSocketConnected PROVE TextInv'
    OBVIOUS
<1>1. /\ requests' = <<"infos">> /\ wire' = Greeting /\ sock' = "connected"
      /\ timer' = TRUE /\ failed' = FALSE
      /\ UNCHANGED <<appActive, buffer, shown, song, commands, escaped>>
    BY DEF OnSocketConnected
<1>2. Outstanding' <= MaxOutstanding
    <2>1. Cardinality(Endings(Greeting)) = 0 /\ Len(requests') = 1
        BY <1>1, GreetingType, FS_EmptySet
    <2>2. Outstanding' = 1
        BY <1>1, <2>1 DEF Outstanding
    <2>. QED
        BY <2>2, BoundsAssumption
<1>3. requests' \in Seq(Commands) /\ wire' \in Seq(Parts)
    <2> DEFINE S == Commands
    <2>1. "infos" \in S
        BY DEF Commands
    <2> HIDE DEF S
    <2>2. <<"infos">> \in Seq(S)
        BY <2>1, TupleType
    <2>3. requests' \in Seq(S)
        BY <1>1, <2>2
    <2>4. wire' \in Seq(Parts)
        BY <1>1, GreetingType
    <2>. QED
        BY <2>3, <2>4 DEF S
<1>4. TypeOK'
    BY <1>1, <1>2, <1>3 DEF TextInv, TypeOK
<1>5. StreamInv'
    BY <1>1, GreetingType DEF StreamInv, Unread
<1>6. InfosAreOneAnswer'
    BY <1>1 DEF TextInv, InfosAreOneAnswer
<1>. QED
    BY <1>4, <1>5, <1>6 DEF TextInv

\* A command asks for one more answer.
LEMMA TextCommand ==
    ASSUME TextInv, NEW command \in Commands, Outstanding < MaxOutstanding,
           SendCommandToSocket(command), commands' \in 0 .. MaxCommands,
           UNCHANGED <<appActive, sock, timer, buffer, shown, wire, song, failed, escaped>>
    PROVE  TextInv'
<1>1. /\ requests \in Seq(Commands) /\ Len(requests) \in Nat
      /\ Cardinality(Endings(wire)) \in Nat /\ Outstanding \in Nat /\ MaxOutstanding \in Nat
    BY TypedText DEF TextInv
<1>2. /\ requests' \in Seq(Commands)
      /\ Len(requests') \in {Len(requests), Len(requests) + 1}
      /\ sock # "connected" => requests' = requests
    BY <1>1, AppendProperties DEF SendCommandToSocket
<1>3. Outstanding' <= MaxOutstanding
    <2>1. /\ Outstanding' = Len(requests') + Cardinality(Endings(wire))
          /\ Outstanding = Len(requests) + Cardinality(Endings(wire))
        BY DEF Outstanding
    <2>. QED
        BY <1>1, <1>2, <2>1
<1>4. TypeOK'
    BY <1>2, <1>3 DEF TextInv, TypeOK
<1>. QED
    BY <1>4, TextUntouched DEF TextInv

\* MPD answers the oldest request, at the end of the stream.
LEMMA TextAnswered == TextInv /\ Mpd => TextInv'
<1> SUFFICES ASSUME TextInv, NEW s \in Songs, MpdAnswers(s) PROVE TextInv'
    BY DEF Mpd
<1> DEFINE answer == Answer(Head(requests), s)
<1>1. /\ sock = "connected" /\ requests # <<>> /\ song' = s
      /\ wire' = wire \o answer /\ requests' = Tail(requests)
      /\ UNCHANGED <<appActive, sock, timer, buffer, shown, commands, failed, escaped>>
    BY DEF MpdAnswers, app, hist
<1>2. /\ answer \in Seq(Parts) /\ Linked(answer) /\ Len(answer) # 0
      /\ Endings(answer) = {Len(answer)}
    <2>1. requests \in Seq(Commands)
        BY TypedText DEF TextInv
    <2>2. Head(requests) \in Commands
        BY <1>1, <2>1
    <2>. QED
        BY <2>2, AnswerType
<1> HIDE DEF answer
<1>3. /\ requests \in Seq(Commands) /\ Len(requests) \in Nat
      /\ Cardinality(Endings(wire)) \in Nat /\ Outstanding <= MaxOutstanding /\ MaxOutstanding \in Nat
      /\ wire \in Seq(Parts) /\ buffer \in Seq(Parts)
    BY TypedText DEF TextInv
<1>4. /\ requests' \in Seq(Commands) /\ Len(requests') = Len(requests) - 1
    BY <1>1, <1>3, HeadTailProperties
<1>5. wire' \in Seq(Parts) /\ Linked(wire')
    BY <1>1, <1>2, <1>3, LinkedConcat, ConcatProperties DEF TextInv, StreamInv
<1>6. Outstanding' <= MaxOutstanding
    <2>1. Cardinality(Endings(wire')) = Cardinality(Endings(wire)) + 1
        BY <1>1, <1>2, <1>3, EndingsOfAnswer
    <2>2. /\ Outstanding' = Len(requests') + Cardinality(Endings(wire'))
          /\ Outstanding = Len(requests) + Cardinality(Endings(wire))
        BY DEF Outstanding
    <2>. QED
        BY <1>3, <1>4, <2>1, <2>2
<1>7. TypeOK'
    BY <1>1, <1>4, <1>5, <1>6 DEF TextInv, TypeOK
<1>8. Unread' \/ Linked((buffer \o wire)')
    <2>1. CASE Unread
        <3>1. wire' # <<>> /\ Head(wire') = Head(wire)
            <4>1. wire # <<>> /\ Len(wire) \in Nat \ {0} /\ Head(wire) = wire[1]
                <5>1. wire # <<>>
                    BY <2>1 DEF Unread
                <5>2. wire \in Seq(Parts)
                    BY <1>3
                <5>. QED
                    BY <5>1, <5>2
            <4>2. Len(wire') = Len(wire) + Len(answer) /\ Len(answer) \in Nat /\ wire'[1] = wire[1]
                <5>1. /\ Len(answer) \in Nat /\ Len(wire') = Len(wire) + Len(answer)
                      /\ \A i \in 1 .. Len(wire) + Len(answer) :
                            wire'[i] = IF i <= Len(wire) THEN wire[i] ELSE answer[i - Len(wire)]
                    BY <1>1, <1>2, <1>3, ConcatProperties, LenProperties
                <5>2. 1 \in 1 .. Len(wire) + Len(answer) /\ 1 <= Len(wire)
                    BY <4>1, <5>1
                <5>. QED
                    BY <5>1, <5>2
            <4>3. Len(wire') # 0
                BY <4>1, <4>2
            <4>4. wire' # <<>>
                BY <1>5, <4>3
            <4>. QED
                BY <1>5, <4>1, <4>2, <4>4
        <3>. QED
            BY <2>1, <3>1 DEF Unread
    <2>2. CASE ~Unread
        <3>1. Linked(buffer \o wire)
            BY <1>1, <2>2 DEF TextInv, StreamInv
        <3>2. (buffer \o wire)' = (buffer \o wire) \o answer
            <4>1. buffer' \o wire' = buffer \o (wire \o answer)
                BY <1>1
            <4>2. buffer \o (wire \o answer) = (buffer \o wire) \o answer
                <5> DEFINE S == Parts
                <5>1. buffer \in Seq(S) /\ wire \in Seq(S) /\ answer \in Seq(S)
                    BY <1>2, <1>3
                <5> HIDE DEF S
                <5>. QED
                    BY <5>1, Regrouped
            <4>. QED
                BY <4>1, <4>2
        <3>3. buffer \o wire \in Seq(Parts)
            BY <1>3, ConcatProperties
        <3>. QED
            BY <1>2, <3>1, <3>2, <3>3, LinkedConcat
    <2>. QED
        BY <2>1, <2>2
<1>9. StreamInv'
    BY <1>5, <1>8 DEF StreamInv
<1>10. InfosAreOneAnswer'
    BY <1>1 DEF TextInv, InfosAreOneAnswer
<1>. QED
    BY <1>7, <1>9, <1>10 DEF TextInv

\* A step of nobody.
LEMMA TextStutter == TextInv /\ UNCHANGED vars => TextInv'
<1> SUFFICES ASSUME TextInv, UNCHANGED vars PROVE TextInv'
    OBVIOUS
<1>1. UNCHANGED <<appActive, sock, timer, buffer, shown, requests, wire, song, commands, failed, escaped>>
    BY DEF vars, app, link, hist
<1>2. Outstanding' = Outstanding
    BY <1>1 DEF Outstanding
<1>3. TypeOK'
    BY <1>1, <1>2 DEF TextInv, TypeOK
<1>. QED
    BY <1>1, <1>3, TextUntouched DEF TextInv

\* Every step keeps the invariant of the text.
LEMMA TextInductive == Spec => []TextInv
<1>1. TextInv /\ [Next]_vars => TextInv'
    <2> SUFFICES ASSUME TextInv, [Next]_vars PROVE TextInv'
        OBVIOUS
    <2>1. CASE Tick
        <3>1. Outstanding < MaxOutstanding /\ SendCommandToSocket("infos")
              /\ UNCHANGED <<appActive, sock, timer, buffer, shown, wire, song, commands, failed, escaped>>
            BY <2>1 DEF Tick, app, hist
        <3>2. commands' \in 0 .. MaxCommands
            BY <3>1 DEF TextInv, TypeOK
        <3>3. "infos" \in Commands
            BY DEF Commands
        <3>. QED
            BY <3>1, <3>2, <3>3, TextCommand
    <2>2. ASSUME NEW command \in Commands \ {"infos"}, UserCommand(command)
          PROVE  TextInv'
        <3>1. /\ Outstanding < MaxOutstanding /\ SendCommandToSocket(command)
              /\ commands < MaxCommands /\ commands' = commands + 1
              /\ UNCHANGED <<appActive, sock, timer, buffer, shown, wire, song, failed, escaped>>
            BY <2>2 DEF UserCommand, app
        <3>2. commands' \in 0 .. MaxCommands
            BY <3>1, BoundsAssumption DEF TextInv, TypeOK
        <3>. QED
            BY <3>1, <3>2, TextCommand
    <2>. QED
        BY <2>1, <2>2, TextConnection, TextConnected, TextReceived, TextAnswered, TextStutter DEF Next
<1>. QED
    BY TextInit, <1>1, PTL DEF Spec

\* Every variable keeps its type, for any length of an answer and any number of commands;
\* nothing of a connection outlives it but the buffer (close, onSocketClosed), and no more
\* is outstanding than the bound allows.
THEOREM MpdTypes == Spec => []TypeOK
<1>1. TextInv => TypeOK
    BY DEF TextInv
<1>. QED
    BY <1>1, TextInductive, PTL

\* The infos shown are one whole answer to the poll, of a song without a title, wherever
\* the network cuts and joins what MPD wrote, and whatever a connection, a greeting,
\* another answer or an exception left in the buffer (onSocketDataReceive).
THEOREM InfosOfOneAnswer == Spec => []InfosAreOneAnswer
<1>1. TextInv => InfosAreOneAnswer
    BY DEF TextInv
<1>. QED
    BY <1>1, TextInductive, PTL

-----------------------------------------------------------------------------
(* The connection and its polling *)

(* The missing link between the two properties: an attempt that goes on    *)
(* while the application is not active is one that close() let escape, or  *)
(* the constructor's.                                                      *)
AttemptEscaped == (sock = "connecting" /\ ~appActive) => escaped

ControlInv ==
    /\ appActive \in BOOLEAN
    /\ timer \in BOOLEAN
    /\ DownOnlyAfterFailure
    /\ PollsWhileConnected
    /\ AttemptEscaped

USE DEF DownOnlyAfterFailure, PollsWhileConnected, AttemptEscaped

LEMMA ControlInit == Init => ControlInv
BY DEF Init, ControlInv

(* The parts of a step that leave the application, its socket and the      *)
(* histories alone: data, polls, commands and MPD.                         *)
LEMMA ControlUntouched ==
    ASSUME ControlInv, UNCHANGED <<appActive, sock, timer, failed, escaped>>
    PROVE  ControlInv'
BY DEF ControlInv

LEMMA ControlNext == ControlInv /\ [Next]_vars => ControlInv'
<1> SUFFICES ASSUME ControlInv, [Next]_vars
             PROVE  ControlInv'
    OBVIOUS
<1>1. CASE OnAppActivate
    BY <1>1 DEF OnAppActivate, Connect, ControlInv, hist, link
<1>2. CASE OnAppDeActivate
    BY <1>2 DEF OnAppDeActivate, Close, ControlInv
<1>3. CASE OnSocketConnected
    BY <1>3 DEF OnSocketConnected, ControlInv
<1>4. CASE AttemptFails
    BY <1>4 DEF AttemptFails, ControlInv
<1>5. CASE OnSocketClosed
    BY <1>5 DEF OnSocketClosed, ControlInv, hist
<1>6. CASE Network
    BY <1>6, ControlUntouched DEF Network, OnSocketDataReceive, app, hist
<1>7. CASE Tick
    BY <1>7, ControlUntouched DEF Tick, app, hist
<1>8. CASE \E command \in Commands \ {"infos"} : UserCommand(command)
    BY <1>8, ControlUntouched DEF UserCommand, app
<1>9. CASE Mpd
    BY <1>9, ControlUntouched DEF Mpd, MpdAnswers, app, hist
<1>10. CASE UNCHANGED vars
    BY <1>10, ControlUntouched DEF vars, app, hist
<1>. QED
    BY <1>1, <1>2, <1>3, <1>4, <1>5, <1>6, <1>7, <1>8, <1>9, <1>10 DEF Next

LEMMA ControlSpec == Spec => []ControlInv
<1>. QED
    BY ControlInit, ControlNext, PTL DEF Spec

(* The active application has no connection and makes no attempt only      *)
(* after an attempt failed (onAppActivate, onSocketClosed).                *)
THEOREM ConnectionIsTakenUp == Spec => []DownOnlyAfterFailure
<1>1. ControlInv => DownOnlyAfterFailure
    BY DEF ControlInv
<1>. QED
    BY <1>1, ControlSpec, PTL

(* Every connection is polled, and an application that is not active polls *)
(* only over what an attempt made that close() did not end.                *)
THEOREM PollingFollowsTheConnection == Spec => []PollsWhileConnected
<1>1. ControlInv => PollsWhileConnected
    BY DEF ControlInv
<1>. QED
    BY <1>1, ControlSpec, PTL

=============================================================================
