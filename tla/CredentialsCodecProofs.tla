----------------------- MODULE CredentialsCodecProofs -----------------------
(***************************************************************************)
(* The Raspberry Pi reads what was typed in, for every set of codes and    *)
(* credentials of every length: each of the three layers of the message    *)
(* undoes the one the application put on.  At the end, the names of the    *)
(* access points, which are texts too: when two of them are the same.      *)
(***************************************************************************)
EXTENDS CredentialsCodec, AccessPoint, SequenceTheorems, TLAPS

\* The rotation in the map and the rotation of codes are inverse, and neither
\* leaves the map.
LEMMA RotationInverse ==
    ASSUME NEW c \in Nat
    PROVE  /\ Rot47Code(Rotate(c)) = c
           /\ Rotate(c) \in {c} \cup 33..126
<1>1. CASE c \in 33..79
  <2>1. IndexOf(c) = c - 33 BY <1>1 DEF IndexOf
  <2>2. Rotate(c) = c + 47 BY <1>1, <2>1 DEF Rotate
  <2>3. Rot47Code(c + 47) = c BY <1>1 DEF Rot47Code
  <2> QED BY <1>1, <2>2, <2>3
<1>2. CASE c \in 80..126
  <2>1. IndexOf(c) = c - 33 BY <1>2 DEF IndexOf
  <2>2. Rotate(c) = c - 47 BY <1>2, <2>1 DEF Rotate
  <2>3. Rot47Code(c - 47) = c BY <1>2 DEF Rot47Code
  <2> QED BY <1>2, <2>2, <2>3
<1>3. CASE c \notin 33..126
  <2>1. Rotate(c) = c BY <1>3 DEF Rotate, IndexOf
  <2>2. Rot47Code(c) = c BY <1>3 DEF Rot47Code
  <2> QED BY <2>1, <2>2
<1> QED BY <1>1, <1>2, <1>3

\* The two implementations of ROT47 undo each other on a whole text.
LEMMA EncryptionInverse ==
    ASSUME NEW text \in Seq(Nat)
    PROVE  /\ EncryptToRot47(text) \in Seq(Nat)
           /\ Rot47(EncryptToRot47(text)) = text
<1> DEFINE e == EncryptToRot47(text)
<1>1. \A i \in 1..Len(text) : Rotate(text[i]) \in Nat /\ Rot47Code(Rotate(text[i])) = text[i]
  <2> TAKE i \in 1..Len(text)
  <2>1. text[i] \in Nat OBVIOUS
  <2>2. Rotate(text[i]) \in {text[i]} \cup 33..126 BY <2>1, RotationInverse
  <2>3. Rot47Code(Rotate(text[i])) = text[i] BY <2>1, RotationInverse
  <2>4. \A c \in Nat : \A r \in {c} \cup 33..126 : r \in Nat OBVIOUS
  <2>5. Rotate(text[i]) \in Nat BY <2>1, <2>2, <2>4
  <2> QED BY <2>3, <2>5
<1>2. e \in Seq(Nat) /\ Len(e) = Len(text) /\ \A i \in 1..Len(text) : e[i] = Rotate(text[i])
  BY <1>1 DEF EncryptToRot47
<1>3. Rot47(e) = [i \in 1..Len(text) |-> text[i]]
  BY <1>1, <1>2 DEF Rot47
<1> QED BY <1>2, <1>3

\* Concatenation of texts, an element of each part at a time.
LEMMA ConcatIs ==
    ASSUME NEW s1 \in Seq(Nat), NEW s2 \in Seq(Nat)
    PROVE  /\ s1 \o s2 \in Seq(Nat) /\ Len(s1 \o s2) = Len(s1) + Len(s2)
           /\ \A i \in 1..Len(s1) : (s1 \o s2)[i] = s1[i]
           /\ \A i \in 1..Len(s2) : (s1 \o s2)[Len(s1) + i] = s2[i]
<1>1. \A i \in 1 .. Len(s1) + Len(s2) :
          (s1 \o s2)[i] = IF i <= Len(s1) THEN s1[i] ELSE s2[i - Len(s1)]
  BY ConcatProperties
<1>2. Len(s1) \in Nat /\ Len(s2) \in Nat
  OBVIOUS
<1>3. \A i \in 1..Len(s1) : (s1 \o s2)[i] = s1[i]
  BY <1>1, <1>2
<1>4. \A i \in 1..Len(s2) : (s1 \o s2)[Len(s1) + i] = s2[i]
  <2> TAKE i \in 1..Len(s2)
  <2> DEFINE q == Len(s1) + i
  <2>1. q \in 1 .. Len(s1) + Len(s2) /\ ~(q <= Len(s1)) /\ q - Len(s1) = i BY <1>2
  <2> HIDE DEF q
  <2>2. (s1 \o s2)[q] = s2[i] BY <2>1, <1>1
  <2> QED BY <2>2 DEF q
<1> QED BY <1>3, <1>4, ConcatProperties

\* A part of one sequence that has the elements of another is the other.
LEMMA SubSeqIs ==
    ASSUME NEW seq \in Seq(Nat), NEW text \in Seq(Nat), NEW k \in Nat,
           k + Len(text) <= Len(seq), \A i \in 1..Len(text) : seq[i + k] = text[i]
    PROVE  SubSeq(seq, k + 1, k + Len(text)) = text
<1> DEFINE part == SubSeq(seq, k + 1, k + Len(text))
<1>1. /\ part \in Seq(Nat) /\ Len(part) = Len(text)
      /\ \A i \in 1..Len(text) : part[i] = seq[i + k]
  <2>1. \A i \in k + 1 .. k + Len(text) : seq[i] \in Nat OBVIOUS
  <2>2. \A i \in 1..Len(text) : (k + 1) + i - 1 = i + k OBVIOUS
  <2> QED BY <2>1, <2>2, SubSeqProperties
<1> QED BY <1>1, SeqEqual

\* The greedy group is what is between the two markers, whatever markers it holds.
LEMMA GroupOfMarked ==
    ASSUME NEW text \in Seq(Nat)
    PROVE  Group(Marker \o text \o Marker) = text
<1> DEFINE m == Marker \o text \o Marker
           last == Len(text) + 5
<1>1. Marker \in Seq(Nat) /\ Len(Marker) = 4 /\ \A i \in 1..4 : Marker[i] = 126
  BY DEF Marker
<1> DEFINE n == Marker \o text
<1>a. /\ n \in Seq(Nat) /\ Len(n) = Len(text) + 4
      /\ \A i \in 1..4 : n[i] = 126
      /\ \A i \in 1..Len(text) : n[4 + i] = text[i]
  <2>1. /\ n \in Seq(Nat) /\ Len(n) = Len(Marker) + Len(text)
        /\ \A i \in 1..Len(Marker) : n[i] = Marker[i]
        /\ \A i \in 1..Len(text) : n[Len(Marker) + i] = text[i]
    <3>1. Marker \in Seq(Nat) BY <1>1
    <3> QED BY <3>1, ConcatIs
  <2> HIDE DEF n
  <2>2. Len(Marker) = 4 /\ \A i \in 1..4 : Marker[i] = 126 BY <1>1
  <2>3. 4 + Len(text) = Len(text) + 4 OBVIOUS
  <2> QED BY <2>1, <2>2, <2>3
<1> HIDE DEF n
<1>b. /\ n \o Marker \in Seq(Nat) /\ Len(n \o Marker) = Len(n) + Len(Marker)
      /\ \A i \in 1..Len(n) : (n \o Marker)[i] = n[i]
      /\ \A i \in 1..Len(Marker) : (n \o Marker)[Len(n) + i] = Marker[i]
  <2>1. Marker \in Seq(Nat) /\ n \in Seq(Nat) BY <1>1, <1>a
  <2> QED BY <2>1, ConcatIs
<1>c. m = n \o Marker
  BY DEF n
<1> HIDE DEF m
<1>2. /\ m \in Seq(Nat) /\ Len(m) = Len(text) + 8
      /\ \A i \in 1..4 : m[i] = 126
      /\ \A i \in 1..Len(text) : m[i + 4] = text[i]
      /\ \A i \in 1..4 : m[i + 4 + Len(text)] = 126
  <2>1. \A i \in 1..4 : m[i] = 126 BY <1>a, <1>b, <1>c
  <2>2. \A i \in 1..Len(text) : m[i + 4] = text[i]
    <3> TAKE i \in 1..Len(text)
    <3>1. i + 4 = 4 + i /\ 4 + i \in 1..Len(n) BY <1>a
    <3> QED BY <3>1, <1>a, <1>b, <1>c
  <2>3. \A i \in 1..4 : m[i + 4 + Len(text)] = 126
    <3> TAKE i \in 1..4
    <3>1. i + 4 + Len(text) = Len(n) + i BY <1>a
    <3> QED BY <3>1, <1>1, <1>b, <1>c
  <2>4. Len(n) + Len(Marker) = Len(text) + 8 BY <1>1, <1>a
  <2> QED BY <2>1, <2>2, <2>3, <2>4, <1>b, <1>c
<1>3. Markers(m) \subseteq 1..last
  BY <1>2 DEF Markers
<1>4. 1 \in Markers(m)
  BY <1>2 DEF Markers
<1>5. last \in Markers(m)
  <2>1. \A k \in 0..3 : m[last + k] = 126
    <3> TAKE k \in 0..3
    <3>1. k + 1 \in 1..4 /\ last + k = (k + 1) + 4 + Len(text) OBVIOUS
    <3> QED BY <3>1, <1>2
  <2> QED BY <2>1, <1>2 DEF Markers
<1>6. (CHOOSE i \in Markers(m) : \A j \in Markers(m) : i <= j) = 1
  BY <1>3, <1>4
<1>7. (CHOOSE i \in Markers(m) : \A j \in Markers(m) : i >= j) = last
  BY <1>3, <1>5
<1>8. Group(m) = SubSeq(m, 5, Len(text) + 4)
  <2>1. Group(m) = SubSeq(m, 1 + 4, last - 1) BY <1>6, <1>7 DEF Group
  <2> QED BY <2>1
<1>9. SubSeq(m, 5, Len(text) + 4) = text
  BY <1>2, SubSeqIs
<1> QED BY <1>8, <1>9 DEF m, n

\* A text without a quote, and one that may follow a quote.
NoQuote(text) == \A i \in 1..Len(text) : text[i] # Quote

\* NextQuote is the only first quote.
LEMMA NextQuoteIs ==
    ASSUME NEW text \in Seq(Nat), NEW from \in Nat \ {0}, NEW k \in from..Len(text),
           text[k] = Quote, \A j \in from .. k - 1 : text[j] # Quote
    PROVE  NextQuote(text, from) = k
<1> DEFINE P(i) == text[i] = Quote /\ \A j \in from .. i - 1 : text[j] # Quote
<1>1. P(k) OBVIOUS
<1>2. ASSUME NEW i \in from..Len(text), P(i) PROVE i = k
  <2>1. ~(i < k) BY <1>2
  <2>2. ~(k < i) BY <1>2
  <2> QED BY <2>1, <2>2
<1>3. (CHOOSE i \in from..Len(text) : P(i)) = k BY <1>1, <1>2
<1> QED BY <1>3 DEF NextQuote

\* Where the strings and the quotes of the object are.
LEMMA JsonShape ==
    ASSUME NEW s \in Seq(Nat), NEW p \in Seq(Nat)
    PROVE  LET t == Json(s, p)
           IN  /\ t \in Seq(Nat) /\ Len(t) = Len(s) + Len(p) + 7
               /\ \A i \in 1..Len(s) : t[i + 2] = s[i]
               /\ t[Len(s) + 3] = Quote
               /\ \A i \in 1..Len(p) : t[i + (Len(s) + 5)] = p[i]
               /\ t[Len(s) + Len(p) + 6] = Quote
<1> DEFINE a == <<123, Quote>>
           b == <<Quote, Comma, Quote>>
           c == <<Quote, 125>>
           t1 == a \o s
           t2 == t1 \o b
           t3 == t2 \o p
           t4 == t3 \o c
<1>1. /\ a \in Seq(Nat) /\ Len(a) = 2
      /\ b \in Seq(Nat) /\ Len(b) = 3 /\ b[1] = Quote
      /\ c \in Seq(Nat) /\ Len(c) = 2 /\ c[1] = Quote
  BY DEF Quote, Comma
<1>2. Len(s) \in Nat /\ Len(p) \in Nat
  OBVIOUS
<1> HIDE DEF a, b, c
<1>3. /\ t1 \in Seq(Nat) /\ Len(t1) = Len(s) + 2
      /\ \A i \in 1..Len(s) : t1[2 + i] = s[i]
  <2>1. /\ t1 \in Seq(Nat) /\ Len(t1) = Len(a) + Len(s)
        /\ \A i \in 1..Len(a) : t1[i] = a[i]
        /\ \A i \in 1..Len(s) : t1[Len(a) + i] = s[i]
    BY <1>1, ConcatIs
  <2> HIDE DEF t1
  <2>2. Len(a) = 2 /\ 2 + Len(s) = Len(s) + 2 BY <1>1
  <2> QED BY <2>1, <2>2
<1> HIDE DEF t1
<1>4. /\ t2 \in Seq(Nat) /\ Len(t2) = Len(s) + 5
      /\ \A i \in 1..Len(t1) : t2[i] = t1[i]
      /\ t2[Len(t1) + 1] = Quote
  <2>1. /\ t2 \in Seq(Nat) /\ Len(t2) = Len(t1) + Len(b)
        /\ \A i \in 1..Len(t1) : t2[i] = t1[i]
        /\ \A i \in 1..Len(b) : t2[Len(t1) + i] = b[i]
    BY <1>1, <1>3, ConcatIs
  <2> HIDE DEF t2
  <2>2. Len(b) = 3 /\ 1 \in 1..Len(b) /\ b[1] = Quote BY <1>1
  <2>3. Len(t1) + Len(b) = Len(s) + 5 BY <1>2, <1>3, <2>2
  <2> QED BY <2>1, <2>2, <2>3
<1> HIDE DEF t2
<1>5. /\ t3 \in Seq(Nat) /\ Len(t3) = Len(t2) + Len(p)
      /\ \A i \in 1..Len(t2) : t3[i] = t2[i]
      /\ \A i \in 1..Len(p) : t3[Len(t2) + i] = p[i]
  BY <1>4, ConcatIs
<1> HIDE DEF t3
<1>6. /\ t4 \in Seq(Nat) /\ Len(t4) = Len(t3) + 2
      /\ \A i \in 1..Len(t3) : t4[i] = t3[i]
      /\ t4[Len(t3) + 1] = Quote
  <2>1. /\ t4 \in Seq(Nat) /\ Len(t4) = Len(t3) + Len(c)
        /\ \A i \in 1..Len(t3) : t4[i] = t3[i]
        /\ \A i \in 1..Len(c) : t4[Len(t3) + i] = c[i]
    BY <1>1, <1>5, ConcatIs
  <2> HIDE DEF t4
  <2>2. Len(c) = 2 /\ 1 \in 1..Len(c) /\ c[1] = Quote BY <1>1
  <2> QED BY <2>1, <2>2
<1>7. Json(s, p) = t4
  BY DEF Json, a, b, c, t1, t2, t3
<1> HIDE DEF t4
<1>8. \A i \in 1..Len(s) : t4[i + 2] = s[i]
  <2> TAKE i \in 1..Len(s)
  <2>1. Len(t1) = Len(s) + 2 /\ Len(t2) = Len(s) + 5 /\ Len(t3) = Len(s) + 5 + Len(p)
    BY <1>3, <1>4, <1>5
  <2>2. i + 2 = 2 + i /\ 2 + i \in 1..Len(t1) BY <2>1, <1>2
  <2>3. 2 + i \in 1..Len(t2) BY <2>1, <1>2
  <2>4. 2 + i \in 1..Len(t3) BY <2>1, <1>2
  <2>5. t4[2 + i] = t3[2 + i] BY <2>4, <1>6
  <2>6. t3[2 + i] = t2[2 + i] BY <2>3, <1>5
  <2>7. t2[2 + i] = t1[2 + i] BY <2>2, <1>4
  <2> QED BY <2>2, <2>5, <2>6, <2>7, <1>3
<1>9. t4[Len(s) + 3] = Quote
  <2>1. /\ Len(s) + 3 = Len(t1) + 1 /\ Len(t1) + 1 \in 1..Len(t2)
        /\ Len(t1) + 1 \in 1..Len(t3)
    BY <1>2, <1>3, <1>4, <1>5
  <2> QED BY <2>1, <1>4, <1>5, <1>6
<1>10. \A i \in 1..Len(p) : t4[i + (Len(s) + 5)] = p[i]
  <2> TAKE i \in 1..Len(p)
  <2>a. Len(t2) = Len(s) + 5 /\ Len(t3) = Len(s) + 5 + Len(p)
    BY <1>4, <1>5
  <2>1. i + (Len(s) + 5) = Len(t2) + i /\ Len(t2) + i \in 1..Len(t3)
    BY <2>a, <1>2
  <2> QED BY <2>1, <1>5, <1>6
<1>11. t4[Len(s) + Len(p) + 6] = Quote
  <2>1. Len(s) + Len(p) + 6 = Len(t3) + 1
    BY <1>2, <1>4, <1>5
  <2> QED BY <2>1, <1>6
<1>12. Len(t4) = Len(s) + Len(p) + 7
  BY <1>2, <1>4, <1>5, <1>6
<1> QED BY <1>6, <1>7, <1>8, <1>9, <1>10, <1>11, <1>12

\* Two strings without quotes are read back from the object they are put in.
LEMMA LoadsOfJson ==
    ASSUME NEW s \in Seq(Nat), NEW p \in Seq(Nat), NoQuote(s), NoQuote(p)
    PROVE  /\ Json(s, p) \in Seq(Nat)
           /\ Loads(Json(s, p)) = <<s, p>>
<1> DEFINE t == Json(s, p)
           e == Len(s) + 3
           f == Len(s) + Len(p) + 6
<1>1. /\ t \in Seq(Nat) /\ Len(t) = Len(s) + Len(p) + 7
      /\ \A i \in 1..Len(s) : t[i + 2] = s[i]
      /\ t[e] = Quote
      /\ \A i \in 1..Len(p) : t[i + (Len(s) + 5)] = p[i]
      /\ t[f] = Quote
  BY JsonShape
<1> HIDE DEF t
<1>2. NextQuote(t, 3) = e
  <2>1. \A j \in 3 .. e - 1 : t[j] # Quote
    <3> TAKE j \in 3 .. e - 1
    <3>1. j - 2 \in 1..Len(s) /\ (j - 2) + 2 = j OBVIOUS
    <3>2. t[(j - 2) + 2] = s[j - 2] BY <3>1, <1>1
    <3> QED BY <3>1, <3>2 DEF NoQuote
  <2>2. 3 \in Nat \ {0} /\ e \in 3..Len(t) BY <1>1
  <2> HIDE DEF e
  <2> QED BY <2>1, <2>2, <1>1, NextQuoteIs
<1>3. NextQuote(t, e + 3) = f
  <2>1. \A j \in e + 3 .. f - 1 : t[j] # Quote
    <3> TAKE j \in e + 3 .. f - 1
    <3> DEFINE i == j - Len(s) - 5
    <3>1. i \in 1..Len(p) /\ i + (Len(s) + 5) = j OBVIOUS
    <3>2. t[i + (Len(s) + 5)] = p[i] BY <3>1, <1>1
    <3> QED BY <3>1, <3>2 DEF NoQuote
  <2>2. e + 3 \in Nat \ {0} /\ f \in e + 3 .. Len(t) BY <1>1
  <2> HIDE DEF e, f
  <2> QED BY <2>1, <2>2, <1>1, NextQuoteIs
<1>4. SubSeq(t, 3, e - 1) = s
  <2>1. 2 + 1 = 3 /\ 2 + Len(s) = e - 1 OBVIOUS
  <2>a. 2 \in Nat /\ 2 + Len(s) <= Len(t) BY <1>1
  <2>2. SubSeq(t, 2 + 1, 2 + Len(s)) = s BY <2>a, <1>1, SubSeqIs
  <2> QED BY <2>1, <2>2
<1>5. SubSeq(t, e + 3, f - 1) = p
  <2>1. (Len(s) + 5) + 1 = e + 3 /\ (Len(s) + 5) + Len(p) = f - 1 OBVIOUS
  <2>2. Len(s) + 5 \in Nat /\ (Len(s) + 5) + Len(p) <= Len(t) BY <1>1
  <2>3. SubSeq(t, (Len(s) + 5) + 1, (Len(s) + 5) + Len(p)) = p BY <2>2, <1>1, SubSeqIs
  <2> QED BY <2>1, <2>3
<1>6. Loads(t) = <<SubSeq(t, 3, e - 1), SubSeq(t, e + 3, f - 1)>>
  BY <1>2, <1>3 DEF Loads
<1>7. Loads(t) = <<s, p>>
  BY <1>4, <1>5, <1>6
<1> QED BY <1>1, <1>7 DEF t

-----------------------------------------------------------------------------
\* The typed texts are sequences of the codes considered.
Typed == ssid \in Seq(Codes) /\ psk \in Seq(Codes)

LEMMA TypedInvariant == Spec => []Typed
<1>1. Init => Typed
  BY DEF Init, Typed
<1>2. Typed /\ [Next]_vars => Typed'
  <2> SUFFICES ASSUME Typed, Type PROVE Typed'
    BY DEF Typed, Next, vars
  <2>1. PICK c \in Codes : \/ ssid' = Append(ssid, c) /\ psk' = psk
                           \/ psk' = Append(psk, c) /\ ssid' = ssid
    BY DEF Type
  <2>2. Append(ssid, c) \in Seq(Codes) /\ Append(psk, c) \in Seq(Codes)
    BY AppendProperties DEF Typed
  <2> QED BY <2>1, <2>2 DEF Typed
<1> QED BY <1>1, <1>2, PTL DEF Spec

\* Of credentials of that type the three layers are undone in turn.
LEMMA TypedRoundTrip ==
    ASSUME Typed
    PROVE  RoundTrip
<1>a. ASSUME NEW text \in Seq(Codes) PROVE text \in Seq(Nat) /\ NoQuote(text)
  <2>1. \A i \in 1..Len(text) : text[i] \in Codes BY ElementOfSeq
  <2>2. \A i \in 1..Len(text) : text[i] \in Nat /\ text[i] # Quote BY <2>1, CodesAssumption
  <2>3. Codes \subseteq Nat BY CodesAssumption
  <2>4. text \in Seq(Nat) BY <2>3, SeqMonotonic
  <2> QED BY <2>2, <2>4 DEF NoQuote
<1>1. ssid \in Seq(Nat) /\ psk \in Seq(Nat)
  BY <1>a DEF Typed
<1>2. NoQuote(ssid) /\ NoQuote(psk)
  BY <1>a DEF Typed
<1> DEFINE j == Json(ssid, psk)
<1>3. j \in Seq(Nat) /\ Loads(j) = <<ssid, psk>>
  BY <1>1, <1>2, LoadsOfJson
<1>4. EncryptToRot47(j) \in Seq(Nat) /\ Rot47(EncryptToRot47(j)) = j
  BY <1>3, EncryptionInverse
<1>5. Group(Marker \o EncryptToRot47(j) \o Marker) = EncryptToRot47(j)
  BY <1>4, GroupOfMarked
<1> QED BY <1>3, <1>4, <1>5 DEF RoundTrip, Received, Message

\* The Raspberry Pi reads the credentials that were typed in, whatever their length and
\* whichever codes that JSON takes as they are they hold: the marker, ROT47 and the JSON of
\* SettingsView.as are undone by the regular expression, rot47 and json.loads of
\* esp8266_proxy.py.
THEOREM RoundTripHolds == Spec => []RoundTrip
BY TypedInvariant, TypedRoundTrip, PTL

\* ROT47 maps the codes of the map to the map and leaves the others alone.
LEMMA TypedMessage ==
    ASSUME Typed
    PROVE  TypeOK
<1> DEFINE Sent == Codes \cup 33..126
<1>1. Codes \subseteq Sent /\ Codes \subseteq Nat /\ Sent \subseteq Nat
  BY CodesAssumption
<1>2. /\ 126 \in Sent /\ 123 \in Sent /\ 125 \in Sent
      /\ Quote \in Sent /\ Comma \in Sent
  BY DEF Quote, Comma
<1>3. \A c \in Sent : c \in Nat /\ Rotate(c) \in {c} \cup 33..126
  BY <1>1, RotationInverse
<1>4. \A c \in Sent : Rotate(c) \in Sent
  BY <1>3
<1> HIDE DEF Sent
<1>5. ssid \in Seq(Sent) /\ psk \in Seq(Sent)
  BY <1>1, SeqMonotonic DEF Typed
<1>6. Marker \in Seq(Sent)
  BY <1>2 DEF Marker
<1>7. /\ <<123, Quote>> \in Seq(Sent) /\ <<Quote, Comma, Quote>> \in Seq(Sent)
      /\ <<Quote, 125>> \in Seq(Sent)
  BY <1>2
<1>8. Json(ssid, psk) \in Seq(Sent)
  BY <1>5, <1>7, ConcatProperties DEF Json
<1>9. ASSUME NEW text \in Seq(Sent) PROVE EncryptToRot47(text) \in Seq(Sent)
  <2>1. Len(text) \in Nat /\ \A i \in 1..Len(text) : text[i] \in Sent
    BY ElementOfSeq
  <2>2. \A i \in 1..Len(text) : Rotate(text[i]) \in Sent
    BY <2>1, <1>4
  <2> QED BY <2>1, <2>2 DEF EncryptToRot47
<1>10. Message(ssid, psk) \in Seq(Sent)
  BY <1>6, <1>8, <1>9, ConcatProperties DEF Message
<1> QED BY <1>10 DEF Typed, TypeOK, Sent

\* What is sent has only the codes of the map and those outside it that were typed
\* (the map of rotn, SettingsView.as).
THEOREM CodecTypes == Spec => []TypeOK
BY TypedInvariant, TypedMessage, PTL

-----------------------------------------------------------------------------
(* The names of the access points *)

LEMMA DigitsTell ==
    ASSUME NEW b \in Nat, NEW c \in Nat, b \div 16 = c \div 16, b % 16 = c % 16
    PROVE  b = c
OBVIOUS

LEMMA AfterOne ==
    ASSUME NEW u \in Int, NEW x \in Int, NEW y \in Int, NEW t, t = <<u>> \o <<x, y>>
    PROVE  Len(t) = 3 /\ t[1] = u /\ t[2] = x /\ t[3] = y
<1>1. Len(t) = 3
    OBVIOUS
<1>2. t[1] = u
    OBVIOUS
<1>3. t[2] = x
    OBVIOUS
<1>4. t[3] = y
    OBVIOUS
<1>. QED
    BY <1>1, <1>2, <1>3, <1>4

LEMMA AfterTwo ==
    ASSUME NEW u \in Int, NEW v \in Int, NEW x \in Int, NEW y \in Int, NEW t, t = <<u, v>> \o <<x, y>>
    PROVE  Len(t) = 4 /\ t[1] = u /\ t[2] = v /\ t[3] = x /\ t[4] = y
<1>1. Len(t) = 4
    OBVIOUS
<1>2. t[1] = u
    OBVIOUS
<1>3. t[2] = v
    OBVIOUS
<1>4. t[3] = x
    OBVIOUS
<1>5. t[4] = y
    OBVIOUS
<1>. QED
    BY <1>1, <1>2, <1>3, <1>4, <1>5

LEMMA HexIsInjective == \A b, c \in Byte : Hex(b) = Hex(c) => b = c
<1> SUFFICES ASSUME NEW b \in Byte, NEW c \in Byte, Hex(b) = Hex(c)
             PROVE  b = c
    OBVIOUS
<1>1. b \in Nat /\ c \in Nat
    BY DEF Byte
<1>2. CASE b < 16 /\ c < 16
    BY <1>2 DEF Hex
<1>3. CASE b >= 16 /\ c >= 16
    <2>1. b \div 16 = c \div 16 /\ b % 16 = c % 16
        BY <1>1, <1>3 DEF Hex
    <2>. QED
        BY <1>1, <2>1, DigitsTell
<1>4. CASE (b < 16 /\ c >= 16) \/ (b >= 16 /\ c < 16)
    <2>1. Len(Hex(b)) # Len(Hex(c))
        BY <1>1, <1>4 DEF Hex
    <2>. QED
        BY <2>1
<1>. QED
    BY <1>1, <1>2, <1>3, <1>4

(* Two addresses whose last byte has two digits have different names       *)
(* (generateSSID, "Generate a unique Wifi SSID", 44-51).                   *)
THEOREM NamesDiffer ==
    \A m, n \in Mac : (m[2] >= 16 /\ n[2] >= 16 /\ Ssid(m) = Ssid(n)) => m = n
<1> SUFFICES ASSUME NEW m \in Mac, NEW n \in Mac, m[2] >= 16, n[2] >= 16, Ssid(m) = Ssid(n)
             PROVE  m = n
    OBVIOUS
<1>1. /\ m = <<m[1], m[2]>> /\ n = <<n[1], n[2]>>
      /\ m[1] \in Byte /\ m[2] \in Byte /\ n[1] \in Byte /\ n[2] \in Byte
    BY DEF Mac
<1>2. \A i \in Byte : i \in Int /\ i \div 16 \in Int /\ i % 16 \in Int
    BY DEF Byte
<1>3. Hex(m[2]) = <<m[2] \div 16, m[2] % 16>> /\ Hex(n[2]) = <<n[2] \div 16, n[2] % 16>>
    BY <1>1 DEF Hex, Byte
<1>4. Hex(m[1]) = Hex(n[1]) /\ Hex(m[2]) = Hex(n[2])
    <2> DEFINE p == m[2] \div 16
               q == m[2] % 16
               r == n[2] \div 16
               s == n[2] % 16
               name == Ssid(m)
    <2>1. p \in Int /\ q \in Int /\ r \in Int /\ s \in Int
        BY <1>1, <1>2
    <2>2. PICK a, b \in Int : Hex(m[1]) = <<a>> \/ Hex(m[1]) = <<a, b>>
        BY <1>1, <1>2 DEF Hex
    <2>3. PICK c, d \in Int : Hex(n[1]) = <<c>> \/ Hex(n[1]) = <<c, d>>
        BY <1>1, <1>2 DEF Hex
    <2>4. name = Hex(m[1]) \o <<p, q>>
        BY <1>3 DEF Ssid
    <2>5. name = Hex(n[1]) \o <<r, s>>
        BY <1>3 DEF Ssid
    <2>. HIDE DEF p, q, r, s, name
    <2>6. CASE Hex(m[1]) = <<a>>
        <3>1. Len(name) = 3 /\ name[1] = a /\ name[2] = p /\ name[3] = q
            BY <2>1, <2>4, <2>6, AfterOne
        <3>2. Hex(n[1]) = <<c>>
            <4>1. Hex(n[1]) = <<c, d>> => Len(name) = 4
                BY <2>1, <2>5, AfterTwo
            <4>. QED
                BY <2>3, <3>1, <4>1
        <3>3. name[1] = c /\ name[2] = r /\ name[3] = s
            BY <2>1, <2>5, <3>2, AfterOne
        <3>. QED
            BY <1>3, <2>6, <3>1, <3>2, <3>3 DEF p, q, r, s
    <2>7. CASE Hex(m[1]) = <<a, b>>
        <3>1. /\ Len(name) = 4 /\ name[1] = a /\ name[2] = b
              /\ name[3] = p /\ name[4] = q
            BY <2>1, <2>4, <2>7, AfterTwo
        <3>2. Hex(n[1]) = <<c, d>>
            <4>1. Hex(n[1]) = <<c>> => Len(name) = 3
                BY <2>1, <2>5, AfterOne
            <4>. QED
                BY <2>3, <3>1, <4>1
        <3>3. name[1] = c /\ name[2] = d /\ name[3] = r /\ name[4] = s
            BY <2>1, <2>5, <3>2, AfterTwo
        <3>. QED
            BY <1>3, <2>7, <3>1, <3>2, <3>3 DEF p, q, r, s
    <2>. QED
        BY <2>2, <2>6, <2>7
<1>. QED
    BY <1>1, <1>4, HexIsInjective

(* In general they are not: 01:23 and 12:03 are both "123" (String(byte,   *)
(* HEX), line 50).                                                         *)
THEOREM NamesCollide == \E m, n \in Mac : m # n /\ Ssid(m) = Ssid(n)
<1>1. <<1, 35>> \in Mac /\ <<18, 3>> \in Mac /\ <<1, 35>> # <<18, 3>>
    BY DEF Mac, Byte
<1>2. Hex(1) = <<1>> /\ Hex(35) = <<2, 3>> /\ Hex(18) = <<1, 2>> /\ Hex(3) = <<3>>
    BY DEF Hex
<1>3. Ssid(<<1, 35>>) = <<1>> \o <<2, 3>> /\ Ssid(<<18, 3>>) = <<1, 2>> \o <<3>>
    BY <1>2 DEF Ssid
<1>4. <<1>> \o <<2, 3>> = <<1, 2>> \o <<3>>
    OBVIOUS
<1>. QED
    BY <1>1, <1>3, <1>4
=============================================================================
