------------------------ MODULE WebSocketFrameProofs ------------------------
(***************************************************************************)
(* The safety properties of WebSocketFrame for streams of any number of    *)
(* frames of any length, cut into chunks anywhere, and for every limit.    *)
(***************************************************************************)
EXTENDS WebSocketFrame, WellFoundedInduction, TLAPS

-----------------------------------------------------------------------------
(* Induction and recursion over an interval *)

\* Smaller is related, in the order of the naturals.
LEMMA PredecessorsAreRelated ==
    ASSUME NEW x \in Nat, NEW y \in Nat, y < x
    PROVE  <<y, x>> \in OpToRel(<, Nat)
BY DEF OpToRel

\* A set that holds 0 and the successor of each of its numbers below N has all up to N.
LEMMA IntervalInduction ==
    ASSUME NEW N \in Nat, NEW S, 0 \in S, \A n \in 0 .. N - 1 : n \in S => n + 1 \in S
    PROVE  0 .. N \subseteq S
<1> DEFINE R == OpToRel(<, Nat)
           Missing == {n \in Nat : n <= N /\ n \notin S}
<1>1. IsWellFoundedOn(R, Nat)
    BY NatLessThanWellFounded
<1>2. \A x, y \in Nat : y < x => <<y, x>> \in R
    BY PredecessorsAreRelated
<1> HIDE DEF R
<1> SUFFICES ASSUME Missing # {} PROVE FALSE
    OBVIOUS
<1>3. PICK x \in Missing : \A y \in Missing : ~(<<y, x>> \in R)
    BY <1>1, WFMin
<1>4. x \in Nat /\ x <= N /\ x \notin S /\ x # 0
    BY <1>3
<1>5. x - 1 \in Nat /\ x - 1 < x /\ (x - 1) + 1 = x /\ x - 1 \in 0 .. N - 1 /\ x - 1 <= N
    BY <1>4
<1>6. x - 1 \notin Missing
    BY <1>2, <1>3, <1>4, <1>5
<1>. QED
    BY <1>4, <1>5, <1>6

\* One step from each number of the interval to the next, and a function that takes them.
Steps(N, V) == [1 .. N -> [V -> V]]
Follows(f, N, V, first, step) ==
    /\ f \in [0 .. N -> V]
    /\ f[0] = first /\ \A i \in 1 .. N : f[i] = step[i][f[i - 1]]

\* A function over an interval may be defined by its first value and by these steps.
LEMMA RecursionExists ==
    ASSUME NEW N \in Nat, NEW V, NEW first \in V, NEW step \in Steps(N, V)
    PROVE  \E f : Follows(f, N, V, first, step)
<1> USE DEF Steps
<1> DEFINE Is(f, n) == f[0] = first /\ \A i \in 1 .. n : f[i] = step[i][f[i - 1]]
           S == {n \in Nat : \E f \in [0 .. N -> V] : Is(f, n)}
<1>1. 0 \in S
    <2> DEFINE f == [i \in 0 .. N |-> first]
    <2>1. f \in [0 .. N -> V] /\ Is(f, 0)
        OBVIOUS
    <2>. QED
        BY <2>1
<1>2. ASSUME NEW n \in 0 .. N - 1, n \in S PROVE n + 1 \in S
    <2>1. PICK f \in [0 .. N -> V] : Is(f, n)
        BY <1>2
    <2> DEFINE g == [f EXCEPT ![n + 1] = step[n + 1][f[n]]]
    <2>2. n \in 0 .. N /\ n + 1 \in 1 .. N /\ n + 1 \in 0 .. N
        OBVIOUS
    <2>3. step[n + 1] \in [V -> V] /\ f[n] \in V
        BY <2>2
    <2>4. g \in [0 .. N -> V]
        BY <2>2, <2>3
    <2>5. \A i \in 0 .. N : g[i] = IF i = n + 1 THEN step[n + 1][f[n]] ELSE f[i]
        OBVIOUS
    <2>6. ASSUME NEW i \in 1 .. n + 1 PROVE g[i] = step[i][g[i - 1]]
        <3>1. CASE i = n + 1
            <4>1. i - 1 = n /\ n # n + 1
                BY <3>1
            <4>2. g[n] = f[n]
                BY <2>2, <2>5, <4>1
            <4>. QED
                BY <2>2, <2>5, <3>1, <4>1, <4>2
        <3>2. CASE i # n + 1
            <4>1. i \in 1 .. n /\ i \in 0 .. N /\ i - 1 \in 0 .. N /\ i - 1 # n + 1
                BY <3>2
            <4>2. f[i] = step[i][f[i - 1]]
                BY <2>1, <4>1
            <4>. QED
                BY <2>5, <3>2, <4>1, <4>2
        <3>. QED
            BY <3>1, <3>2
    <2>7. g[0] = first
        BY <2>1, <2>5
    <2>8. Is(g, n + 1) /\ n + 1 \in Nat
        BY <2>6, <2>7
    <2> HIDE DEF Is, g
    <2>. QED
        BY <2>4, <2>8
<1>3. N \in S
    <2> HIDE DEF S
    <2>1. 0 .. N \subseteq S
        BY <1>1, <1>2, IntervalInduction
    <2>. QED
        BY <2>1
<1>. QED
    BY <1>3 DEF Follows

-----------------------------------------------------------------------------
(* Where frames end *)

\* What a frame may be.
LEMMA FrameIs ==
    ASSUME NEW s \in Streams
    PROVE  /\ Len(s) \in Nat
           /\ \A i \in 1 .. Len(s) : s[i] \in Frame /\ Fits(s[i])
<1>1. s \in Seq({frame \in Frame : Fits(frame)})
    BY StreamsAssumption
<1>. QED
    BY <1>1

\* The sizes of a frame and of its header.
LEMMA SizeType ==
    ASSUME NEW frame \in Frame
    PROVE  /\ HeaderSize(frame) \in Nat /\ HeaderSize(frame) >= 2
           /\ Size(frame) \in Nat /\ Size(frame) = HeaderSize(frame) + frame.len
           /\ frame.len \in Nat
           /\ HeaderSize(frame) =
                CASE frame.form = 7 -> 2 [] frame.form = 16 -> 4 [] frame.form = 64 -> 10
BY DEF Frame, HeaderSize, Size

\* Each frame ends its size behind the one before it.
LEMMA EndsAre ==
    ASSUME NEW s \in Streams
    PROVE  /\ Ends(s)[0] = 0
           /\ \A i \in 1 .. Len(s) : Ends(s)[i] = Ends(s)[i - 1] + Size(s[i])
           /\ \A i \in 0 .. Len(s) : Ends(s)[i] \in Nat
<1> DEFINE N == Len(s)
           step == [i \in 1 .. N |-> [v \in Nat |-> v + Size(s[i])]]
           IsEnds(f) == f = [i \in 0 .. N |-> IF i = 0 THEN 0 ELSE f[i - 1] + Size(s[i])]
<1>1. N \in Nat /\ \A i \in 1 .. N : Size(s[i]) \in Nat
    BY FrameIs, SizeType
<1>2. step \in [1 .. N -> [Nat -> Nat]]
    BY <1>1
<1>3. \E f \in [0 .. N -> Nat] : IsEnds(f)
    <2> HIDE DEF step, N
    <2>1. PICK f : Follows(f, N, Nat, 0, step)
        <3>1. 0 \in Nat /\ N \in Nat /\ step \in Steps(N, Nat)
            BY <1>1, <1>2 DEF Steps
        <3>. QED
            BY <3>1, RecursionExists
    <2>2. ASSUME NEW i \in 0 .. N PROVE f[i] = IF i = 0 THEN 0 ELSE f[i - 1] + Size(s[i])
        <3>1. CASE i = 0
            BY <2>1, <3>1 DEF Follows
        <3>2. CASE i # 0
            <4>1. i \in 1 .. N /\ i - 1 \in 0 .. N
                BY <1>1, <3>2
            <4>2. f[i - 1] \in Nat
                BY <2>1, <4>1 DEF Follows
            <4>3. step[i][f[i - 1]] = f[i - 1] + Size(s[i])
                BY <4>1, <4>2 DEF step
            <4>4. f[i] = step[i][f[i - 1]]
                BY <2>1, <4>1 DEF Follows
            <4>. QED
                BY <3>2, <4>3, <4>4
        <3>. QED
            BY <3>1, <3>2
    <2>3. IsEnds(f)
        BY <2>1, <2>2 DEF Follows
    <2>4. f \in [0 .. N -> Nat]
        BY <2>1 DEF Follows
    <2> HIDE DEF IsEnds
    <2>. QED
        BY <2>3, <2>4
<1>4. Ends(s) = CHOOSE f : IsEnds(f)
    BY DEF Ends
<1>5. IsEnds(Ends(s))
    BY <1>3, <1>4
<1> DEFINE E == Ends(s)
<1> HIDE DEF E
<1>6. \A i \in 0 .. N : E[i] = IF i = 0 THEN 0 ELSE E[i - 1] + Size(s[i])
    BY <1>5 DEF E
<1>7. \A i \in 0 .. N : E[i] \in Nat
    <2> DEFINE S == {i \in 0 .. N : E[i] \in Nat}
    <2>1. 0 \in S
        BY <1>1, <1>6
    <2>2. ASSUME NEW n \in 0 .. N - 1, n \in S PROVE n + 1 \in S
        <3>1. n + 1 \in 0 .. N /\ n + 1 \in 1 .. N /\ n + 1 # 0 /\ (n + 1) - 1 = n
            BY <1>1
        <3>2. E[n + 1] = E[n] + Size(s[n + 1])
            BY <1>6, <3>1
        <3>. QED
            BY <1>1, <2>2, <3>1, <3>2
    <2> HIDE DEF S
    <2>3. 0 .. N \subseteq S
        BY <1>1, <2>1, <2>2, IntervalInduction
    <2>. QED
        BY <2>3 DEF S
<1>. QED
    BY <1>1, <1>6, <1>7 DEF E

\* Later frames end later.
LEMMA EndsGrow ==
    ASSUME NEW s \in Streams, NEW i \in 0 .. Len(s), NEW j \in i .. Len(s)
    PROVE  /\ Ends(s)[i] <= Ends(s)[j]
           /\ i < j => Ends(s)[i] + 2 <= Ends(s)[j]
<1> DEFINE E == Ends(s)
           N == Len(s)
           S == {k \in Nat : i + k <= N => E[i] <= E[i + k] /\ (k > 0 => E[i] + 2 <= E[i + k])}
<1>1. N \in Nat /\ i \in Nat /\ i <= N /\ j \in Nat /\ i <= j /\ j <= N
    BY FrameIs
<1>2. \A k \in 0 .. N : E[k] \in Nat
    BY EndsAre
<1>3. \A k \in 1 .. N : E[k] = E[k - 1] + Size(s[k]) /\ Size(s[k]) \in Nat /\ Size(s[k]) >= 2
    BY EndsAre, FrameIs, SizeType
<1> HIDE DEF E, N
<1>4. 0 \in S
    BY <1>1, <1>2
<1>5. ASSUME NEW n \in 0 .. N - 1, n \in S PROVE n + 1 \in S
    <2> SUFFICES ASSUME i + (n + 1) <= N
                 PROVE  E[i] <= E[i + (n + 1)] /\ E[i] + 2 <= E[i + (n + 1)]
        BY <1>1
    <2>1. i + n \in 0 .. N /\ i + (n + 1) \in 1 .. N /\ (i + (n + 1)) - 1 = i + n /\ i + n <= N
        BY <1>1
    <2>2. E[i] <= E[i + n]
        BY <1>5, <2>1
    <2>3. E[i + (n + 1)] = E[i + n] + Size(s[i + (n + 1)]) /\ Size(s[i + (n + 1)]) >= 2
        BY <1>3, <2>1
    <2>4. E[i] \in Nat /\ E[i + n] \in Nat /\ Size(s[i + (n + 1)]) \in Nat
        BY <1>1, <1>2, <1>3, <2>1
    <2>. QED
        BY <2>2, <2>3, <2>4
<1>6. 0 .. N \subseteq S
    <2> HIDE DEF S
    <2>. QED
        BY <1>1, <1>4, <1>5, IntervalInduction
<1>7. j - i \in 0 .. N /\ i + (j - i) = j /\ (i < j => j - i > 0)
    BY <1>1
<1>8. j - i \in S
    BY <1>6, <1>7
<1>9. E[i] <= E[j] /\ (i < j => E[i] + 2 <= E[j])
    BY <1>1, <1>7, <1>8
<1>. QED
    BY <1>9 DEF E

-----------------------------------------------------------------------------
(* One frame *)

Waiting == {"WAITING_FOR_16_BIT_LENGTH", "WAITING_FOR_64_BIT_LENGTH", "WAITING_FOR_PAYLOAD"}
States == Waiting \cup {"NEW_FRAME", "COMPLETE"}
Results == {"more", "complete", "protocolError", "frameTooLarge"}
Reader ==
    [parseState : States, avail : Nat, next : Nat \ {0},
     result : Results,
     delivered : Seq(Nat), dropped : BOOLEAN, raised : BOOLEAN]

\* The bytes of the current frame that were read.
Done(r, frame) ==
    CASE r.parseState = "NEW_FRAME" -> 0
      [] r.parseState \in {"WAITING_FOR_16_BIT_LENGTH", "WAITING_FOR_64_BIT_LENGTH"} -> 2
      [] r.parseState = "WAITING_FOR_PAYLOAD" -> HeaderSize(frame)
      [] OTHER -> Size(frame)

\* What is known of a frame whose header, or whose length, was read.
Begun(r, frame) ==
    /\ r.parseState \in Waiting => frame.legal
    /\ r.parseState = "WAITING_FOR_16_BIT_LENGTH" => frame.form = 16
    /\ r.parseState = "WAITING_FOR_64_BIT_LENGTH" => frame.form = 64
    /\ r.parseState = "WAITING_FOR_PAYLOAD" => ~frame.huge

\* The stages touch neither what was delivered nor how the loop goes on.
Alike(r, t) ==
    /\ t \in Reader /\ t.next = r.next /\ t.delivered = r.delivered /\ t.dropped = r.dropped
    /\ t.avail <= r.avail

\* The four ways in which the stages of addData change a reader.
To(r, a, s) == [r EXCEPT !.avail = a, !.parseState = s]
Bad(r, a, res) == [r EXCEPT !.avail = a, !.result = res]
Whole(r, a, s, res) == [r EXCEPT !.avail = a, !.parseState = s, !.result = res]
Raise(r) == [r EXCEPT !.raised = TRUE]

\* Bytes are read and the next stage is entered.
LEMMA Moved ==
    ASSUME NEW r \in Reader, NEW a \in Nat, a <= r.avail, NEW s \in States,
           NEW t, t = To(r, a, s)
    PROVE  /\ Alike(r, t) /\ t.avail = a /\ t.parseState = s
           /\ t.result = r.result /\ t.raised = r.raised
<1>1. t \in Reader
    BY DEF Reader, To
<1>2. /\ t.avail = a /\ t.parseState = s /\ t.result = r.result /\ t.raised = r.raised
      /\ t.next = r.next /\ t.delivered = r.delivered /\ t.dropped = r.dropped
    BY DEF Reader, To
<1>. QED
    BY <1>1, <1>2 DEF Alike

\* A frame is found bad.
LEMMA Judged ==
    ASSUME NEW r \in Reader, NEW a \in Nat, a <= r.avail, NEW res \in Results,
           NEW t, t = Bad(r, a, res)
    PROVE  /\ Alike(r, t) /\ t.avail = a /\ t.result = res
           /\ t.parseState = r.parseState /\ t.raised = r.raised
<1>1. t \in Reader
    BY DEF Reader, Bad
<1>2. /\ t.avail = a /\ t.parseState = r.parseState /\ t.result = res /\ t.raised = r.raised
      /\ t.next = r.next /\ t.delivered = r.delivered /\ t.dropped = r.dropped
    BY DEF Reader, Bad
<1>. QED
    BY <1>1, <1>2 DEF Alike

\* A frame is complete.
LEMMA Finished ==
    ASSUME NEW r \in Reader, NEW a \in Nat, a <= r.avail, NEW s \in States, NEW res \in Results,
           NEW t, t = Whole(r, a, s, res)
    PROVE  /\ Alike(r, t) /\ t.avail = a /\ t.parseState = s
           /\ t.result = res /\ t.raised = r.raised
<1>1. t \in Reader
    BY DEF Reader, Whole
<1>2. /\ t.avail = a /\ t.parseState = s /\ t.result = res /\ t.raised = r.raised
      /\ t.next = r.next /\ t.delivered = r.delivered /\ t.dropped = r.dropped
    BY DEF Reader, Whole
<1>. QED
    BY <1>1, <1>2 DEF Alike

\* An EOFError is raised.
LEMMA Raised ==
    ASSUME NEW r \in Reader, NEW t, t = Raise(r)
    PROVE  /\ Alike(r, t) /\ t.avail = r.avail /\ t.parseState = r.parseState
           /\ t.result = r.result
<1>1. t \in Reader
    BY DEF Reader, Raise
<1>2. /\ t.avail = r.avail /\ t.parseState = r.parseState /\ t.result = r.result
      /\ t.next = r.next /\ t.delivered = r.delivered /\ t.dropped = r.dropped /\ r.avail \in Nat
    BY DEF Reader, Raise
<1>. QED
    BY <1>1, <1>2 DEF Alike

\* The first two bytes: the frame is found illegal, or its form is known.
LEMMA HeaderIs ==
    ASSUME NEW r \in Reader, NEW frame \in Frame, Fits(frame), Begun(r, frame),
           r.result = "more", r.avail >= 2, r.parseState # "COMPLETE"
    PROVE  LET h == ReadHeader(r, frame)
           IN  /\ Alike(r, h) /\ h.raised = r.raised
               /\ \/ h.result = "protocolError" /\ ~frame.legal /\ h.parseState # "COMPLETE"
                  \/ /\ h.result = "more" /\ Begun(h, frame) /\ h.parseState \in Waiting
                     /\ h.avail + Done(h, frame) = r.avail + Done(r, frame)
<1> DEFINE h == ReadHeader(r, frame)
<1>1. CASE r.parseState # "NEW_FRAME"
    <2>1. h = r
        BY <1>1 DEF ReadHeader
    <2>2. r.parseState \in States /\ r.avail \in Nat
        BY DEF Reader
    <2>3. r.parseState \in Waiting
        BY <1>1, <2>2 DEF States
    <2>. QED
        BY <2>1, <2>2, <2>3 DEF Alike
<1>2. CASE r.parseState = "NEW_FRAME" /\ ~frame.legal
    <2>1. h = [r EXCEPT !.avail = @ - 2, !.result = "protocolError"]
        <3>1. h = [[r EXCEPT !.avail = @ - 2] EXCEPT !.result = "protocolError"]
            BY <1>2 DEF ReadHeader
        <3>. QED
            BY <3>1
    <2>2. r.avail \in Nat /\ r.avail - 2 \in Nat
        BY DEF Reader
    <2> HIDE DEF h
    <2>3. /\ Alike(r, h) /\ h.raised = r.raised /\ h.result = "protocolError"
          /\ h.parseState = r.parseState
        <3> DEFINE a == r.avail - 2
        <3>1. a \in Nat /\ a <= r.avail /\ "protocolError" \in Results
            BY <2>2 DEF Results
        <3>2. h = Bad(r, a, "protocolError")
            BY <2>1 DEF Bad
        <3> HIDE DEF a
        <3>. QED
            BY <3>1, <3>2, Judged
    <2>. QED
        BY <1>2, <2>3 DEF h
<1>3. CASE r.parseState = "NEW_FRAME" /\ frame.legal
    <2> DEFINE state == CASE frame.form = 7  -> "WAITING_FOR_PAYLOAD"
                          [] frame.form = 16 -> "WAITING_FOR_16_BIT_LENGTH"
                          [] frame.form = 64 -> "WAITING_FOR_64_BIT_LENGTH"
    <2>1. frame.form \in {7, 16, 64}
        BY DEF Frame
    <2>2. /\ state \in Waiting
          /\ state = "WAITING_FOR_16_BIT_LENGTH" <=> frame.form = 16
          /\ state = "WAITING_FOR_64_BIT_LENGTH" <=> frame.form = 64
          /\ state = "WAITING_FOR_PAYLOAD" <=> frame.form = 7
        BY <2>1 DEF Waiting
    <2> HIDE DEF state
    <2>3. h = [r EXCEPT !.avail = @ - 2, !.parseState = state]
        <3>1. h = [[r EXCEPT !.avail = @ - 2] EXCEPT !.parseState = state]
            BY <1>3 DEF ReadHeader, state
        <3>. QED
            BY <3>1
    <2> HIDE DEF h
    <2>4. /\ h.parseState = state /\ h.avail = r.avail - 2 /\ h.result = "more"
          /\ h.raised = r.raised /\ Alike(r, h)
        <3>1. r.avail \in Nat /\ r.avail - 2 \in Nat
            BY DEF Reader
        <3> DEFINE a == r.avail - 2
        <3>2. a \in Nat /\ a <= r.avail /\ state \in States /\ a = r.avail - 2
            BY <2>2, <3>1 DEF States
        <3>3. h = To(r, a, state)
            BY <2>3 DEF To
        <3> HIDE DEF a
        <3>4. /\ Alike(r, h) /\ h.avail = a /\ h.parseState = state
              /\ h.result = r.result /\ h.raised = r.raised
            BY <3>2, <3>3, Moved
        <3>. QED
            BY <3>2, <3>4
    <2>5. Done(r, frame) = 0 /\ Done(h, frame) = 2
        <3>1. frame.form = 7 => HeaderSize(frame) = 2
            BY DEF HeaderSize
        <3>. QED
            BY <1>3, <2>2, <2>4, <3>1 DEF Done, Waiting
    <2>6. h.avail + Done(h, frame) = r.avail + Done(r, frame)
        BY <2>4, <2>5 DEF Reader
    <2>7. Begun(h, frame)
        BY <1>3, <2>2, <2>4 DEF Begun, Fits
    <2>. QED
        BY <1>3, <2>2, <2>4, <2>6, <2>7 DEF h
<1>. QED
    BY <1>1, <1>2, <1>3

\* The long forms of the length: too long, read, or not there yet.
LEMMA LengthIs ==
    ASSUME NEW r \in Reader, NEW frame \in Frame, Fits(frame), Begun(r, frame),
           r.result = "more", r.parseState \in Waiting
    PROVE  LET l == ReadLength(r, frame)
           IN  /\ Alike(r, l) /\ l.raised = r.raised
               /\ \/ l.result = "frameTooLarge" /\ frame.huge /\ l.parseState # "COMPLETE"
                  \/ /\ l.result = "more" /\ Begun(l, frame) /\ l.parseState \in Waiting
                     /\ l.avail + Done(l, frame) = r.avail + Done(r, frame)
                     /\ l.parseState = "WAITING_FOR_16_BIT_LENGTH" => l.avail < 2
                     /\ l.parseState = "WAITING_FOR_64_BIT_LENGTH" => l.avail < 8
<1> DEFINE l == ReadLength(r, frame)
<1>0. r.avail \in Nat /\ r.parseState \in Waiting
    BY DEF Reader
<1>1. CASE r.parseState = "WAITING_FOR_16_BIT_LENGTH" /\ r.avail >= 2
    <2>1. l = [r EXCEPT !.avail = @ - 2, !.parseState = "WAITING_FOR_PAYLOAD"]
        BY <1>1 DEF ReadLength
    <2>2. /\ l.parseState = "WAITING_FOR_PAYLOAD" /\ l.avail = r.avail - 2 /\ l.result = "more"
          /\ l.raised = r.raised /\ Alike(r, l)
        <3> DEFINE a == r.avail - 2
                   s == "WAITING_FOR_PAYLOAD"
        <3>1. a \in Nat /\ a <= r.avail /\ s \in States
            BY <1>0, <1>1 DEF States, Waiting
        <3>2. l = To(r, a, s)
            BY <2>1 DEF To
        <3> HIDE DEF l, a, s
        <3>3. /\ Alike(r, l) /\ l.avail = a /\ l.parseState = s
              /\ l.result = r.result /\ l.raised = r.raised
            BY <3>1, <3>2, Moved
        <3>. QED
            BY <3>3 DEF a, s
    <2> HIDE DEF l
    <2>3. frame.form = 16 /\ frame.legal
        BY <1>1 DEF Begun, Waiting
    <2>4. Done(r, frame) = 2 /\ Done(l, frame) = 4
        <3>1. HeaderSize(frame) = 4
            BY <2>3 DEF HeaderSize
        <3>. QED
            BY <1>1, <2>2, <3>1 DEF Done
    <2>5. ~frame.huge
        BY <2>3 DEF Fits
    <2>. QED
        BY <1>0, <2>2, <2>3, <2>4, <2>5 DEF Begun, Waiting, l
<1>2. CASE r.parseState = "WAITING_FOR_64_BIT_LENGTH" /\ r.avail >= 8 /\ frame.huge
    <2>1. l = [r EXCEPT !.avail = @ - 4, !.result = "frameTooLarge"]
        BY <1>2 DEF ReadLength
    <2>2. r.avail - 4 \in Nat
        BY <1>0, <1>2
    <2> HIDE DEF l
    <2>3. /\ Alike(r, l) /\ l.raised = r.raised /\ l.result = "frameTooLarge"
          /\ l.parseState = r.parseState
        <3> DEFINE a == r.avail - 4
        <3>1. a \in Nat /\ a <= r.avail /\ "frameTooLarge" \in Results
            BY <1>0, <2>2 DEF Results
        <3>2. l = Bad(r, a, "frameTooLarge")
            BY <2>1 DEF Bad
        <3> HIDE DEF a
        <3>. QED
            BY <3>1, <3>2, Judged
    <2>. QED
        BY <1>2, <2>3 DEF l
<1>3. CASE r.parseState = "WAITING_FOR_64_BIT_LENGTH" /\ r.avail >= 8 /\ ~frame.huge
    <2>1. l = [r EXCEPT !.avail = @ - 8, !.parseState = "WAITING_FOR_PAYLOAD"]
        BY <1>3 DEF ReadLength
    <2>2. /\ l.parseState = "WAITING_FOR_PAYLOAD" /\ l.avail = r.avail - 8 /\ l.result = "more"
          /\ l.raised = r.raised /\ Alike(r, l)
        <3> DEFINE a == r.avail - 8
                   s == "WAITING_FOR_PAYLOAD"
        <3>1. a \in Nat /\ a <= r.avail /\ s \in States
            BY <1>0, <1>3 DEF States, Waiting
        <3>2. l = To(r, a, s)
            BY <2>1 DEF To
        <3> HIDE DEF l, a, s
        <3>3. /\ Alike(r, l) /\ l.avail = a /\ l.parseState = s
              /\ l.result = r.result /\ l.raised = r.raised
            BY <3>1, <3>2, Moved
        <3>. QED
            BY <3>3 DEF a, s
    <2> HIDE DEF l
    <2>3. frame.form = 64 /\ frame.legal
        BY <1>3 DEF Begun, Waiting
    <2>4. Done(r, frame) = 2 /\ Done(l, frame) = 10
        <3>1. HeaderSize(frame) = 10
            BY <2>3 DEF HeaderSize
        <3>. QED
            BY <1>3, <2>2, <3>1 DEF Done
    <2>. QED
        BY <1>0, <1>3, <2>2, <2>3, <2>4 DEF Begun, Waiting, l
<1>4. CASE /\ ~(r.parseState = "WAITING_FOR_16_BIT_LENGTH" /\ r.avail >= 2)
           /\ ~(r.parseState = "WAITING_FOR_64_BIT_LENGTH" /\ r.avail >= 8)
    <2>1. l = r
        BY <1>4 DEF ReadLength
    <2>. QED
        BY <1>0, <1>4, <2>1 DEF Alike
<1>. QED
    BY <1>1, <1>2, <1>3, <1>4

\* What an int makes of a length does not matter for a frame below the limit.
LEMMA AsIntIs ==
    ASSUME NEW frame \in Frame, Fits(frame)
    PROVE  /\ AsInt(frame.len) \in Int /\ AsInt(frame.len) <= frame.len
           /\ frame.len < IntLimit => AsInt(frame.len) = frame.len
           /\ frame.len >= IntLimit => AsInt(frame.len) < 0
BY StreamsAssumption DEF AsInt, Frame, Fits

\* The payload: too long, read, or not there yet, which is an exception if the length is no int.
LEMMA PayloadIs ==
    ASSUME NEW r \in Reader, NEW frame \in Frame, Fits(frame), Begun(r, frame),
           r.result = "more", r.parseState \in Waiting
    PROVE  LET p == ReadPayload(r, frame)
           IN  /\ Alike(r, p)
               /\ p.raised = r.raised \/ frame.len >= IntLimit
               /\ \/ p = r /\ r.parseState # "WAITING_FOR_PAYLOAD"
                  \/ p.result = "frameTooLarge" /\ ~Acceptable(frame) /\ p.parseState # "COMPLETE"
                  \/ /\ p.result = "complete" /\ Acceptable(frame)
                     /\ p.avail + Size(frame) = r.avail + Done(r, frame)
                  \/ /\ p.result = "more" /\ p.parseState = "WAITING_FOR_PAYLOAD"
                     /\ r.parseState = "WAITING_FOR_PAYLOAD"
                     /\ Acceptable(frame) /\ p.avail = r.avail /\ p.avail < frame.len
<1> DEFINE p == ReadPayload(r, frame)
           length == AsInt(frame.len)
<1>1. /\ length \in Int /\ length <= frame.len /\ frame.len \in Nat /\ MaxFrameSize \in Nat
      /\ length # frame.len => frame.len >= IntLimit
      /\ r.avail \in Nat /\ IntLimit \in Nat
    BY AsIntIs, StreamsAssumption DEF Frame, Reader
<1>2. CASE r.parseState # "WAITING_FOR_PAYLOAD"
    <2>1. p = r
        BY <1>2 DEF ReadPayload
    <2>. QED
        BY <1>1, <1>2, <2>1 DEF Alike
<1>3. CASE r.parseState = "WAITING_FOR_PAYLOAD"
    <2>1. Done(r, frame) = HeaderSize(frame) /\ HeaderSize(frame) \in Nat
          /\ Size(frame) = HeaderSize(frame) + frame.len
        BY <1>3, SizeType DEF Done
    <2>2. Acceptable(frame) <=> length <= MaxFrameSize
        BY <1>3 DEF Begun, Waiting, Acceptable
    <2>3. CASE length > MaxFrameSize
        <3>1. p = [r EXCEPT !.result = "frameTooLarge"]
            BY <1>1, <1>3, <2>3 DEF ReadPayload
        <3>2. /\ Alike(r, p) /\ p.raised = r.raised /\ p.result = "frameTooLarge"
              /\ p.parseState = r.parseState
            <4> DEFINE a == r.avail
            <4>1. a \in Nat /\ a <= r.avail /\ "frameTooLarge" \in Results
                BY <1>1 DEF Results
            <4>2. r.avail = a /\ [r EXCEPT !.avail = a] = r
                BY DEF Reader
            <4>3. p = Bad(r, a, "frameTooLarge")
                BY <3>1, <4>2 DEF Bad
            <4> HIDE DEF a, p
            <4>. QED
                BY <4>1, <4>3, Judged
        <3>. QED
            BY <1>1, <1>3, <2>2, <2>3, <3>2
    <2>4. CASE length <= MaxFrameSize /\ r.avail >= length /\ r.avail >= frame.len
        <3>1. p = [r EXCEPT !.avail = @ - frame.len,
                            !.parseState = "COMPLETE", !.result = "complete"]
            BY <1>1, <1>3, <2>4 DEF ReadPayload
        <3>2. /\ Alike(r, p) /\ p.raised = r.raised /\ p.result = "complete"
              /\ p.avail = r.avail - frame.len
            <4>1. r.avail - frame.len \in Nat
                BY <1>1, <2>4
            <4> DEFINE a == r.avail - frame.len
            <4>2. /\ a \in Nat /\ a <= r.avail /\ a = r.avail - frame.len
                  /\ "COMPLETE" \in States /\ "complete" \in Results
                BY <1>1, <4>1 DEF States, Results
            <4>3. p = Whole(r, a, "COMPLETE", "complete")
                BY <3>1 DEF Whole
            <4> HIDE DEF a, p
            <4>4. /\ Alike(r, p) /\ p.avail = a
                  /\ p.result = "complete" /\ p.raised = r.raised
                BY <4>2, <4>3, Finished
            <4>. QED
                BY <4>2, <4>4
        <3>. QED
            BY <1>1, <2>1, <2>2, <2>4, <3>2
    <2>5. CASE length <= MaxFrameSize /\ r.avail >= length /\ ~(r.avail >= frame.len)
        <3>1. p = [r EXCEPT !.raised = TRUE]
            BY <1>1, <1>3, <2>5 DEF ReadPayload
        <3>2. /\ Alike(r, p) /\ p.result = "more" /\ p.parseState = "WAITING_FOR_PAYLOAD"
              /\ p.avail = r.avail
            <4>1. p = Raise(r)
                BY <3>1 DEF Raise
            <4> HIDE DEF p
            <4>2. /\ Alike(r, p) /\ p.avail = r.avail /\ p.parseState = r.parseState
                  /\ p.result = r.result
                BY <4>1, Raised
            <4>. QED
                BY <1>3, <4>2
        <3>. QED
            BY <1>1, <1>3, <2>2, <2>5, <3>2
    <2>6. CASE length <= MaxFrameSize /\ ~(r.avail >= length)
        <3>1. p = r
            BY <1>1, <1>3, <2>6 DEF ReadPayload
        <3>. QED
            BY <1>1, <1>3, <2>2, <2>6, <3>1 DEF Alike
    <2>. QED
        BY <1>1, <2>3, <2>4, <2>5, <2>6
<1>. QED
    BY <1>2, <1>3

\* After addData a frame is found bad, or complete, or waits for more than is there.
LEMMA AddDataIs ==
    ASSUME NEW r \in Reader, NEW frame \in Frame, Fits(frame), Begun(r, frame),
           r.result = "more", r.avail >= 2, r.parseState # "COMPLETE"
    PROVE  LET d == AddData(r, frame)
           IN  /\ Alike(r, d)
               /\ d.raised = r.raised \/ frame.len >= IntLimit
               /\ \/ d.result \in {"protocolError", "frameTooLarge"} /\ ~Acceptable(frame)
                     /\ d.parseState # "COMPLETE"
                  \/ /\ d.result = "complete" /\ Acceptable(frame)
                     /\ d.avail + Size(frame) = r.avail + Done(r, frame)
                  \/ /\ d.result = "more" /\ Begun(d, frame) /\ d.parseState \in Waiting
                     /\ d.avail + Done(d, frame) = r.avail + Done(r, frame)
                     /\ d.parseState = "WAITING_FOR_16_BIT_LENGTH" => d.avail < 2
                     /\ d.parseState = "WAITING_FOR_64_BIT_LENGTH" => d.avail < 8
                     /\ d.parseState = "WAITING_FOR_PAYLOAD" => Acceptable(frame) /\ d.avail < frame.len
<1> DEFINE h == ReadHeader(r, frame)
           l == ReadLength(h, frame)
           p == ReadPayload(l, frame)
           d == AddData(r, frame)
<1>1. d = IF h.result # "more" THEN h ELSE IF l.result # "more" THEN l ELSE p
    <2>1. ~(r.avail < 2)
        BY DEF Reader
    <2>. QED
        BY <2>1 DEF AddData
<1>2. /\ Alike(r, h) /\ h.raised = r.raised
      /\ \/ h.result = "protocolError" /\ ~frame.legal /\ h.parseState # "COMPLETE"
         \/ /\ h.result = "more" /\ Begun(h, frame) /\ h.parseState \in Waiting
            /\ h.avail + Done(h, frame) = r.avail + Done(r, frame)
    BY HeaderIs
<1> HIDE DEF d, h
<1>3. CASE h.result # "more"
    <2>1. d = h
        BY <1>1, <1>3
    <2>. QED
        BY <1>2, <1>3, <2>1 DEF Acceptable, d
<1>4. CASE h.result = "more"
    <2>1. /\ h \in Reader /\ Begun(h, frame) /\ h.parseState \in Waiting
          /\ h.avail + Done(h, frame) = r.avail + Done(r, frame)
        BY <1>2, <1>4 DEF Alike
    <2>2. /\ Alike(h, l) /\ l.raised = h.raised
          /\ \/ l.result = "frameTooLarge" /\ frame.huge /\ l.parseState # "COMPLETE"
             \/ /\ l.result = "more" /\ Begun(l, frame) /\ l.parseState \in Waiting
                /\ l.avail + Done(l, frame) = h.avail + Done(h, frame)
                /\ l.parseState = "WAITING_FOR_16_BIT_LENGTH" => l.avail < 2
                /\ l.parseState = "WAITING_FOR_64_BIT_LENGTH" => l.avail < 8
        BY <1>4, <2>1, LengthIs
    <2> HIDE DEF l
    <2>3. Alike(r, l) /\ l.raised = r.raised
        BY <1>2, <2>2 DEF Alike, Reader
    <2>4. CASE l.result # "more"
        <3>1. d = l
            BY <1>1, <1>4, <2>4
        <3>. QED
            BY <2>2, <2>3, <2>4, <3>1 DEF Acceptable, d
    <2>5. CASE l.result = "more"
        <3>1. d = p
            BY <1>1, <1>4, <2>5
        <3>2. /\ l \in Reader /\ Begun(l, frame) /\ l.parseState \in Waiting
              /\ l.avail + Done(l, frame) = r.avail + Done(r, frame)
            BY <2>1, <2>2, <2>5 DEF Alike
        <3>3. /\ Alike(l, p)
              /\ p.raised = l.raised \/ frame.len >= IntLimit
              /\ \/ p = l /\ l.parseState # "WAITING_FOR_PAYLOAD"
                 \/ p.result = "frameTooLarge" /\ ~Acceptable(frame) /\ p.parseState # "COMPLETE"
                 \/ /\ p.result = "complete" /\ Acceptable(frame)
                    /\ p.avail + Size(frame) = l.avail + Done(l, frame)
                 \/ /\ p.result = "more" /\ p.parseState = "WAITING_FOR_PAYLOAD"
                    /\ l.parseState = "WAITING_FOR_PAYLOAD"
                    /\ Acceptable(frame) /\ p.avail = l.avail /\ p.avail < frame.len
            BY <2>5, <3>2, PayloadIs
        <3> HIDE DEF p
        <3>4. Alike(r, p) /\ (p.raised = r.raised \/ frame.len >= IntLimit)
            BY <2>3, <3>3 DEF Alike, Reader
        <3>5. CASE p = l /\ l.parseState # "WAITING_FOR_PAYLOAD"
            BY <2>2, <2>5, <3>1, <3>2, <3>4, <3>5 DEF d
        <3>6. CASE p.result = "frameTooLarge" /\ ~Acceptable(frame) /\ p.parseState # "COMPLETE"
            BY <3>1, <3>4, <3>6 DEF d
        <3>7. CASE /\ p.result = "complete" /\ Acceptable(frame)
                   /\ p.avail + Size(frame) = l.avail + Done(l, frame)
            BY <3>1, <3>2, <3>4, <3>7 DEF d
        <3>8. CASE /\ p.result = "more" /\ p.parseState = "WAITING_FOR_PAYLOAD"
                   /\ l.parseState = "WAITING_FOR_PAYLOAD"
                   /\ Acceptable(frame) /\ p.avail = l.avail /\ p.avail < frame.len
            <4>1. Begun(p, frame) /\ p.parseState \in Waiting
                BY <3>8 DEF Begun, Waiting, Acceptable
            <4>2. Done(p, frame) = Done(l, frame)
                BY <3>8 DEF Done
            <4>. QED
                BY <3>1, <3>2, <3>4, <3>8, <4>1, <4>2 DEF d
        <3>. QED
            BY <3>3, <3>5, <3>6, <3>7, <3>8
    <2>. QED
        BY <2>4, <2>5
<1>. QED
    BY <1>3, <1>4

-----------------------------------------------------------------------------
(* The invariant: a loop that has read what there is *)

\* What is known of the loop at any turn, n bytes having arrived: the frames before the
\* current one were acceptable and were delivered, every byte is in the frames delivered,
\* in the read part of the current one or unread, and a frame is dropped for a reason.
Delivered(r) ==
    /\ r.next \in 1 .. Len(stream) + 1
    /\ r.delivered = [i \in 1 .. r.next - 1 |-> i]
    /\ \A i \in 1 .. r.next - 1 : Acceptable(stream[i])
Current(r, n) ==
    /\ r.next <= Len(stream) => Begun(r, stream[r.next])
    /\ r.next <= Len(stream) /\ r.parseState = "WAITING_FOR_PAYLOAD" =>
            Acceptable(stream[r.next]) /\ stream[r.next].len >= 1
    /\ r.next > Len(stream) => r.parseState = "NEW_FRAME"
    /\ r.result = "more"
    /\ n = Ends(stream)[r.next - 1] + Done(r, stream[r.next]) + r.avail
Rejected(r, n) ==
    /\ r.next <= Len(stream) /\ ~Acceptable(stream[r.next])
    /\ r.result \in {"protocolError", "frameTooLarge"}
    /\ Ends(stream)[r.next - 1] + r.avail <= n
Reading(r, n) ==
    /\ r \in Reader /\ r.parseState # "COMPLETE"
    /\ Delivered(r)
    /\ r.raised => \E i \in 1 .. Len(stream) : stream[i].len >= IntLimit
    /\ IF r.dropped THEN Rejected(r, n) ELSE Current(r, n)

\* The loop has ended, or a turn more finds too few bytes for the next step.
Short(r, frame) ==
    \/ r.avail <= 1
    \/ r.parseState = "WAITING_FOR_64_BIT_LENGTH" /\ r.avail < 8
    \/ r.parseState = "WAITING_FOR_PAYLOAD" /\ r.avail < frame.len
Stuck(r) == r.dropped \/ r.next > Len(stream) \/ Short(r, stream[r.next])

\* What stays of a short frame, and how many bytes of the stream it may have.
LEMMA ShortIs ==
    ASSUME stream \in Streams, NEW n, NEW r, Reading(r, n), ~r.dropped, r.next <= Len(stream),
           Short(r, stream[r.next])
    PROVE  LET frame == stream[r.next]
           IN  /\ r.avail >= 2 => r.avail + Done(r, frame) < Size(frame)
               /\ n <= Ends(stream)[r.next]
               /\ \/ n < Ends(stream)[r.next - 1] + HeaderSize(frame)
                  \/ /\ Acceptable(frame)
                     /\ n = Ends(stream)[r.next] => r.avail = 1 /\ frame.len = 1
<1> DEFINE frame == stream[r.next]
<1>1. /\ r \in Reader /\ r.next \in 1 .. Len(stream) /\ r.parseState # "COMPLETE"
      /\ Begun(r, frame)
      /\ r.parseState = "WAITING_FOR_PAYLOAD" => Acceptable(frame) /\ frame.len >= 1
      /\ n = Ends(stream)[r.next - 1] + Done(r, frame) + r.avail
    <2>1. r.next \in 1 .. Len(stream) + 1 /\ Len(stream) \in Nat
        BY FrameIs DEF Reading, Delivered
    <2>2. r.next \in 1 .. Len(stream)
        BY <2>1
    <2>. QED
        BY <2>2 DEF Reading, Current
<1>2. /\ r.avail \in Nat
      /\ r.parseState \in {"NEW_FRAME", "WAITING_FOR_16_BIT_LENGTH", "WAITING_FOR_64_BIT_LENGTH",
                           "WAITING_FOR_PAYLOAD"}
    BY <1>1 DEF Reader, States, Waiting
<1>3. /\ frame \in Frame
      /\ Ends(stream)[r.next] = Ends(stream)[r.next - 1] + Size(frame)
      /\ Ends(stream)[r.next - 1] \in Nat
    <2>1. r.next - 1 \in 0 .. Len(stream)
        BY <1>1, FrameIs
    <2>. QED
        BY <1>1, <2>1, FrameIs, EndsAre
<1>4. /\ HeaderSize(frame) \in Nat /\ HeaderSize(frame) >= 2
      /\ Size(frame) = HeaderSize(frame) + frame.len /\ frame.len \in Nat
      /\ frame.form = 16 => HeaderSize(frame) = 4
      /\ frame.form = 64 => HeaderSize(frame) = 10
    <2>1. /\ HeaderSize(frame) \in Nat /\ HeaderSize(frame) >= 2
          /\ Size(frame) = HeaderSize(frame) + frame.len /\ frame.len \in Nat
        BY <1>3, SizeType
    <2>2. frame.form = 16 => HeaderSize(frame) = 4
        BY DEF HeaderSize
    <2>3. frame.form = 64 => HeaderSize(frame) = 10
        BY DEF HeaderSize
    <2>. QED
        BY <2>1, <2>2, <2>3
<1> DEFINE n0 == Ends(stream)[r.next - 1]
           n1 == Ends(stream)[r.next]
           done == Done(r, frame)
           header == HeaderSize(frame)
           size == Size(frame)
<1>9. /\ n = n0 + done + r.avail /\ n1 = n0 + size /\ n0 \in Nat
      /\ header \in Nat /\ header >= 2 /\ size = header + frame.len /\ frame.len \in Nat
      /\ r.avail \in Nat
    BY <1>1, <1>2, <1>3, <1>4
<1> DEFINE Goal == /\ r.avail >= 2 => r.avail + done < size
                   /\ n <= n1
                   /\ \/ n < n0 + header
                      \/ Acceptable(frame) /\ (n = n1 => r.avail = 1 /\ frame.len = 1)
<1>5. ASSUME r.parseState = "NEW_FRAME" PROVE Goal
    <2>1. Done(r, frame) = 0 /\ r.avail <= 1
        BY <1>5 DEF Done, Short
    <2>2. done = 0 /\ r.avail <= 1
        BY <2>1
    <2> HIDE DEF frame, n0, n1, done, header, size
    <2>3. r.avail >= 2 => r.avail + done < size
        BY <1>9, <2>2
    <2>4. n <= n1
        BY <1>9, <2>2
    <2>5. n < n0 + header
        BY <1>9, <2>2
    <2>. QED
        BY <2>3, <2>4, <2>5
<1>6. ASSUME r.parseState = "WAITING_FOR_16_BIT_LENGTH" PROVE Goal
    <2>1. Done(r, frame) = 2 /\ r.avail <= 1 /\ HeaderSize(frame) = 4
        BY <1>1, <1>4, <1>6 DEF Done, Short, Begun
    <2>2. done = 2 /\ r.avail <= 1 /\ header = 4
        BY <2>1
    <2> HIDE DEF frame, n0, n1, done, header, size
    <2>3. r.avail >= 2 => r.avail + done < size
        BY <1>9, <2>2
    <2>4. n <= n1
        BY <1>9, <2>2
    <2>5. n < n0 + header
        BY <1>9, <2>2
    <2>. QED
        BY <2>3, <2>4, <2>5
<1>7. ASSUME r.parseState = "WAITING_FOR_64_BIT_LENGTH" PROVE Goal
    <2>1. Done(r, frame) = 2 /\ r.avail < 8 /\ HeaderSize(frame) = 10
        BY <1>1, <1>2, <1>4, <1>7 DEF Done, Short, Begun
    <2>2. done = 2 /\ r.avail < 8 /\ header = 10
        BY <2>1
    <2> HIDE DEF frame, n0, n1, done, header, size
    <2>3. r.avail >= 2 => r.avail + done < size
        BY <1>9, <2>2
    <2>4. n <= n1
        BY <1>9, <2>2
    <2>5. n < n0 + header
        BY <1>9, <2>2
    <2>. QED
        BY <2>3, <2>4, <2>5
<1>8. ASSUME r.parseState = "WAITING_FOR_PAYLOAD" PROVE Goal
    <2>1. /\ Done(r, frame) = HeaderSize(frame) /\ Acceptable(frame) /\ frame.len >= 1
          /\ r.avail <= 1 \/ r.avail < frame.len
        BY <1>1, <1>8 DEF Done, Short
    <2>2. /\ done = header /\ Acceptable(frame) /\ frame.len >= 1
          /\ r.avail <= 1 \/ r.avail < frame.len
        BY <2>1
    <2> HIDE DEF frame, n0, n1, done, header, size
    <2>3. r.avail >= 2 => r.avail + done < size
        BY <1>9, <2>2
    <2>4. n <= n1
        BY <1>9, <2>2
    <2>5. n = n1 => r.avail = frame.len
        BY <1>9, <2>2
    <2>6. n = n1 => r.avail = 1 /\ frame.len = 1
        BY <1>9, <2>2, <2>5
    <2>. QED
        BY <2>2, <2>3, <2>4, <2>6
<1>. QED
    BY <1>2, <1>5, <1>6, <1>7, <1>8

\* A frame handed to processFrame, and one for which the connection is dropped.
Deliver(d) == [d EXCEPT !.delivered = Append(@, d.next), !.next = @ + 1,
                        !.parseState = "NEW_FRAME", !.result = "more"]
Drop(d) == [d EXCEPT !.dropped = TRUE]

\* Delivering makes the next frame the current one.
LEMMA DeliverIs ==
    ASSUME NEW d \in Reader, NEW t, t = Deliver(d)
    PROVE  /\ t \in Reader /\ t.delivered = Append(d.delivered, d.next) /\ t.next = d.next + 1
           /\ t.parseState = "NEW_FRAME" /\ t.result = "more"
           /\ t.avail = d.avail /\ t.dropped = d.dropped /\ t.raised = d.raised
<1>1. d.delivered \in Seq(Nat) /\ d.next \in Nat \ {0}
    BY DEF Reader
<1>2. Append(d.delivered, d.next) \in Seq(Nat) /\ d.next + 1 \in Nat \ {0}
    BY <1>1
<1>3. t \in Reader
    BY <1>2 DEF Reader, Deliver, States, Results
<1>4. /\ t.delivered = Append(d.delivered, d.next) /\ t.next = d.next + 1
      /\ t.parseState = "NEW_FRAME" /\ t.result = "more"
      /\ t.avail = d.avail /\ t.dropped = d.dropped /\ t.raised = d.raised
    BY DEF Reader, Deliver
<1>. QED
    BY <1>3, <1>4

\* Dropping stops the loop and leaves the rest.
LEMMA DropIs ==
    ASSUME NEW d \in Reader, NEW t, t = Drop(d)
    PROVE  /\ t \in Reader /\ t.delivered = d.delivered /\ t.next = d.next
           /\ t.parseState = d.parseState /\ t.result = d.result
           /\ t.avail = d.avail /\ t.dropped /\ t.raised = d.raised
<1>1. t \in Reader
    BY DEF Reader, Drop
<1>2. /\ t.delivered = d.delivered /\ t.next = d.next
      /\ t.parseState = d.parseState /\ t.result = d.result
      /\ t.avail = d.avail /\ t.dropped /\ t.raised = d.raised
    BY DEF Reader, Drop
<1>. QED
    BY <1>1, <1>2

\* One more delivered is one more at the end.
LEMMA AppendNext ==
    ASSUME NEW k \in Nat \ {0}, NEW s, s = [i \in 1 .. k - 1 |-> i]
    PROVE  Append(s, k) = [i \in 1 .. (k + 1) - 1 |-> i]
<1>1. s \in Seq(Nat) /\ Len(s) = k - 1
    OBVIOUS
<1>2. Append(s, k) = [i \in 1 .. Len(s) + 1 |-> IF i = Len(s) + 1 THEN k ELSE s[i]]
    BY <1>1
<1>. QED
    BY <1>1, <1>2

\* One turn of the loop keeps what is known of it; it ends the loop or delivers a frame,
\* and a loop that has ended has ended.
LEMMA TurnIs ==
    ASSUME stream \in Streams, NEW n, NEW r, Reading(r, n)
    PROVE  /\ Reading(Turn(r), n)
           /\ Stuck(Turn(r)) \/ Turn(r).next = r.next + 1
           /\ Stuck(r) => Stuck(Turn(r))
<1> DEFINE t == Turn(r)
           frame == stream[r.next]
           d == AddData(r, frame)
<1>1. CASE r.dropped \/ r.next > Len(stream)
    <2>1. t = r
        BY <1>1 DEF Turn
    <2>. QED
        BY <1>1, <2>1 DEF Stuck
<1>2. CASE ~(r.dropped \/ r.next > Len(stream)) /\ r.avail < 2
    <2>1. t = r
        <3>1. d = r
            BY <1>2 DEF AddData
        <3>2. d.result = "more"
            BY <1>2, <3>1 DEF Reading, Current
        <3>. QED
            BY <1>2, <3>1, <3>2 DEF Turn
    <2>2. Short(r, frame)
        BY <1>2 DEF Short, Reading, Reader
    <2>. QED
        BY <2>1, <2>2 DEF Stuck
<1>3. CASE ~(r.dropped \/ r.next > Len(stream)) /\ r.avail >= 2
    <2>1. /\ r \in Reader /\ ~r.dropped /\ r.dropped \in BOOLEAN /\ r.next \in 1 .. Len(stream)
          /\ r.parseState # "COMPLETE" /\ r.avail \in Nat /\ r.next \in Nat \ {0}
          /\ Len(stream) \in Nat /\ r.next <= Len(stream)
        BY <1>3, FrameIs DEF Reading, Reader, Delivered
    <2>2. frame \in Frame /\ Fits(frame)
        BY <2>1, FrameIs
    <2>3. /\ Begun(r, frame) /\ r.result = "more"
          /\ n = Ends(stream)[r.next - 1] + Done(r, frame) + r.avail
        BY <2>1 DEF Reading, Current
    <2>4. /\ r.delivered = [i \in 1 .. r.next - 1 |-> i]
          /\ \A i \in 1 .. r.next - 1 : Acceptable(stream[i])
          /\ r.raised => \E i \in 1 .. Len(stream) : stream[i].len >= IntLimit
        BY DEF Reading, Delivered
    <2>5. /\ Alike(r, d)
          /\ d.raised = r.raised \/ frame.len >= IntLimit
          /\ \/ d.result \in {"protocolError", "frameTooLarge"} /\ ~Acceptable(frame)
                /\ d.parseState # "COMPLETE"
             \/ /\ d.result = "complete" /\ Acceptable(frame)
                /\ d.avail + Size(frame) = r.avail + Done(r, frame)
             \/ /\ d.result = "more" /\ Begun(d, frame) /\ d.parseState \in Waiting
                /\ d.avail + Done(d, frame) = r.avail + Done(r, frame)
                /\ d.parseState = "WAITING_FOR_16_BIT_LENGTH" => d.avail < 2
                /\ d.parseState = "WAITING_FOR_64_BIT_LENGTH" => d.avail < 8
                /\ d.parseState = "WAITING_FOR_PAYLOAD" => Acceptable(frame) /\ d.avail < frame.len
        BY <1>3, <2>1, <2>2, <2>3, AddDataIs
    <2>6. t = CASE d.result = "more"     -> d
                [] d.result = "complete" -> Deliver(d)
                [] OTHER                 -> Drop(d)
        BY <1>3 DEF Turn, Deliver, Drop
    <2> HIDE DEF d, t
    <2>7. /\ d \in Reader /\ d.next = r.next /\ d.delivered = r.delivered /\ ~d.dropped
          /\ d.avail \in Nat /\ d.avail <= r.avail
        BY <2>1, <2>5 DEF Alike, Reader
    <2>8. d.raised => \E i \in 1 .. Len(stream) : stream[i].len >= IntLimit
        BY <2>1, <2>4, <2>5
    <2>9. /\ Ends(stream)[r.next - 1] \in Nat
          /\ Ends(stream)[r.next] = Ends(stream)[r.next - 1] + Size(frame)
        <3>1. r.next - 1 \in 0 .. Len(stream)
            BY <2>1
        <3>. QED
            BY <2>1, <3>1, EndsAre
    <2>10. /\ Size(frame) \in Nat /\ frame.len \in Nat /\ HeaderSize(frame) \in Nat
           /\ HeaderSize(frame) >= 2 /\ Size(frame) = HeaderSize(frame) + frame.len
           /\ Done(r, frame) \in Nat
        <3>1. /\ Size(frame) \in Nat /\ frame.len \in Nat /\ HeaderSize(frame) \in Nat
              /\ HeaderSize(frame) >= 2 /\ Size(frame) = HeaderSize(frame) + frame.len
            BY <2>2, SizeType
        <3>. QED
            BY <3>1 DEF Done
    <2> DEFINE begin == Ends(stream)[r.next - 1]
               end == Ends(stream)[r.next]
               done == Done(r, frame)
               left == Done(d, frame)
               size == Size(frame)
    <2>14. /\ n = begin + done + r.avail /\ begin \in Nat /\ end = begin + size /\ size \in Nat
           /\ done \in Nat /\ left \in Nat
           /\ r.avail \in Nat /\ d.avail \in Nat /\ d.avail <= r.avail
        <3>1. left \in Nat
            BY <2>10 DEF Done
        <3>. QED
            BY <2>1, <2>3, <2>7, <2>9, <2>10, <3>1
    <2>11. CASE d.result \in {"protocolError", "frameTooLarge"}
        <3>1. t = Drop(d) /\ ~Acceptable(frame) /\ d.parseState # "COMPLETE"
            BY <2>5, <2>6, <2>11
        <3>2. /\ t \in Reader /\ t.delivered = d.delivered /\ t.next = d.next
              /\ t.parseState = d.parseState /\ t.result = d.result
              /\ t.avail = d.avail /\ t.dropped /\ t.raised = d.raised
            BY <2>7, <3>1, DropIs
        <3>3. Rejected(t, n)
            <4>1. Ends(stream)[t.next - 1] = begin
                BY <2>7, <3>2
            <4>3. begin + t.avail <= n
                <5> HIDE DEF begin, end, done, left, size
                <5>. QED
                    BY <2>14, <3>2
            <4>2. t.next <= Len(stream) /\ ~Acceptable(stream[t.next])
                BY <2>1, <2>7, <3>1, <3>2
            <4>. QED
                BY <2>11, <3>2, <4>1, <4>2, <4>3 DEF Rejected
        <3>4. Delivered(t)
            BY <2>1, <2>4, <2>7, <3>2 DEF Delivered
        <3>5. Reading(t, n)
            BY <2>8, <3>1, <3>2, <3>3, <3>4 DEF Reading
        <3>. QED
            BY <3>2, <3>5 DEF Stuck, t
    <2>12. CASE d.result = "complete"
        <3>1. /\ t = Deliver(d) /\ Acceptable(frame)
              /\ d.avail + Size(frame) = r.avail + Done(r, frame)
            BY <2>5, <2>6, <2>12
        <3>2. /\ t \in Reader /\ t.delivered = Append(d.delivered, d.next) /\ t.next = d.next + 1
              /\ t.parseState = "NEW_FRAME" /\ t.result = "more"
              /\ t.avail = d.avail /\ t.dropped = d.dropped /\ t.raised = d.raised
            BY <2>7, <3>1, DeliverIs
        <3>3. Delivered(t)
            <4>1. t.next \in 1 .. Len(stream) + 1 /\ t.next = r.next + 1
                BY <2>1, <2>7, <3>2
            <4>2. t.delivered = [i \in 1 .. (r.next + 1) - 1 |-> i]
                BY <2>1, <2>4, <2>7, <3>2, AppendNext
            <4>3. ASSUME NEW i \in 1 .. t.next - 1 PROVE Acceptable(stream[i])
                <5>1. i = r.next \/ i \in 1 .. r.next - 1
                    BY <2>1, <4>1
                <5>. QED
                    BY <2>4, <3>1, <5>1
            <4>. QED
                BY <4>1, <4>2, <4>3 DEF Delivered
        <3>4. Current(t, n)
            <4>1. Done(t, stream[t.next]) = 0
                BY <3>2 DEF Done
            <4>2. Begun(t, stream[t.next])
                BY <3>2 DEF Begun, Waiting
            <4>3. Ends(stream)[t.next - 1] = Ends(stream)[r.next]
                BY <2>1, <2>7, <3>2
            <4>4. n = end + d.avail
                <5>1. d.avail + size = r.avail + done
                    BY <3>1
                <5> HIDE DEF begin, end, done, left, size
                <5>. QED
                    BY <2>14, <5>1
            <4>5. n = Ends(stream)[t.next - 1] + Done(t, stream[t.next]) + t.avail
                <5>1. end \in Nat /\ end + 0 = end
                    BY <2>14
                <5>. QED
                    BY <3>2, <4>1, <4>3, <4>4, <5>1
            <4>. QED
                BY <3>2, <4>2, <4>5 DEF Current
        <3>5. Reading(t, n)
            BY <2>7, <2>8, <3>2, <3>3, <3>4 DEF Reading
        <3>6. ~Stuck(r)
            <4>1. ~Short(r, frame)
                <5> SUFFICES ASSUME Short(r, frame) PROVE FALSE
                    OBVIOUS
                <5>1. r.avail + Done(r, frame) < Size(frame)
                    BY <1>3, <2>1, ShortIs
                <5>. QED
                    BY <2>1, <2>7, <2>10, <3>1, <5>1
            <4>. QED
                BY <1>3, <4>1 DEF Stuck
        <3>. QED
            BY <2>7, <3>2, <3>5, <3>6 DEF t
    <2>13. CASE d.result = "more"
        <3>1. t = d
            BY <2>6, <2>13
        <3>2. /\ Begun(d, frame) /\ d.parseState \in Waiting
              /\ d.avail + Done(d, frame) = r.avail + Done(r, frame)
              /\ d.parseState = "WAITING_FOR_16_BIT_LENGTH" => d.avail < 2
              /\ d.parseState = "WAITING_FOR_64_BIT_LENGTH" => d.avail < 8
              /\ d.parseState = "WAITING_FOR_PAYLOAD" => Acceptable(frame) /\ d.avail < frame.len
            BY <2>5, <2>13
        <3>3. Short(d, frame)
            BY <2>7, <3>2 DEF Short, Waiting
        <3>4. Current(d, n)
            <4>1. d.parseState = "WAITING_FOR_PAYLOAD" => frame.len >= 1
                BY <2>7, <2>10, <3>2
            <4>2. d.avail + left = r.avail + done
                BY <3>2
            <4>3. n = begin + left + d.avail
                <5> HIDE DEF begin, end, done, left, size
                <5>. QED
                    BY <2>14, <4>2
            <4>. QED
                BY <2>1, <2>7, <2>13, <3>2, <4>1, <4>3 DEF Current
        <3>5. Delivered(d)
            BY <2>1, <2>4, <2>7 DEF Delivered
        <3>6. d.parseState # "COMPLETE"
            BY <3>2 DEF Waiting
        <3>7. Reading(d, n)
            BY <2>7, <2>8, <3>4, <3>5, <3>6 DEF Reading
        <3>8. Stuck(d)
            BY <2>7, <3>3 DEF Stuck
        <3>. QED
            BY <3>1, <3>7, <3>8 DEF t
    <2>. QED
        BY <2>5, <2>11, <2>12, <2>13
<1>4. r.avail < 2 \/ r.avail >= 2
    BY DEF Reading, Reader
<1>. QED
    BY <1>1, <1>2, <1>3, <1>4

-----------------------------------------------------------------------------
(* The loop *)

\* The readers that the loop may have, n bytes having arrived.
Readers(n) == {t \in Reader : Reading(t, n)}

\* As many turns as there are frames end the loop: each turn that does not, delivers one.
LEMMA HandleSocketDataIs ==
    ASSUME stream \in Streams, NEW n, NEW r, Reading(r, n)
    PROVE  Reading(HandleSocketData(r), n) /\ Stuck(HandleSocketData(r))
<1> DEFINE N == Len(stream)
           V == Readers(n)
           step == [i \in 1 .. N |-> [v \in V |-> Turn(v)]]
           IsAfter(f) == f = [i \in 0 .. N |-> IF i = 0 THEN r ELSE Turn(f[i - 1])]
<1>1. N \in Nat
    BY FrameIs
<1>2. r \in V
    BY DEF Readers, Reading
<1>3. \A v \in V : Turn(v) \in V
    BY TurnIs DEF Readers, Reading
<1>4. step \in Steps(N, V)
    <2> HIDE DEF V, N
    <2>. QED
        BY <1>3 DEF Steps
<1>5. \E f \in [0 .. N -> V] : IsAfter(f)
    <2> HIDE DEF step, N, V
    <2>1. PICK f : Follows(f, N, V, r, step)
        BY <1>1, <1>2, <1>4, RecursionExists
    <2>2. ASSUME NEW i \in 0 .. N PROVE f[i] = IF i = 0 THEN r ELSE Turn(f[i - 1])
        <3>1. CASE i = 0
            BY <2>1, <3>1 DEF Follows
        <3>2. CASE i # 0
            <4>1. i \in 1 .. N /\ i - 1 \in 0 .. N
                BY <1>1, <3>2
            <4>2. f[i - 1] \in V
                BY <2>1, <4>1 DEF Follows
            <4>3. step[i][f[i - 1]] = Turn(f[i - 1])
                BY <4>1, <4>2 DEF step
            <4>4. f[i] = step[i][f[i - 1]]
                BY <2>1, <4>1 DEF Follows
            <4>. QED
                BY <3>2, <4>3, <4>4
        <3>. QED
            BY <3>1, <3>2
    <2>3. IsAfter(f)
        BY <2>1, <2>2 DEF Follows
    <2>4. f \in [0 .. N -> V]
        BY <2>1 DEF Follows
    <2> HIDE DEF IsAfter
    <2>. QED
        BY <2>3, <2>4
<1>6. PICK after : after = (CHOOSE f : IsAfter(f)) /\ HandleSocketData(r) = after[N]
    BY DEF HandleSocketData
<1>7. IsAfter(after)
    BY <1>5, <1>6
<1>8. after[0] = r /\ \A i \in 0 .. N - 1 : after[i + 1] = Turn(after[i])
    <2> HIDE DEF N
    <2>1. after[0] = r
        BY <1>1, <1>7
    <2>2. ASSUME NEW i \in 0 .. N - 1 PROVE after[i + 1] = Turn(after[i])
        <3>1. i + 1 \in 0 .. N /\ i + 1 # 0 /\ (i + 1) - 1 = i
            BY <1>1
        <3>. QED
            BY <1>7, <3>1
    <2>. QED
        BY <2>1, <2>2
<1> DEFINE S == {i \in Nat : Reading(after[i], n) /\ (Stuck(after[i]) \/ after[i].next > i)}
<1> HIDE DEF N, IsAfter, V
<1>9. 0 \in S
    <2>1. r.next > 0
        BY DEF Reading, Reader
    <2>. QED
        BY <1>8, <2>1
<1>10. ASSUME NEW i \in 0 .. N - 1, i \in S PROVE i + 1 \in S
    <2>1. after[i + 1] = Turn(after[i])
        BY <1>8
    <2>2. /\ Reading(after[i], n) /\ (Stuck(after[i]) \/ after[i].next > i)
          /\ after[i].next \in Nat /\ i \in Nat
        BY <1>10 DEF Reading, Reader
    <2>3. /\ Reading(Turn(after[i]), n)
          /\ Stuck(Turn(after[i])) \/ Turn(after[i]).next = after[i].next + 1
          /\ Stuck(after[i]) => Stuck(Turn(after[i]))
        BY <2>2, TurnIs
    <2>4. Stuck(after[i + 1]) \/ after[i + 1].next > i + 1
        BY <2>1, <2>2, <2>3
    <2>. QED
        BY <2>1, <2>2, <2>3, <2>4
<1>11. N \in S
    <2> HIDE DEF S
    <2>1. 0 .. N \subseteq S
        BY <1>1, <1>9, <1>10, IntervalInduction
    <2>. QED
        BY <1>1, <2>1
<1>12. Reading(after[N], n) /\ (Stuck(after[N]) \/ after[N].next > N)
    BY <1>11
<1>. QED
    BY <1>6, <1>12 DEF Stuck, N

-----------------------------------------------------------------------------
(* The specification *)

IInv ==
    /\ stream \in Streams /\ arrived \in 0 .. Total(stream)
    /\ Reading(reader, arrived) /\ Stuck(reader)

\* A chunk of k bytes, before any of it is read.
Receive(r, k) == [r EXCEPT !.avail = @ + k]

\* What is known of the loop stays known of it with a chunk more to read.
LEMMA ReceiveIs ==
    ASSUME stream \in Streams, NEW n \in Nat, NEW k \in Nat, NEW r, Reading(r, n), ~r.dropped
    PROVE  Reading(Receive(r, k), n + k)
<1> DEFINE t == Receive(r, k)
<1>1. /\ r \in Reader /\ r.parseState # "COMPLETE" /\ Delivered(r) /\ Current(r, n)
      /\ r.avail \in Nat /\ r.avail + k \in Nat
      /\ r.raised => \E i \in 1 .. Len(stream) : stream[i].len >= IntLimit
    BY DEF Reading, Reader
<1>2. /\ t \in Reader /\ t.parseState = r.parseState /\ t.avail = r.avail + k /\ t.next = r.next
      /\ t.result = r.result /\ t.delivered = r.delivered /\ t.dropped = r.dropped
      /\ t.raised = r.raised
    <2>1. t \in Reader
        BY <1>1 DEF Receive, Reader
    <2>2. /\ t.parseState = r.parseState /\ t.avail = r.avail + k /\ t.next = r.next
          /\ t.result = r.result /\ t.delivered = r.delivered /\ t.dropped = r.dropped
          /\ t.raised = r.raised
        BY <1>1 DEF Receive, Reader
    <2>. QED
        BY <2>1, <2>2
<1> HIDE DEF t
<1>3. Delivered(t)
    BY <1>1, <1>2 DEF Delivered
<1>4. Current(t, n + k)
    <2> DEFINE frame == stream[r.next]
               begin == Ends(stream)[r.next - 1]
               done == Done(r, frame)
    <2>1. Done(t, frame) = done
        BY <1>2 DEF Done
    <2>2. n = begin + done + r.avail
        BY <1>1 DEF Current
    <2>3. begin \in Nat /\ done \in Int
        <3>1. r.next - 1 \in 0 .. Len(stream) /\ r.next \in Nat /\ Len(stream) \in Nat
            BY <1>1, FrameIs DEF Delivered
        <3>2. begin \in Nat
            BY <3>1, EndsAre
        <3>3. CASE r.next <= Len(stream)
            <4>1. frame \in Frame
                BY <1>1, <3>1, <3>3, FrameIs DEF Delivered
            <4>. QED
                BY <3>2, <4>1, SizeType DEF Done
        <3>4. CASE ~(r.next <= Len(stream))
            <4>1. r.parseState = "NEW_FRAME"
                BY <1>1, <3>1, <3>4 DEF Current
            <4>. QED
                BY <3>2, <4>1 DEF Done
        <3>. QED
            BY <3>3, <3>4
    <2>4. n + k = begin + done + t.avail
        <3> HIDE DEF begin, done
        <3>. QED
            BY <1>1, <1>2, <2>2, <2>3
    <2>5. Begun(r, frame) <=> Begun(t, frame)
        BY <1>2 DEF Begun
    <2>. QED
        BY <1>1, <1>2, <2>1, <2>4, <2>5 DEF Current
<1>. QED
    BY <1>1, <1>2, <1>3, <1>4 DEF Reading, t

\* The bytes of a stream are a number.
LEMMA TotalType == ASSUME NEW s \in Streams PROVE Total(s) \in Nat
<1>1. Len(s) \in 0 .. Len(s)
    BY FrameIs
<1>. QED
    BY <1>1, EndsAre DEF Total

\* At the start nothing was read and nothing is there.
LEMMA InitIInv == Init => IInv
<1> SUFFICES ASSUME Init PROVE IInv
    OBVIOUS
<1>1. stream \in Streams /\ arrived = 0 /\ reader = NewReader /\ Len(stream) \in Nat
    BY FrameIs DEF Init
<1>2. reader \in Reader
    BY <1>1 DEF NewReader, Reader, States, Results
<1>3. /\ reader.parseState = "NEW_FRAME" /\ reader.avail = 0 /\ reader.next = 1
      /\ reader.result = "more" /\ reader.delivered = <<>>
      /\ reader.dropped = FALSE /\ reader.raised = FALSE
    BY <1>1 DEF NewReader
<1>4. Delivered(reader)
    <2>1. <<>> = [i \in 1 .. 1 - 1 |-> i]
        OBVIOUS
    <2>. QED
        BY <1>1, <1>3, <2>1 DEF Delivered
<1>5. Current(reader, 0)
    <2>1. Done(reader, stream[reader.next]) = 0 /\ Begun(reader, stream[reader.next])
        BY <1>3 DEF Done, Begun, Waiting
    <2>2. Ends(stream)[1 - 1] = 0
        BY <1>1, EndsAre
    <2>. QED
        BY <1>3, <2>1, <2>2 DEF Current
<1>6. Reading(reader, 0)
    BY <1>2, <1>3, <1>4, <1>5 DEF Reading
<1>7. Stuck(reader)
    BY <1>3 DEF Stuck, Short
<1>8. 0 \in 0 .. Total(stream)
    BY <1>1, TotalType
<1>. QED
    BY <1>1, <1>6, <1>7, <1>8 DEF IInv

\* A chunk is received and the loop turns until it ends.
LEMMA NextIInv == IInv /\ [Next]_vars => IInv'
<1> SUFFICES ASSUME IInv, [Next]_vars PROVE IInv'
    OBVIOUS
<1>1. CASE UNCHANGED vars
    BY <1>1 DEF vars, IInv, Reading, Delivered, Current, Rejected, Stuck, Short
<1>2. CASE SocketData
    <2>1. PICK k \in 1 .. (Total(stream) - arrived) :
              /\ ~reader.dropped
              /\ arrived' = arrived + k
              /\ reader' = HandleSocketData([reader EXCEPT !.avail = @ + k])
              /\ UNCHANGED stream
        BY <1>2 DEF SocketData
    <2>2. stream \in Streams /\ arrived \in Nat /\ Total(stream) \in Nat /\ Reading(reader, arrived)
        BY TotalType DEF IInv
    <2>3. k \in Nat /\ arrived + k \in 0 .. Total(stream)
        BY <2>2
    <2>4. Reading(Receive(reader, k), arrived + k)
        BY <2>1, <2>2, <2>3, ReceiveIs
    <2>5. reader' = HandleSocketData(Receive(reader, k))
        BY <2>1 DEF Receive
    <2>6. Reading(reader', arrived') /\ Stuck(reader')
        BY <2>1, <2>2, <2>4, <2>5, HandleSocketDataIs
    <2>7. Reading(reader, arrived)' /\ Stuck(reader)'
        BY <2>1, <2>6 DEF Reading, Delivered, Current, Rejected, Stuck, Short
    <2>. QED
        BY <2>1, <2>2, <2>3, <2>7 DEF IInv
<1>. QED
    BY <1>1, <1>2 DEF Next

\* So the invariant holds always.
LEMMA SpecIInv == Spec => []IInv
<1>. QED
    BY InitIInv, NextIInv, PTL DEF Spec

\* The frames before the current one arrived, and so did what is unread.
LEMMA ReadSoFar ==
    ASSUME IInv
    PROVE  Ends(stream)[reader.next - 1] <= arrived /\ reader.avail <= arrived
<1> DEFINE frame == stream[reader.next]
           begin == Ends(stream)[reader.next - 1]
           done == Done(reader, frame)
<1>1. /\ stream \in Streams /\ reader.avail \in Nat /\ arrived \in Nat
      /\ reader.next \in 1 .. Len(stream) + 1 /\ Len(stream) \in Nat
      /\ reader.next - 1 \in 0 .. Len(stream)
    BY FrameIs, TotalType DEF IInv, Reading, Delivered, Reader
<1>2. begin \in Nat
    BY <1>1, EndsAre
<1>3. CASE reader.dropped
    <2>1. begin + reader.avail <= arrived
        BY <1>3 DEF IInv, Reading, Rejected
    <2> HIDE DEF begin
    <2>. QED
        BY <1>1, <1>2, <2>1 DEF begin
<1>4. CASE ~reader.dropped
    <2>1. Current(reader, arrived)
        BY <1>4 DEF IInv, Reading
    <2>2. done \in Nat
        <3>1. CASE reader.next <= Len(stream)
            <4>1. frame \in Frame
                BY <1>1, <3>1, FrameIs
            <4>. QED
                BY <4>1, SizeType DEF Done
        <3>2. CASE ~(reader.next <= Len(stream))
            <4>1. reader.parseState = "NEW_FRAME"
                BY <1>1, <2>1, <3>2 DEF Current
            <4>. QED
                BY <4>1 DEF Done
        <3>. QED
            BY <3>1, <3>2
    <2>3. arrived = begin + done + reader.avail
        BY <2>1 DEF Current
    <2>4. begin <= arrived /\ reader.avail <= arrived
        <3> HIDE DEF begin, done
        <3>. QED
            BY <1>1, <1>2, <2>2, <2>3
    <2>. QED
        BY <2>4
<1>. QED
    BY <1>3, <1>4

\* The reader is of its type, between the events as at each turn.
THEOREM FrameTypes == Spec => []TypeOK
<1>1. IInv => TypeOK
    <2> SUFFICES ASSUME IInv PROVE TypeOK
        OBVIOUS
    <2>1. /\ stream \in Streams /\ arrived \in 0 .. Total(stream) /\ Total(stream) \in Nat
          /\ reader \in Reader /\ Delivered(reader) /\ reader.parseState # "COMPLETE"
          /\ reader.avail \in Nat
        BY TotalType DEF IInv, Reading, Reader
    <2>2. reader.parseState \in {"NEW_FRAME", "WAITING_FOR_16_BIT_LENGTH",
                                 "WAITING_FOR_64_BIT_LENGTH", "WAITING_FOR_PAYLOAD"}
        BY <2>1 DEF Reader, States, Waiting
    <2>3. reader.delivered \in Seq(1 .. Len(stream)) /\ reader.next \in 1 .. Len(stream) + 1
        <3>1. reader.next \in 1 .. Len(stream) + 1 /\ Len(stream) \in Nat
            BY <2>1, FrameIs DEF Delivered
        <3>2. /\ reader.next - 1 \in Nat
              /\ reader.delivered \in [1 .. reader.next - 1 -> 1 .. Len(stream)]
            BY <2>1, <3>1 DEF Delivered
        <3>. QED
            BY <3>1, <3>2
    <2>4. reader.avail <= arrived /\ reader.result \in {"more", "protocolError", "frameTooLarge"}
        <3>1. reader.result \in {"more", "protocolError", "frameTooLarge"}
            BY DEF IInv, Reading, Rejected, Current
        <3>. QED
            BY <3>1, ReadSoFar
    <2>5. reader.avail \in 0 .. arrived /\ {reader.dropped, reader.raised} \subseteq BOOLEAN
        BY <2>1, <2>4 DEF Reader
    <2>. QED
        BY <2>1, <2>2, <2>3, <2>4, <2>5 DEF TypeOK
<1>. QED
    BY <1>1, SpecIInv, PTL

\* What a loop that has ended says of a frame it has not delivered.
LEMMA NotDelivered ==
    ASSUME IInv, NEW i \in 1 .. Len(stream), i \notin 1 .. reader.next - 1
    PROVE  /\ i >= reader.next /\ reader.next \in 1 .. Len(stream)
           /\ reader.dropped => ~Acceptable(stream[reader.next])
           /\ ~reader.dropped => Short(reader, stream[reader.next])
           /\ i > reader.next => Ends(stream)[reader.next] <= Ends(stream)[i - 1]
           /\ Ends(stream)[i - 1] \in Nat /\ Ends(stream)[i] \in Nat
           /\ Ends(stream)[i] = Ends(stream)[i - 1] + Size(stream[i])
           /\ HeaderSize(stream[i]) >= 2 /\ HeaderSize(stream[i]) \in Nat
           /\ Size(stream[i]) = HeaderSize(stream[i]) + stream[i].len /\ stream[i].len \in Nat
           /\ Ends(stream)[reader.next] \in Nat
<1>1. /\ stream \in Streams /\ Len(stream) \in Nat /\ i \in Nat
      /\ reader.next \in 1 .. Len(stream) + 1
    BY FrameIs DEF IInv, Reading, Delivered
<1>2. i >= reader.next /\ reader.next \in 1 .. Len(stream) /\ reader.next <= Len(stream)
    BY <1>1
<1>3. /\ reader.dropped => ~Acceptable(stream[reader.next])
      /\ ~reader.dropped => Short(reader, stream[reader.next])
    BY <1>1, <1>2 DEF IInv, Reading, Rejected, Stuck
<1>4. ASSUME i > reader.next PROVE Ends(stream)[reader.next] <= Ends(stream)[i - 1]
    <2>1. reader.next \in 0 .. Len(stream) /\ i - 1 \in reader.next .. Len(stream)
        BY <1>1, <1>2, <1>4
    <2>. QED
        BY <1>1, <2>1, EndsGrow
<1>5. i - 1 \in 0 .. Len(stream) /\ i \in 0 .. Len(stream) /\ reader.next \in 0 .. Len(stream)
    BY <1>1, <1>2
<1>6. /\ Ends(stream)[i - 1] \in Nat /\ Ends(stream)[i] \in Nat /\ Ends(stream)[reader.next] \in Nat
      /\ Ends(stream)[i] = Ends(stream)[i - 1] + Size(stream[i])
    BY <1>1, <1>5, EndsAre
<1>7. /\ HeaderSize(stream[i]) >= 2 /\ HeaderSize(stream[i]) \in Nat
      /\ Size(stream[i]) = HeaderSize(stream[i]) + stream[i].len /\ stream[i].len \in Nat
    BY <1>1, FrameIs, SizeType
<1>. QED
    BY <1>2, <1>3, <1>4, <1>6, <1>7

\* However the bytes are cut into chunks, the frames are delivered once and in order, none
\* before it is complete, and of the complete ones only one that ends in the one byte that
\* is left unread is kept back: addData looks at nothing while there are fewer than two.
THEOREM FramesAsTheyArrive == Spec => []OneByteBehind
<1>1. IInv => OneByteBehind
    <2> SUFFICES ASSUME IInv PROVE OneByteBehind
        OBVIOUS
    <2> DEFINE given == {reader.delivered[i] : i \in DOMAIN reader.delivered}
    <2>1. /\ stream \in Streams /\ reader.next \in 1 .. Len(stream) + 1 /\ Len(stream) \in Nat
          /\ reader.delivered = [i \in 1 .. reader.next - 1 |-> i]
          /\ \A i \in 1 .. reader.next - 1 : Acceptable(stream[i])
          /\ reader \in Reader /\ arrived \in Nat
        BY FrameIs, TotalType DEF IInv, Reading, Delivered
    <2>2. /\ Len(reader.delivered) = reader.next - 1
          /\ given = 1 .. reader.next - 1
        <3>1. DOMAIN reader.delivered = 1 .. reader.next - 1 /\ reader.next - 1 \in Nat
            BY <2>1
        <3>2. reader.delivered \in Seq(Nat)
            BY <2>1 DEF Reader
        <3>3. Len(reader.delivered) = reader.next - 1
            BY <3>1, <3>2
        <3>4. \A i \in 1 .. reader.next - 1 : reader.delivered[i] = i
            BY <2>1
        <3>5. given = 1 .. reader.next - 1
            BY <3>1, <3>4
        <3>. QED
            BY <3>3, <3>5
    <2> HIDE DEF given
    <2>3. given \subseteq Arrived(arrived)
        <3> SUFFICES ASSUME NEW i \in 1 .. reader.next - 1 PROVE i \in Arrived(arrived)
            BY <2>2
        <3>1. i \in 1 .. Len(stream) /\ \A j \in 1 .. i : Acceptable(stream[j])
            BY <2>1
        <3>2. Ends(stream)[i] <= Ends(stream)[reader.next - 1] /\ Ends(stream)[i] \in Nat
              /\ Ends(stream)[reader.next - 1] \in Nat
            <4>1. i \in 0 .. Len(stream) /\ reader.next - 1 \in i .. Len(stream)
                  /\ reader.next - 1 \in 0 .. Len(stream)
                BY <2>1
            <4>. QED
                BY <2>1, <4>1, EndsGrow, EndsAre
        <3>3. Ends(stream)[reader.next - 1] <= arrived
            BY <2>1, ReadSoFar
        <3>4. Ends(stream)[i] <= arrived
            BY <2>1, <3>2, <3>3
        <3>. QED
            BY <3>1, <3>4 DEF Arrived
    <2>4. ASSUME NEW i \in Arrived(arrived) \ given
          PROVE  reader.avail = 1 /\ stream[i].len = 1 /\ i = reader.next
        <3>1. /\ i \in 1 .. Len(stream) /\ Ends(stream)[i] <= arrived
              /\ \A j \in 1 .. i : Acceptable(stream[j])
              /\ i \notin 1 .. reader.next - 1
            BY <2>2, <2>4 DEF Arrived
        <3>2. /\ i >= reader.next /\ reader.next \in 1 .. Len(stream)
              /\ reader.dropped => ~Acceptable(stream[reader.next])
              /\ ~reader.dropped => Short(reader, stream[reader.next])
              /\ i > reader.next => Ends(stream)[reader.next] <= Ends(stream)[i - 1]
              /\ Ends(stream)[i - 1] \in Nat /\ Ends(stream)[i] \in Nat
              /\ Ends(stream)[i] = Ends(stream)[i - 1] + Size(stream[i])
              /\ HeaderSize(stream[i]) >= 2 /\ HeaderSize(stream[i]) \in Nat
              /\ Size(stream[i]) = HeaderSize(stream[i]) + stream[i].len /\ stream[i].len \in Nat
              /\ Ends(stream)[reader.next] \in Nat
            BY <3>1, NotDelivered
        <3>3. reader.next \in 1 .. i /\ reader.next <= Len(stream)
            BY <2>1, <3>1, <3>2
        <3>4. Acceptable(stream[reader.next])
            BY <3>1, <3>3
        <3>5. ~reader.dropped /\ Short(reader, stream[reader.next])
            BY <3>2, <3>4
        <3>6. /\ arrived <= Ends(stream)[reader.next]
              /\ \/ arrived < Ends(stream)[reader.next - 1] + HeaderSize(stream[reader.next])
                 \/ arrived = Ends(stream)[reader.next] =>
                        reader.avail = 1 /\ stream[reader.next].len = 1
            BY <2>1, <3>3, <3>5, ShortIs DEF IInv
        <3>7. i = reader.next
            <4> DEFINE a == Ends(stream)[reader.next]
                       b == Ends(stream)[i - 1]
                       c == Ends(stream)[i]
                       size == Size(stream[i])
                       header == HeaderSize(stream[i])
                       len == stream[i].len
            <4>1. /\ i > reader.next => a <= b
                  /\ a \in Nat /\ b \in Nat /\ c \in Nat /\ c = b + size /\ size = header + len
                  /\ header >= 2 /\ header \in Nat /\ len \in Nat /\ c <= arrived /\ arrived <= a
                BY <3>1, <3>2, <3>6
            <4>2. i \in Nat /\ reader.next \in Nat /\ i >= reader.next
                BY <2>1, <3>1, <3>2
            <4> HIDE DEF a, b, c, size, header, len
            <4>. QED
                BY <2>1, <4>1, <4>2
        <3>8. arrived = Ends(stream)[reader.next]
            BY <2>1, <3>1, <3>2, <3>6, <3>7
        <3>9. ~(arrived < Ends(stream)[reader.next - 1] + HeaderSize(stream[reader.next]))
            BY <2>1, <3>2, <3>7, <3>8
        <3>. QED
            BY <3>6, <3>7, <3>8, <3>9
    <2>. QED
        BY <2>1, <2>2, <2>3, <2>4 DEF OneByteBehind, given
<1>. QED
    BY <1>1, SpecIInv, PTL

\* A frame that is not acceptable is found so when its header is there; one that is longer
\* than the limit passes only with a length that is no int, and only such a one makes
\* readBytes raise.
THEOREM BadFramesAreRejected == Spec => []RejectedAtHeader
<1>1. IInv => RejectedAtHeader
    <2> SUFFICES ASSUME IInv PROVE RejectedAtHeader
        OBVIOUS
    <2>1. /\ stream \in Streams /\ reader.next \in 1 .. Len(stream) + 1 /\ Len(stream) \in Nat
          /\ reader.delivered = [i \in 1 .. reader.next - 1 |-> i]
          /\ \A i \in 1 .. reader.next - 1 : Acceptable(stream[i])
          /\ arrived \in Nat
        BY FrameIs, TotalType DEF IInv, Reading, Delivered
    <2>2. ASSUME NEW i \in 1 .. Len(stream), \A j \in 1 .. i - 1 : Acceptable(stream[j]),
                 ~Acceptable(stream[i]), arrived >= Ends(stream)[i - 1] + HeaderSize(stream[i]),
                 ~reader.dropped
          PROVE  FALSE
        <3>1. i \notin 1 .. reader.next - 1
            BY <2>1, <2>2
        <3>2. /\ i >= reader.next /\ reader.next \in 1 .. Len(stream)
              /\ Short(reader, stream[reader.next])
              /\ i > reader.next => Ends(stream)[reader.next] <= Ends(stream)[i - 1]
              /\ Ends(stream)[i - 1] \in Nat /\ Ends(stream)[reader.next] \in Nat
              /\ HeaderSize(stream[i]) >= 2 /\ HeaderSize(stream[i]) \in Nat
            BY <2>2, <3>1, NotDelivered
        <3>3. /\ arrived <= Ends(stream)[reader.next]
              /\ \/ arrived < Ends(stream)[reader.next - 1] + HeaderSize(stream[reader.next])
                 \/ Acceptable(stream[reader.next])
            <4>1. reader.next <= Len(stream)
                BY <2>1, <3>2
            <4>. QED
                BY <2>1, <2>2, <3>2, <4>1, ShortIs DEF IInv
        <3>4. CASE i > reader.next
            <4> DEFINE a == Ends(stream)[reader.next]
                       b == Ends(stream)[i - 1]
                       header == HeaderSize(stream[i])
            <4>1. /\ a <= b /\ a \in Nat /\ b \in Nat /\ header >= 2 /\ header \in Nat
                  /\ arrived <= a /\ arrived >= b + header
                BY <2>2, <3>2, <3>3, <3>4
            <4> HIDE DEF a, b, header
            <4>. QED
                BY <2>1, <4>1
        <3>5. CASE i = reader.next
            <4>1. arrived < Ends(stream)[i - 1] + HeaderSize(stream[i])
                BY <2>2, <3>3, <3>5
            <4>2. Ends(stream)[i - 1] + HeaderSize(stream[i]) \in Nat
                BY <3>2
            <4>. QED
                BY <2>1, <2>2, <4>1, <4>2
        <3>6. i > reader.next \/ i = reader.next
            BY <2>1, <3>2
        <3>. QED
            BY <3>4, <3>5, <3>6
    <2>3. ASSUME NEW i \in DOMAIN reader.delivered
          PROVE  LET len == stream[reader.delivered[i]].len
                 IN  len <= MaxFrameSize \/ len >= IntLimit
        <3>1. i \in 1 .. reader.next - 1 /\ reader.delivered[i] = i
            BY <2>1, <2>3
        <3>2. Acceptable(stream[i]) /\ i \in 1 .. Len(stream)
            BY <2>1, <3>1
        <3>3. stream[i] \in Frame /\ Fits(stream[i])
            BY <2>1, <3>2, FrameIs
        <3>4. /\ stream[i].len \in Nat
              /\ stream[i].len < IntLimit => AsInt(stream[i].len) = stream[i].len
            BY <3>3, AsIntIs DEF Frame
        <3>. QED
            BY <3>1, <3>2, <3>4, StreamsAssumption DEF Acceptable
    <2>4. reader.raised => \E i \in 1 .. Len(stream) : stream[i].len >= IntLimit
        BY DEF IInv, Reading
    <2>. QED
        BY <2>2, <2>3, <2>4 DEF RejectedAtHeader
<1>. QED
    BY <1>1, SpecIInv, PTL

=============================================================================
