------------------------- MODULE AccessPointProofs -------------------------
(* Proofs about AccessPoint, for every number of clients and buffers and    *)
(* every set of queries.                                                    *)
EXTENDS AccessPoint, NatFacts, TLAPS

\* What a walk is: the same as its recursive definition, said of every turn.
WalkType == [at : Nat, over : BOOLEAN, bad : BOOLEAN]

\* A walk over the labels of q, turn by turn; the length of its first labels.
Walks(w, q) ==
    /\ w[0] = [at |-> Header, over |-> FALSE, bad |-> FALSE]
    /\ \A n \in 1 .. Len(q.labels) : w[n] = Label(q, w[n - 1], q.labels[n])
Lengths(s, q) ==
    /\ s[0] = 0
    /\ \A n \in 1 .. Len(q.labels) : s[n] = s[n - 1] + 1 + q.labels[n]

LEMMA QueryTyped ==
  ASSUME NEW q \in Query
  PROVE  /\ q.labels \in Seq(Nat) /\ Len(q.labels) \in Nat /\ q.len \in Nat
         /\ \A n \in 1 .. Len(q.labels) : q.labels[n] \in Nat
  <1>1. q \in QueryType
    BY AccessPointAssumption DEF AccessPointAssumption
  <1>2. q.labels \in Seq(Nat) /\ q.len \in Nat
    BY <1>1 DEF QueryType
  <1> QED
    BY <1>2

LEMMA LabelTyped ==
  ASSUME NEW q \in Query, NEW w \in WalkType, NEW l \in Nat
  PROVE  Label(q, w, l) \in WalkType
  <1>1. w.at \in Nat /\ w.bad \in BOOLEAN
    BY Zenon DEF WalkType
  <1>3. \A a \in Nat : /\ [at |-> a, over |-> TRUE, bad |-> TRUE] \in WalkType
                       /\ [at |-> a, over |-> TRUE, bad |-> FALSE] \in WalkType
                       /\ [at |-> a, over |-> FALSE, bad |-> FALSE] \in WalkType
    BY Zenon DEF WalkType
  <1>4. CASE w.over \/ w.at >= Filled(q)
    <2>1. Label(q, w, l) = [w EXCEPT !.over = TRUE]
      BY <1>4, Zenon DEF Label
    <2>2. [w EXCEPT !.over = TRUE] \in WalkType
      BY DEF WalkType
    <2> QED
      BY <2>1, <2>2, Zenon
  <1>5. CASE ~(w.over \/ w.at >= Filled(q)) /\ l > MaxLabel
    <2> DEFINE a == w.at + 1 + 0
    <2>0. a \in Nat
      BY <1>1
    <2>1. Label(q, w, l) = [at |-> a, over |-> TRUE, bad |-> TRUE]
      BY <1>5 DEF Label
    <2> HIDE DEF a
    <2> QED
      BY <1>3, <2>0, <2>1, Zenon
  <1>6. CASE ~(w.over \/ w.at >= Filled(q)) /\ ~(l > MaxLabel) /\ l = 0
    <2> DEFINE a == w.at + 1 + 0
    <2>0. a \in Nat
      BY <1>1
    <2>1. (l = 0 \/ l > MaxLabel) = TRUE /\ (l > MaxLabel) = FALSE
      BY <1>6
    <2>2. w.at + 1 + (IF l > MaxLabel THEN 0 ELSE l) = a
      BY <1>6
    <2>3. Label(q, w, l) = [at |-> w.at + 1 + (IF l > MaxLabel THEN 0 ELSE l),
                            over |-> l = 0 \/ l > MaxLabel, bad |-> l > MaxLabel]
      BY <1>6, Zenon DEF Label
    <2> HIDE DEF a
    <2> QED
      BY <1>3, <2>0, <2>1, <2>2, <2>3, Zenon
  <1>7. CASE ~(w.over \/ w.at >= Filled(q)) /\ ~(l > MaxLabel) /\ l # 0
    <2> DEFINE a == w.at + 1 + l
    <2>0. a \in Nat
      BY <1>1
    <2>1. (l = 0 \/ l > MaxLabel) = FALSE /\ (l > MaxLabel) = FALSE
      BY <1>7
    <2>2. w.at + 1 + (IF l > MaxLabel THEN 0 ELSE l) = a
      BY <1>7
    <2>3. Label(q, w, l) = [at |-> w.at + 1 + (IF l > MaxLabel THEN 0 ELSE l),
                            over |-> l = 0 \/ l > MaxLabel, bad |-> l > MaxLabel]
      BY <1>7, Zenon DEF Label
    <2> HIDE DEF a
    <2> QED
      BY <1>3, <2>0, <2>1, <2>2, <2>3, Zenon
  <1> QED
    BY <1>4, <1>5, <1>6, <1>7

LEMMA WalkUnfolds == \A q \in Query : \E w : Walks(w, q) /\ Walk[q] = w[Len(q.labels)]
  <1> TAKE q \in Query
  <1> DEFINE N == Len(q.labels)
             start == [at |-> Header, over |-> FALSE, bad |-> FALSE]
             Is(w) == w = [n \in 0 .. N |->
                             IF n = 0 THEN start ELSE Label(q, w[n - 1], q.labels[n])]
  <1>1. \E w : Is(w)
    <2> DEFINE value == [n \in Nat |-> start]
               below == [n \in Nat |-> IF n = 0 THEN 0 ELSE n - 1]
               label == [n \in Nat |-> IF n \in 1 .. N THEN q.labels[n] ELSE 0]
               step == [x \in Nat \X WalkType |-> Label(q, x[2], label[x[1]])]
    <2>1. label \in [Nat -> Nat] /\ \A n \in 1 .. N : label[n] = q.labels[n]
      BY QueryTyped
    <2> HIDE DEF label
    <2>2. Descends(WalkType, {0}, value, below, step)
      <3>0. Header \in Nat
        BY AccessPointAssumption DEF AccessPointAssumption
      <3>1. step \in [Nat \X WalkType -> WalkType]
        BY <2>1, LabelTyped
      <3>2. start \in WalkType
        BY <3>0, Zenon DEF WalkType
      <3> HIDE DEF step, start
      <3> QED
        BY <3>1, <3>2 DEF Descends
    <2>3. /\ value[0] = start
          /\ \A n \in Nat \ {0} : below[n] = n - 1
      OBVIOUS
    <2>4. \A n \in Nat, w \in WalkType : step[<< n, w >>] = Label(q, w, label[n])
      OBVIOUS
    <2> HIDE DEF value, below, step, start
    <2>5. PICK f \in [Nat -> WalkType] : Solves(f, {0}, value, below, step)
      BY <2>2, RecursionExists
    <2>6. f[0] = start
      BY <2>3, <2>5 DEF Solves
    <2>7. \A n \in 1 .. N : f[n] = Label(q, f[n - 1], q.labels[n])
      <3> TAKE n \in 1 .. N
      <3>1. n \in Nat /\ n # 0 /\ n - 1 \in Nat /\ below[n] = n - 1
        BY <2>3, QueryTyped
      <3>2. f[n] = step[<< n, f[n - 1] >>]
        BY <2>5, <3>1 DEF Solves
      <3> QED
        BY <2>1, <2>4, <3>1, <3>2
    <2> DEFINE w == [n \in 0 .. N |-> f[n]]
    <2>8. N \in Nat
      BY QueryTyped
    <2>9. \A n \in 0 .. N : n = 0 \/ (n \in 1 .. N /\ n # 0 /\ n - 1 \in 0 .. N /\ w[n - 1] = f[n - 1])
      BY <2>8
    <2>10. \A n \in 0 .. N : f[n] = IF n = 0 THEN start ELSE Label(q, w[n - 1], q.labels[n])
      <3> HIDE DEF w, N
      <3> QED
        BY <2>6, <2>7, <2>9
    <2>11. Is(w)
      BY <2>10
    <2> QED
      BY <2>11
  <1> DEFINE w == CHOOSE v : Is(v)
  <1>2. Is(w)
    BY <1>1
  <1>3. Walk[q] = w[N]
    BY DEF Walk
  <1> HIDE DEF w
  <1>4. N \in Nat
    BY QueryTyped
  <1>5. w[0] = start /\ \A n \in 1 .. N : w[n] = Label(q, w[n - 1], q.labels[n])
    <2> HIDE DEF N, start
    <2>1. \A n \in 0 .. N : w[n] = IF n = 0 THEN start ELSE Label(q, w[n - 1], q.labels[n])
      BY <1>2
    <2>2. 0 \in 0 .. N /\ \A n \in 1 .. N : n \in 0 .. N /\ n # 0
      BY <1>4
    <2> QED
      BY <2>1, <2>2
  <1>6. Walks(w, q)
    BY <1>5, Zenon DEF Walks
  <1> QED
    BY <1>3, <1>6

LEMMA LengthUnfolds ==
  \A q \in Query : \E s \in [0 .. Len(q.labels) -> Nat] :
    Lengths(s, q) /\ QuestionEnd(q) = Header + s[Len(q.labels)] + 4
  <1> TAKE q \in Query
  <1> DEFINE N == Len(q.labels)
             Is(s) == s = [n \in 0 .. N |-> IF n = 0 THEN 0 ELSE s[n - 1] + 1 + q.labels[n]]
  <1>0. N \in Nat
    BY QueryTyped
  <1>1. \E s : Is(s)
    <2> DEFINE value == [n \in Nat |-> 0]
               below == [n \in Nat |-> IF n = 0 THEN 0 ELSE n - 1]
               label == [n \in Nat |-> IF n \in 1 .. N THEN q.labels[n] ELSE 0]
               step == [x \in Nat \X Nat |-> x[2] + 1 + label[x[1]]]
    <2>1. label \in [Nat -> Nat] /\ \A n \in 1 .. N : label[n] = q.labels[n]
      BY QueryTyped
    <2> HIDE DEF label
    <2>2. Descends(Nat, {0}, value, below, step)
      <3>1. step \in [Nat \X Nat -> Nat]
        <4>1. \A x \in Nat \X Nat : x[1] \in Nat /\ x[2] \in Nat /\ label[x[1]] \in Nat
          BY <2>1
        <4>2. \A x \in Nat \X Nat : x[2] + 1 + label[x[1]] \in Nat
          BY <4>1
        <4> QED
          BY <4>2
      <3> HIDE DEF step
      <3> QED
        BY <3>1 DEF Descends
    <2>3. /\ value[0] = 0
          /\ \A n \in Nat \ {0} : below[n] = n - 1
          /\ \A n \in Nat, m \in Nat : step[<< n, m >>] = m + 1 + label[n]
      OBVIOUS
    <2> HIDE DEF value, below, step
    <2>4. PICK f \in [Nat -> Nat] : Solves(f, {0}, value, below, step)
      BY <2>2, RecursionExists
    <2>5. f[0] = 0
      BY <2>3, <2>4 DEF Solves
    <2>6. \A n \in 1 .. N : f[n] = f[n - 1] + 1 + q.labels[n]
      <3> TAKE n \in 1 .. N
      <3>1. n \in Nat /\ n # 0 /\ n - 1 \in Nat
        BY <1>0
      <3>2. below[n] = n - 1 /\ f[n - 1] \in Nat
        BY <2>3, <3>1
      <3>3. f[n] = step[<< n, f[n - 1] >>]
        BY <2>4, <3>1, <3>2 DEF Solves
      <3> QED
        BY <2>1, <2>3, <3>1, <3>2, <3>3
    <2> DEFINE s == [n \in 0 .. N |-> f[n]]
    <2>7. \A n \in 0 .. N : n = 0 \/ (n \in 1 .. N /\ n # 0 /\ n - 1 \in 0 .. N /\ s[n - 1] = f[n - 1])
      BY <1>0
    <2>8. \A n \in 0 .. N : f[n] = IF n = 0 THEN 0 ELSE s[n - 1] + 1 + q.labels[n]
      <3> HIDE DEF s, N
      <3> QED
        BY <2>5, <2>6, <2>7
    <2>9. Is(s)
      BY <2>8
    <2> QED
      BY <2>9
  <1> DEFINE s == CHOOSE v : Is(v)
  <1>2. Is(s)
    BY <1>1
  <1>3. QuestionEnd(q) = Header + s[N] + 4
    BY DEF QuestionEnd
  <1> HIDE DEF s
  <1>4. s[0] = 0 /\ \A n \in 1 .. N : s[n] = s[n - 1] + 1 + q.labels[n]
    <2> HIDE DEF N
    <2>1. \A n \in 0 .. N : s[n] = IF n = 0 THEN 0 ELSE s[n - 1] + 1 + q.labels[n]
      BY <1>2
    <2>2. 0 \in 0 .. N /\ \A n \in 1 .. N : n \in 0 .. N /\ n # 0
      BY <1>0
    <2> QED
      BY <2>1, <2>2
  <1>5. Lengths(s, q)
    BY <1>4, Zenon DEF Lengths
  <1>6. \A n \in 0 .. N : s[n] \in Nat
    <2> DEFINE S == {n \in Nat : n \in 0 .. N => s[n] \in Nat}
    <2>1. 0 \in S
      BY <1>4
    <2>2. ASSUME NEW n \in Nat, n \in S PROVE n + 1 \in S
      <3> SUFFICES ASSUME n + 1 \in 0 .. N PROVE s[n + 1] \in Nat
        OBVIOUS
      <3>1. n \in 0 .. N /\ n + 1 \in 1 .. N /\ (n + 1) - 1 = n
        BY <1>0
      <3>2. s[n] \in Nat /\ q.labels[n + 1] \in Nat
        BY <2>2, <3>1, QueryTyped
      <3>3. s[n + 1] = s[n] + 1 + q.labels[n + 1]
        BY <1>4, <3>1
      <3> QED
        BY <3>2, <3>3
    <2> HIDE DEF S
    <2>3. Nat \subseteq S
      BY <2>1, <2>2, Induction
    <2> QED
      BY <2>3, <1>0 DEF S
  <1>7. DOMAIN s = 0 .. N /\ s = [n \in 0 .. N |-> s[n]]
    BY <1>2
  <1>8. s \in [0 .. N -> Nat]
    BY <1>6, <1>7
  <1> QED
    BY <1>3, <1>5, <1>8

\* A question is no shorter than its first labels.
LEMMA LengthGrows ==
  ASSUME NEW q \in Query, NEW s \in [0 .. Len(q.labels) -> Nat], Lengths(s, q)
  PROVE  \A n \in 0 .. Len(q.labels) : s[n] <= s[Len(q.labels)]
  <1> DEFINE N == Len(q.labels)
             S == {k \in Nat : \A n \in 0 .. N : n + k = N => s[n] <= s[N]}
  <1>0. N \in Nat
    BY QueryTyped
  <1>1. 0 \in S
    BY <1>0
  <1>2. ASSUME NEW k \in Nat, k \in S PROVE k + 1 \in S
    <2> SUFFICES ASSUME NEW n \in 0 .. N, n + (k + 1) = N PROVE s[n] <= s[N]
      OBVIOUS
    <2>1. n + 1 \in 1 .. N /\ n + 1 \in 0 .. N /\ (n + 1) - 1 = n /\ (n + 1) + k = N
      BY <1>0
    <2>2. s[n + 1] = s[n] + 1 + q.labels[n + 1] /\ q.labels[n + 1] \in Nat
      BY <2>1, QueryTyped DEF Lengths
    <2>3. s[n + 1] <= s[N]
      BY <1>2, <2>1
    <2>4. s[n] \in Nat /\ s[N] \in Nat
      BY <1>0
    <2> QED
      BY <2>2, <2>3, <2>4
  <1> HIDE DEF S
  <1>3. Nat \subseteq S
    BY <1>1, <1>2, Induction
  <1> SUFFICES ASSUME NEW n \in 0 .. N PROVE s[n] <= s[N]
    OBVIOUS
  <1>4. N - n \in Nat /\ n + (N - n) = N
    BY <1>0
  <1> QED
    BY <1>3, <1>4 DEF S

\* What a proper question has at each place.
LEMMA ProperLabels ==
  ASSUME NEW q \in Query, Proper(q)
  PROVE  /\ Len(q.labels) \in Nat \ {0}
         /\ q.labels[Len(q.labels)] = 0
         /\ \A n \in 1 .. Len(q.labels) - 1 : q.labels[n] \in 1 .. MaxLabel
  <1>1. q.labels \in Seq(Nat) /\ q.labels # << >> /\ Len(q.labels) \in Nat \ {0}
    BY QueryTyped DEF Proper
  <1>2. q.labels[Len(q.labels)] = 0
    BY DEF Proper, Last
  <1>3. ASSUME NEW n \in 1 .. Len(q.labels) - 1 PROVE q.labels[n] \in 1 .. MaxLabel
    <2>1. /\ n \in DOMAIN Front(q.labels)
          /\ Front(q.labels)[n] = q.labels[n]
      BY <1>1 DEF Front
    <2>2. Front(q.labels)[n] \in Range(Front(q.labels))
      BY <2>1 DEF Range
    <2> QED
      BY <2>1, <2>2 DEF Proper
  <1> QED
    BY <1>1, <1>2, <1>3

\* One turn of the walk: behind the end it stays, before it it passes a label.
LEMMA LabelMoves ==
  ASSUME NEW q \in Query, NEW w \in WalkType, NEW l \in Nat
  PROVE  /\ w.at >= Filled(q) => Label(q, w, l).at = w.at
         /\ ~w.over /\ w.at < Filled(q) /\ l <= MaxLabel =>
              /\ Label(q, w, l).at = w.at + 1 + l
              /\ l # 0 => ~Label(q, w, l).over
  <1>0. w.at \in Nat /\ Filled(q) \in Nat /\ MaxLabel \in Nat
    BY AccessPointAssumption, QueryTyped DEF AccessPointAssumption, WalkType, Filled
  <1>1. ASSUME w.at >= Filled(q) PROVE Label(q, w, l).at = w.at
    <2>1. Label(q, w, l) = [w EXCEPT !.over = TRUE]
      BY <1>1, Zenon DEF Label
    <2> QED
      BY <2>1 DEF WalkType
  <1>2. ASSUME ~w.over, w.at < Filled(q), l <= MaxLabel
        PROVE  /\ Label(q, w, l).at = w.at + 1 + l
               /\ l # 0 => ~Label(q, w, l).over
    <2>1. ~(w.over \/ w.at >= Filled(q)) /\ ~(l > MaxLabel)
      BY <1>0, <1>2
    <2>2. Label(q, w, l) = [at |-> w.at + 1 + (IF l > MaxLabel THEN 0 ELSE l),
                            over |-> l = 0 \/ l > MaxLabel, bad |-> l > MaxLabel]
      BY <2>1, Zenon DEF Label
    <2>3. Label(q, w, l).at = w.at + 1 + l
      BY <2>1, <2>2
    <2>4. ASSUME l # 0 PROVE ~Label(q, w, l).over
      <3>1. (l = 0 \/ l > MaxLabel) = FALSE
        BY <2>1, <2>4
      <3> DEFINE a == w.at + 1 + (IF l > MaxLabel THEN 0 ELSE l)
      <3>2. Label(q, w, l) = [at |-> a, over |-> FALSE, bad |-> l > MaxLabel]
        BY <2>2, <3>1, Zenon
      <3> HIDE DEF a
      <3> QED
        BY <3>2
    <2> QED
      BY <2>3, <2>4
  <1> QED
    BY <1>1, <1>2

\* The walk over a question that has come in as a whole ends with the question,
\* or in the end of the buffer.
LEMMA WalkFollows ==
  ASSUME NEW q \in Query, NEW w, NEW s \in [0 .. Len(q.labels) -> Nat],
         Walks(w, q), Lengths(s, q), Proper(q), q.len >= Header + s[Len(q.labels)] + 4
  PROVE  w[Len(q.labels)].at = Header + s[Len(q.labels)] \/ w[Len(q.labels)].at >= BufferSize
  <1> DEFINE N == Len(q.labels)
             On(n) == w[n].at = Header + s[n] /\ (n < N => ~w[n].over)
             S == {n \in Nat : n \in 0 .. N => w[n] \in WalkType /\ (On(n) \/ w[n].at >= BufferSize)}
  <1>0. N \in Nat /\ Header \in Nat /\ BufferSize \in Nat /\ q.len \in Nat /\ MaxLabel \in Nat
    BY AccessPointAssumption, QueryTyped DEF AccessPointAssumption
  <1>1. 0 \in S
    <2>1. w[0] = [at |-> Header, over |-> FALSE, bad |-> FALSE] /\ s[0] = 0
      BY Zenon DEF Walks, Lengths
    <2>2. w[0] \in WalkType
      BY <1>0, <2>1 DEF WalkType
    <2>3. w[0].at = Header /\ ~w[0].over
      BY <2>1
    <2> QED
      BY <1>0, <2>1, <2>2, <2>3
  <1>2. ASSUME NEW n \in Nat, n \in S PROVE n + 1 \in S
    <2> SUFFICES ASSUME n + 1 \in 0 .. N
                 PROVE  w[n + 1] \in WalkType /\ (On(n + 1) \/ w[n + 1].at >= BufferSize)
      OBVIOUS
    <2> DEFINE l == q.labels[n + 1]
    <2>1. n \in 0 .. N /\ n < N /\ n + 1 \in 1 .. N /\ (n + 1) - 1 = n
      BY <1>0
    <2>2. w[n + 1] = Label(q, w[n], l) /\ s[n + 1] = s[n] + 1 + l
      BY <2>1 DEF Walks, Lengths
    <2>3. w[n] \in WalkType /\ (On(n) \/ w[n].at >= BufferSize)
      BY <1>2, <2>1
    <2>4. l \in 0 .. MaxLabel /\ (n + 1 < N => l # 0)
      BY <1>0, <2>1, ProperLabels
    <2>5. s[n] \in Nat /\ s[N] \in Nat /\ s[n] <= s[N] /\ w[n].at \in Nat
      <3>1. s[n] <= s[N]
        BY <2>1, LengthGrows
      <3>2. w[n].at \in Nat
        BY <2>3, Zenon DEF WalkType
      <3>3. N \in 0 .. N
        BY <1>0
      <3> QED
        BY <2>1, <3>1, <3>2, <3>3
    <2>6. w[n + 1] \in WalkType
      BY <2>2, <2>3, <2>4, LabelTyped
    <2> HIDE DEF l
    <2>7. CASE w[n].at >= Filled(q)
      <3>1. w[n + 1].at = w[n].at
        BY <2>2, <2>3, <2>4, <2>7, LabelMoves
      <3>2. w[n].at >= BufferSize
        BY <1>0, <2>3, <2>5, <2>7 DEF Filled
      <3> QED
        BY <2>6, <3>1, <3>2
    <2>8. CASE ~(w[n].at >= Filled(q))
      <3>1. w[n].at < Filled(q) /\ ~(w[n].at >= BufferSize)
        BY <1>0, <2>5, <2>8 DEF Filled
      <3>2. w[n].at = Header + s[n] /\ ~w[n].over
        BY <2>1, <2>3, <3>1
      <3>3. w[n + 1].at = w[n].at + 1 + l /\ (l # 0 => ~w[n + 1].over)
        BY <2>2, <2>3, <2>4, <3>1, <3>2, LabelMoves
      <3>4. w[n + 1].at = Header + s[n + 1]
        BY <1>0, <2>2, <2>4, <2>5, <3>2, <3>3
      <3> QED
        BY <2>4, <2>6, <3>3, <3>4
    <2> QED
      BY <2>7, <2>8
  <1> HIDE DEF S
  <1>3. Nat \subseteq S
    BY <1>1, <1>2, Induction
  <1> QED
    BY <1>0, <1>3 DEF S

\* So a question that is answered is answered behind its end.
LEMMA AnswerFollowsQuestion ==
  ASSUME NEW q \in Query \ Ignored, Proper(q), q.len >= QuestionEnd(q)
  PROVE  AnswerAt(q) = QuestionEnd(q)
  <1> DEFINE N == Len(q.labels)
  <1>1. PICK w : Walks(w, q) /\ Walk[q] = w[N]
    BY WalkUnfolds
  <1>2. PICK s \in [0 .. N -> Nat] : Lengths(s, q) /\ QuestionEnd(q) = Header + s[N] + 4
    BY LengthUnfolds
  <1>3. w[N].at = Header + s[N] \/ w[N].at >= BufferSize
    BY <1>1, <1>2, WalkFollows
  <1>4. Walk[q].at \in Header .. Header + MaxName
    BY DEF Ignored, TooLong
  <1>5. ~(w[N].at >= BufferSize)
    BY <1>1, <1>4, AccessPointAssumption DEF AccessPointAssumption
  <1> QED
    BY <1>1, <1>2, <1>3, <1>5 DEF AnswerAt

-----------------------------------------------------------------------------
USE AccessPointAssumption DEF AccessPointAssumption

\* What initConfigServer has closed by the time it gets to a stage.
SocketsClosed ==
    /\ stage = "nodns" => "dns" \notin sockets
    /\ stage \in {"nodhcp", "returned"} => sockets = {}

\* Each answer has taken a buffer out of the pool, and nothing puts one in.
AnswersPaid == pool + answers <= PoolSize

IInv == TypeOK /\ AnswersPaid /\ AnswerFits /\ AnswerFramed /\ HandlersAlive /\ SocketsClosed

LEMMA Initially == Init => IInv
  <1> SUFFICES ASSUME Init PROVE IInv
    OBVIOUS
  <1>1. ip \in BOOLEAN /\ wild \in BOOLEAN
    BY Zenon DEF Init
  <1>2. TypeOK
    BY <1>1 DEF Init, TypeOK, NoReply
  <1> QED
    BY <1>2 DEF Init, IInv, AnswersPaid, AnswerFits, AnswerFramed, HandlersAlive, SocketsClosed, NoReply

-----------------------------------------------------------------------------
\* The sockets are closed before the frame is left, but on the early return.
LEMMA MainStep == ASSUME IInv, MainNext PROVE IInv'
  <1> USE DEF IInv
  <1>1. UNCHANGED << pool, got, reply, answers, wild >>
    BY DEF MainNext, DhcpInit, DhcpRefused, DnsBind, DnsCopyIp, DnsRefused, OpenTcp, OpenRefused,
           CloseTcp, DnsDeinit, DhcpDeinit, Return, Advance
  <1>2. /\ TypeOK' /\ SocketsClosed'
        /\ stage # "abandoned"
    BY <1>1 DEF TypeOK, SocketsClosed, MainNext, DhcpInit, DhcpRefused, DnsBind,
                DnsCopyIp, DnsRefused, OpenTcp, OpenRefused, CloseTcp, DnsDeinit, DhcpDeinit, Return, Advance
  <1> QED
    BY <1>1, <1>2 DEF AnswersPaid, AnswerFits, AnswerFramed, HandlersAlive

\* A handler that is called has a frame, and changes no socket.
LEMMA HeardStep ==
  ASSUME IInv, NEW socket \in {"dhcp", "dns"}, Heard(socket)
  PROVE  /\ UNCHANGED << stage, sockets, ip >>
         /\ wild' \in BOOLEAN /\ HandlersAlive' /\ SocketsClosed'
         /\ pool \in 1 .. PoolSize
  <1> USE DEF IInv
  <1>1. UNCHANGED << stage, sockets, ip >> /\ socket \in sockets /\ pool > 0
    BY DEF Heard, main
  <1>2. stage # "returned"
    BY <1>1 DEF SocketsClosed
  <1>3. wild' = (wild \/ stage = "abandoned")
    BY <1>2 DEF Heard
  <1>4. wild' \in BOOLEAN
    BY <1>3, Zenon DEF TypeOK
  <1> QED
    BY <1>1, <1>3, <1>4 DEF HandlersAlive, SocketsClosed, TypeOK

\* One buffer for one answer.
LEMMA KeepStep ==
  ASSUME IInv, pool \in 1 .. PoolSize, Keep
  PROVE  pool' \in 0 .. PoolSize /\ answers' \in Nat /\ AnswersPaid'
  BY DEF IInv, TypeOK, AnswersPaid, Keep

\* Whatever the walk did: a query that is answered ended within MaxName.
LEMMA AnswerIsInBuffer ==
  ASSUME NEW q \in Query \ Ignored
  PROVE  Answer(q) \in [at : Nat, end : 0 .. BufferSize, to : SUBSET Query]
  <1>1. Walk[q].at \in Header .. Header + MaxName
    BY DEF Ignored, TooLong
  <1> QED
    BY <1>1 DEF Answer, AnswerAt

LEMMA SendStep ==
  ASSUME IInv, NEW c \in Client, NEW what \in {"offer", "lease", "name"},
         NEW arrives, SendTo(c, what, arrives)
  PROVE  got' \in [Client -> {"link", "offer", "lease", "name", "form"}]
  BY DEF IInv, TypeOK, SendTo

-----------------------------------------------------------------------------
\* An ignored datagram changes nothing but wild.
LEMMA IgnoreStep ==
  ASSUME IInv, NEW socket \in {"dhcp", "dns"}, Heard(socket), Free, UNCHANGED reply
  PROVE  IInv'
  BY HeardStep DEF IInv, TypeOK, AnswersPaid, AnswerFits, AnswerFramed, Free

LEMMA DnsStep ==
  ASSUME IInv, NEW c \in Client, NEW q \in Query, NEW arrives \in BOOLEAN, DnsAnswer(c, q, arrives)
  PROVE  IInv'
  <1> USE DEF IInv
  <1>1. /\ Heard("dns") /\ q \in Query \ Ignored /\ Keep /\ reply' = Answer(q)
        /\ SendTo(c, "name", arrives /\ ip /\ got[c] = "lease")
    BY DEF DnsAnswer
  <1>2. got' \in [Client -> {"link", "offer", "lease", "name", "form"}]
    BY <1>1, SendStep
  <1>3. reply' \in [at : Nat, end : Nat, to : SUBSET Query] /\ AnswerFits'
    BY <1>1, AnswerIsInBuffer DEF AnswerFits
  <1>4. AnswerFramed'
    <2>1. reply'.to = {q} /\ reply'.at = AnswerAt(q)
      BY <1>1 DEF Answer
    <2>2. q \in Query \ Ignored
      BY <1>1
    <2> SUFFICES ASSUME Proper(q), q.len >= QuestionEnd(q) PROVE AnswerAt(q) = QuestionEnd(q)
      BY <2>1 DEF AnswerFramed
    <2> QED
      BY <2>2, AnswerFollowsQuestion
  <1>5. pool' \in 0 .. PoolSize /\ answers' \in Nat /\ AnswersPaid'
    BY <1>1, HeardStep, KeepStep
  <1> QED
    BY <1>1, <1>2, <1>3, <1>4, <1>5, HeardStep DEF TypeOK

LEMMA DhcpStep ==
  ASSUME IInv, NEW c \in Client, NEW arrives \in BOOLEAN,
         DhcpDiscover(c, arrives) \/ DhcpRequest(c, arrives)
  PROVE  IInv'
  <1> USE DEF IInv
  <1>1. Heard("dhcp") /\ Keep /\ UNCHANGED reply
    BY DEF DhcpDiscover, DhcpRequest
  <1>2. got' \in [Client -> {"link", "offer", "lease", "name", "form"}]
    BY SendStep DEF DhcpDiscover, DhcpRequest
  <1>3. pool' \in 0 .. PoolSize /\ answers' \in Nat /\ AnswersPaid'
    BY <1>1, HeardStep, KeepStep
  <1> QED
    BY <1>1, <1>2, <1>3, HeardStep DEF TypeOK, AnswerFits, AnswerFramed

\* A request costs a buffer at most, and is heard only when there is one.
LEMMA TcpStep ==
  ASSUME IInv, NEW c \in Client, NEW what \in {"name", "form"}, TcpRecv(c, what)
  PROVE  IInv'
  <1>1. UNCHANGED << stage, sockets, ip, reply, answers, wild >>
    BY DEF TcpRecv, main
  <1>2. got' \in [Client -> {"link", "offer", "lease", "name", "form"}]
    BY DEF TcpRecv, IInv, TypeOK
  <1>3. pool > 0 /\ pool' \in {pool, pool - 1}
    BY DEF TcpRecv
  <1>4. pool' \in 0 .. PoolSize /\ AnswersPaid'
    <2>1. pool \in 0 .. PoolSize /\ answers \in Nat /\ pool + answers <= PoolSize /\ pool > 0
      BY <1>3 DEF IInv, TypeOK, AnswersPaid
    <2>2. pool - 1 \in 0 .. PoolSize /\ (pool - 1) + answers <= PoolSize
      BY <2>1
    <2>3. CASE pool' = pool
      BY <1>1, <2>1, <2>3, Zenon DEF AnswersPaid
    <2>4. CASE pool' = pool - 1
      BY <1>1, <2>2, <2>4, Zenon DEF AnswersPaid
    <2> QED
      BY <1>3, <2>3, <2>4
  <1>5. TypeOK'
    BY <1>1, <1>2, <1>4 DEF IInv, TypeOK
  <1> QED
    BY <1>1, <1>4, <1>5 DEF IInv, AnswerFits, AnswerFramed, HandlersAlive, SocketsClosed

LEMMA Inductive == IInv /\ [Next]_vars => IInv'
  <1> SUFFICES ASSUME IInv, [Next]_vars PROVE IInv'
    OBVIOUS
  <1>1. CASE MainNext
    BY <1>1, MainStep
  <1>2. CASE DhcpIgnore
    BY <1>2, IgnoreStep DEF DhcpIgnore
  <1>3. ASSUME NEW q \in Query, DnsIgnore(q) PROVE IInv'
    BY <1>3, IgnoreStep DEF DnsIgnore
  <1>4. ASSUME NEW c \in Client, NEW arrives \in BOOLEAN,
               DhcpDiscover(c, arrives) \/ DhcpRequest(c, arrives) PROVE IInv'
    BY <1>4, DhcpStep
  <1>5. ASSUME NEW c \in Client, NEW arrives \in BOOLEAN, NEW q \in Query,
               DnsAnswer(c, q, arrives) PROVE IInv'
    BY <1>5, DnsStep
  <1>6. ASSUME NEW c \in Client, NEW what \in {"name", "form"}, TcpRecv(c, what) PROVE IInv'
    BY <1>6, TcpStep
  <1>7. CASE UNCHANGED vars
    BY <1>7 DEF vars, IInv, TypeOK, AnswersPaid, AnswerFits, AnswerFramed, HandlersAlive, SocketsClosed
  <1> QED
    BY <1>1, <1>2, <1>3, <1>4, <1>5, <1>6, <1>7 DEF Next
-----------------------------------------------------------------------------
LEMMA Invariance == Spec => []IInv
  BY Initially, Inductive, PTL DEF Spec

(* The state keeps its types however a question leads the walk.             *)
THEOREM TypeCorrect == Spec => []TypeOK
  BY Invariance, PTL DEF IInv

(* The check of the length keeps every answer within dns_msg, whatever the  *)
(* bytes of the question say.                                               *)
THEOREM AnswersStayInBuffer == Spec => []AnswerFits
  BY Invariance, PTL DEF IInv

(* The answer to a proper question that has come in as a whole begins right *)
(* behind it, however many labels it has: the walk ends where it ends, or   *)
(* in the end of the buffer, and such a question is not answered.           *)
THEOREM AnswersFollowQuestions == Spec => []AnswerFramed
  BY Invariance, PTL DEF IInv

(* After initConfigServer has returned no handler is called with its frame, *)
(* unless it returned early.                                                *)
THEOREM HandlersHaveTheirFrame == Spec => []HandlersAlive
  BY Invariance, PTL DEF IInv

(* The access point gives PoolSize answers in its life, DHCP and DNS taken    *)
(* together, and after the last of them hears nothing more, a form included: *)
(* no handler gives a buffer back that an earlier one has kept.              *)
THEOREM DeafAfterLastAnswer ==
  Spec => /\ [](answers <= PoolSize)
          /\ [][answers = PoolSize => UNCHANGED << got, reply, answers >>]_vars
  <1>1. IInv => answers <= PoolSize
    BY DEF IInv, TypeOK, AnswersPaid
  <1>2. IInv /\ [Next]_vars => [answers = PoolSize => UNCHANGED << got, reply, answers >>]_vars
    <2> SUFFICES ASSUME IInv, Next, answers = PoolSize PROVE UNCHANGED << got, reply, answers >>
      OBVIOUS
    <2>1. pool = 0
      BY DEF IInv, TypeOK, AnswersPaid
    <2>2. MainNext
      BY <2>1 DEF Next, DhcpIgnore, DnsIgnore, TcpRecv, DhcpDiscover, DhcpRequest, DnsAnswer, Heard
    <2> QED
      BY <2>2 DEF MainNext, DhcpInit, DhcpRefused, DnsBind, DnsCopyIp, DnsRefused, OpenTcp,
                  OpenRefused, CloseTcp, DnsDeinit, DhcpDeinit, Return, Advance
  <1> QED
    BY <1>1, <1>2, Invariance, PTL DEF Spec
=============================================================================
