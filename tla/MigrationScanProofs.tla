-------------------------- MODULE MigrationScanProofs --------------------------
(***************************************************************************)
(* What a scan finds, for any directory and any contents: the loop of       *)
(* split_statements, which keeps a position and a few counters, is compared *)
(* with the definition of the statements of a file by sets of positions.    *)
(***************************************************************************)
EXTENDS MigrationScan, SequenceTheorems, FunctionTheorems, FiniteSetTheorems, TLAPS

-----------------------------------------------------------------------------
(* Numbers, and sets of numbers in ascending order.                         *)

(* A set of numbers that is not empty has a least element.                  *)
LEMMA Least ==
    ASSUME NEW S \in SUBSET Nat, S # {}
    PROVE  \E k \in S : \A m \in S : k <= m
<1> DEFINE R == OpToRel(<, Nat)
<1>1. \A m, k \in Nat : m < k => <<m, k>> \in R
  BY DEF OpToRel
<1>2. IsWellFoundedOn(R, Nat)
  BY NatLessThanWellFounded
<1> HIDE DEF R
<1>3. PICK k \in S : \A m \in S : <<m, k>> \notin R
  BY <1>2, WFMin, Zenon
<1>4. \A m \in S : m \in Nat /\ k \in Nat /\ ~(m < k)
  BY <1>1, <1>3, Zenon
<1>5. \A m \in S : k <= m
  BY <1>4
<1> QED
  BY <1>5

(* A bounded set of numbers that is not empty has a greatest element.       *)
LEMMA Greatest ==
    ASSUME NEW n \in Nat, NEW S \in SUBSET (0 .. n), S # {}
    PROVE  \E k \in S : \A m \in S : m <= k
<1> DEFINE T == {n - k : k \in S}
<1>1. \A k \in S : k \in 0 .. n /\ n - k \in Nat
  OBVIOUS
<1>2. T \in SUBSET Nat /\ T # {}
  BY <1>1
<1>3. PICK t \in T : \A m \in T : t <= m
  BY <1>2, Least
<1>4. PICK k \in S : t = n - k
  OBVIOUS
<1>5. \A m \in S : n - k <= n - m
  BY <1>3, <1>4
<1>6. \A m \in S : m <= k
  BY <1>1, <1>5
<1> QED
  BY <1>6

(* What is listed in ascending order is listed in ascending order.          *)
LEMMA AscendingFacts ==
    ASSUME NEW S \in SUBSET Nat, IsFiniteSet(S), NEW q \in Ascending(S)
    PROVE  /\ q \in Seq(S) /\ Len(q) = Cardinality(S) /\ Len(q) \in Nat
           /\ DOMAIN q = 1 .. Len(q) /\ S = {q[i] : i \in 1 .. Len(q)}
           /\ \A i \in 1 .. Len(q) : q[i] \in S /\ q[i] \in Nat
           /\ \A i, j \in 1 .. Len(q) : i < j <=> q[i] < q[j]
<1>1. Cardinality(S) \in Nat
  BY FS_CardinalityType
<1>2. /\ q \in [1 .. Cardinality(S) -> S] /\ Range(q) = S
      /\ \A i, j \in DOMAIN q : i < j => q[i] < q[j]
  BY DEF Ascending
<1>3. q \in Seq(S) /\ Len(q) = Cardinality(S) /\ DOMAIN q = 1 .. Len(q)
  BY <1>1, <1>2
<1>4. \A i \in 1 .. Len(q) : q[i] \in S /\ q[i] \in Nat
  BY <1>2, <1>3
<1>5. S = {q[i] : i \in 1 .. Len(q)}
  BY <1>2, <1>3 DEF Range
<1>6. ASSUME NEW i \in 1 .. Len(q), NEW j \in 1 .. Len(q), q[i] < q[j] PROVE i < j
  <2>1. i = j \/ i < j \/ j < i
    BY <1>1, <1>3
  <2>2. j < i => q[j] < q[i]
    BY <1>2, <1>3
  <2>3. q[i] \in Nat /\ q[j] \in Nat
    BY <1>4
  <2> QED
    BY <1>6, <2>1, <2>2, <2>3
<1> QED
  BY <1>1, <1>2, <1>3, <1>4, <1>5, <1>6

(* A set of numbers has no two listings in ascending order.                 *)
LEMMA ListingUnique ==
    ASSUME NEW S \in SUBSET Nat, IsFiniteSet(S),
           NEW q \in Ascending(S), NEW r \in Ascending(S)
    PROVE  q = r
<1> DEFINE n == Cardinality(S)
<1>1. /\ n \in Nat /\ q \in [1 .. n -> S] /\ r \in [1 .. n -> S]
      /\ S = {q[i] : i \in 1 .. n} /\ S = {r[i] : i \in 1 .. n}
      /\ \A i \in 1 .. n : q[i] \in Nat /\ r[i] \in Nat
      /\ \A i, j \in 1 .. n : i < j <=> q[i] < q[j]
      /\ \A i, j \in 1 .. n : i < j <=> r[i] < r[j]
  <2>1. /\ Len(q) = n /\ Len(q) \in Nat /\ S = {q[i] : i \in 1 .. Len(q)}
        /\ \A i \in 1 .. Len(q) : q[i] \in Nat
        /\ \A i, j \in 1 .. Len(q) : i < j <=> q[i] < q[j]
    BY AscendingFacts
  <2>2. /\ Len(r) = n /\ S = {r[i] : i \in 1 .. Len(r)}
        /\ \A i \in 1 .. Len(r) : r[i] \in Nat
        /\ \A i, j \in 1 .. Len(r) : i < j <=> r[i] < r[j]
    BY AscendingFacts
  <2>3. q \in [1 .. n -> S] /\ r \in [1 .. n -> S]
    BY DEF Ascending
  <2> HIDE DEF n
  <2> QED
    BY <2>1, <2>2, <2>3
<1> DEFINE D == {i \in 1 .. n : q[i] # r[i]}
<1> HIDE DEF n
<1>2. SUFFICES ASSUME D # {} PROVE FALSE
  <2>1. SUFFICES ASSUME D = {} PROVE q = r
    OBVIOUS
  <2>2. \A i \in 1 .. n : q[i] = r[i]
    BY <2>1
  <2>3. q = [i \in 1 .. n |-> q[i]] /\ r = [i \in 1 .. n |-> r[i]]
    BY <1>1
  <2> HIDE DEF D
  <2> QED
    BY <2>2, <2>3
<1>3. D \in SUBSET Nat
  BY <1>1
<1>4. PICK i \in D : \A m \in D : i <= m
  BY <1>2, <1>3, Least
<1>5. i \in 1 .. n /\ q[i] # r[i]
  OBVIOUS
<1>6. \A m \in 1 .. n : m < i => q[m] = r[m]
  BY <1>1, <1>4
<1> HIDE DEF D
<1>7. CASE q[i] < r[i]
  <2>1. PICK j \in 1 .. n : q[i] = r[j]
    BY <1>1, <1>5
  <2>2. j < i
    BY <1>1, <1>5, <1>7, <2>1
  <2>3. q[j] = q[i]
    BY <1>6, <2>1, <2>2
  <2>4. ~(q[j] < q[i])
    BY <1>1, <1>5, <2>3
  <2> QED
    BY <1>1, <1>5, <2>2, <2>4
<1>8. CASE r[i] < q[i]
  <2>1. PICK j \in 1 .. n : r[i] = q[j]
    BY <1>1, <1>5
  <2>2. j < i
    BY <1>1, <1>5, <1>8, <2>1
  <2>3. r[j] = r[i]
    BY <1>6, <2>1, <2>2
  <2>4. ~(r[j] < r[i])
    BY <1>1, <1>5, <2>3
  <2> QED
    BY <1>1, <1>5, <2>2, <2>4
<1> QED
  BY <1>1, <1>5, <1>7, <1>8

(* A bounded set of numbers has a listing in ascending order.               *)
LEMMA ListingExists ==
    ASSUME NEW n \in Nat, NEW S \in SUBSET (1 .. n)
    PROVE  Ascending(S) # {}
<1> DEFINE B == {m \in Nat : \E Z \in SUBSET (1 .. m) : Ascending(Z) = {}}
<1>1. SUFFICES ASSUME B # {} PROVE FALSE
  OBVIOUS
<1>2. PICK m \in B : \A k \in B : m <= k
  BY <1>1, Least
<1>3. PICK Z \in SUBSET (1 .. m) : Ascending(Z) = {}
  BY <1>2
<1>4. m \in Nat /\ m - 1 \notin B
  BY <1>2
<1>5. m # 0
  <2>1. SUFFICES ASSUME m = 0 PROVE FALSE
    OBVIOUS
  <2>2. Z = {}
    <3>1. 1 .. m = {}
      BY <2>1
    <3> QED
      BY <3>1
  <2>3. Cardinality(Z) = 0
    BY <2>2, FS_EmptySet
  <2>4. <<>> \in Ascending(Z)
    BY <2>2, <2>3 DEF Ascending, Range
  <2> QED
    BY <1>3, <2>4
<1>6. m - 1 \in Nat
  BY <1>4, <1>5
<1>7. \A Y \in SUBSET (1 .. m - 1) : Ascending(Y) # {}
  BY <1>4, <1>6
<1> HIDE DEF B
<1> DEFINE Y == Z \ {m}
<1>8. Y \in SUBSET (1 .. m - 1)
  BY <1>4
<1>9. m \in Z
  <2>1. SUFFICES ASSUME m \notin Z PROVE FALSE
    OBVIOUS
  <2>2. Y = Z
    BY <2>1
  <2> QED
    BY <1>3, <1>7, <1>8, <2>2
<1>10. /\ IsFiniteSet(Y) /\ Y \in SUBSET Nat
       /\ IsFiniteSet(Z) /\ Cardinality(Y) = Cardinality(Z) - 1 /\ Cardinality(Z) \in Nat
  <2>1. IsFiniteSet(1 .. m)
    BY <1>4, FS_Interval
  <2>2. IsFiniteSet(Z)
    BY <2>1, FS_Subset
  <2> QED
    BY <1>6, <1>8, <1>9, <2>2, FS_RemoveElement, FS_CardinalityType
<1>11. PICK q : q \in Ascending(Y)
  BY <1>7, <1>8
<1> DEFINE c == Cardinality(Y)
           r == [i \in 1 .. c + 1 |-> IF i = c + 1 THEN m ELSE q[i]]
<1>12. /\ c \in Nat /\ DOMAIN q = 1 .. c /\ Y = {q[i] : i \in 1 .. c}
       /\ \A i \in 1 .. c : q[i] \in Y
       /\ \A i, j \in 1 .. c : i < j <=> q[i] < q[j]
  <2> HIDE DEF Y
  <2>1. /\ Len(q) = c /\ Len(q) \in Nat /\ DOMAIN q = 1 .. Len(q)
        /\ Y = {q[i] : i \in 1 .. Len(q)}
        /\ \A i \in 1 .. Len(q) : q[i] \in Y
        /\ \A i, j \in 1 .. Len(q) : i < j <=> q[i] < q[j]
    BY <1>10, <1>11, AscendingFacts
  <2> HIDE DEF c
  <2> QED
    BY <2>1
<1>13. Cardinality(Z) = c + 1 /\ Z = Y \cup {m}
  BY <1>9, <1>10, <1>12
<1> HIDE DEF Y, c
<1>14. 1 .. c + 1 = (1 .. c) \cup {c + 1} /\ c + 1 \notin 1 .. c
  BY <1>12
<1>15. \A i \in 1 .. c : r[i] = q[i]
  BY <1>14
<1>16. DOMAIN r = 1 .. c + 1 /\ r[c + 1] = m
  BY <1>14
<1> HIDE DEF r
<1>17. \A i \in 1 .. c : r[i] < m
  <2>1. \A k \in Y : k < m
    BY <1>4, <1>8
  <2> QED
    BY <1>12, <1>15, <2>1
<1>18. r \in [1 .. c + 1 -> Z] /\ Range(r) = Z
  <2>1. \A i \in 1 .. c + 1 : r[i] \in Z
    BY <1>12, <1>13, <1>14, <1>15, <1>16
  <2>2. \A z \in Z : \E i \in 1 .. c + 1 : r[i] = z
    BY <1>12, <1>13, <1>14, <1>15, <1>16
  <2>3. r = [i \in 1 .. c + 1 |-> r[i]]
    BY <1>16 DEF r
  <2> QED
    BY <1>16, <2>1, <2>2, <2>3 DEF Range
<1>19. \A i, j \in 1 .. c + 1 : i < j => r[i] < r[j]
  <2> SUFFICES ASSUME NEW i \in 1 .. c + 1, NEW j \in 1 .. c + 1, i < j PROVE r[i] < r[j]
    OBVIOUS
  <2>1. i \in 1 .. c
    BY <1>12
  <2>2. CASE j = c + 1
    BY <1>16, <1>17, <2>1, <2>2
  <2>3. CASE j # c + 1
    <3>1. j \in 1 .. c
      BY <1>14, <2>3
    <3> QED
      BY <1>12, <1>15, <2>1, <3>1
  <2> QED
    BY <2>2, <2>3
<1>20. r \in Ascending(Z)
  BY <1>13, <1>16, <1>18, <1>19 DEF Ascending
<1> QED
  BY <1>3, <1>20

-----------------------------------------------------------------------------
(* Comments, and the loop over what they leave of a body.                   *)

(* In the text q of a body: the words in front of position a that no end of *)
(* a statement follows, the newlines in front of a, and the positions of    *)
(* the body that are in front of e, which are those in front of a.          *)
Unended(body, q, a) ==
    {i \in 1 .. a - 1 :
        body[q[i]] \notin Whitespace /\ \A m \in i .. a - 1 : body[q[m]] # ";"}
NewlinesTo(body, q, a) == {m \in {q[i] : i \in 1 .. a - 1} : body[m] = "newline"}
Divides(q, a, e) == \A i \in 1 .. Len(q) : q[i] < e <=> i < a

(* s is the first word of the statement that has not ended in front of a,   *)
(* 0 when there is none.                                                    *)
Begins(body, q, a, s) ==
    /\ s = 0 => Unended(body, q, a) = {}
    /\ s # 0 => s \in Unended(body, q, a) /\ \A i \in Unended(body, q, a) : s <= i

(* The loop of split_statements at position a of the text of a body, with   *)
(* s, first and current for start, line_at_start and current_line.          *)
Loop(body, q, a, s, first, current) ==
    /\ q \in Ascending(Live(body)) /\ a \in 1 .. Len(q) + 1
    /\ Begins(body, q, a, s)
    /\ s # 0 => first = LineOf(body, q[s])
    /\ current = 1 + Cardinality(NewlinesTo(body, q, a))

(* Stripping a body line by line leaves the positions that no comment       *)
(* reaches.                                                                 *)
LEMMA StripLeavesLive ==
    ASSUME NEW T, NEW body \in Seq(T)
    PROVE  strip_sql_comments(body) = Live(body)
<1>1. Len(body) \in Nat /\ DOMAIN body = 1 .. Len(body)
  OBVIOUS
<1>2. ASSUME NEW k \in DOMAIN body, k \in strip_sql_comments(body) PROVE k \in Live(body)
  <2> SUFFICES ASSUME NEW j \in 1 .. k, body[j] = "--",
                      \A m \in j .. k : body[m] # "newline"
               PROVE  FALSE
    BY DEF Live
  <2>1. body[k] # "newline"
    BY <1>1
  <2>2. PICK i \in 1 .. k : OnLine(body, i, k) /\ \A m \in i .. k : body[m] # "--"
    BY <1>2, <2>1 DEF strip_sql_comments
  <2>3. j < i
    BY <1>1, <2>2
  <2>4. i - 1 \in j .. k /\ i # 1
    BY <1>1, <2>3
  <2> QED
    BY <2>2, <2>4 DEF OnLine
<1>3. ASSUME NEW k \in DOMAIN body, k \in Live(body) PROVE k \in strip_sql_comments(body)
  <2>1. SUFFICES ASSUME body[k] # "newline" PROVE k \in strip_sql_comments(body)
    BY DEF strip_sql_comments
  <2> DEFINE N == {m \in 0 .. k : m = 0 \/ body[m] = "newline"}
  <2>2. k \in Nat /\ k > 0 /\ 0 \in N /\ N \in SUBSET (0 .. k)
    BY <1>1
  <2>3. PICK g \in N : \A m \in N : m <= g
    BY <2>2, Greatest
  <2>4. g \in 0 .. k /\ (g = 0 \/ body[g] = "newline") /\ g # k
    BY <2>1, <2>2
  <2>5. \A m \in g + 1 .. k : body[m] # "newline"
    <3> SUFFICES ASSUME NEW m \in g + 1 .. k, body[m] = "newline" PROVE FALSE
      OBVIOUS
    <3>1. m \in N
      BY <1>1, <2>4
    <3> QED
      BY <2>3, <2>4, <3>1
  <2>6. g + 1 \in 1 .. k /\ (g + 1) - 1 = g
    BY <1>1, <2>4
  <2> HIDE DEF N
  <2>7. OnLine(body, g + 1, k)
    BY <1>1, <2>4, <2>5, <2>6 DEF OnLine
  <2>8. \A j \in g + 1 .. k : body[j] # "--"
    <3> SUFFICES ASSUME NEW j \in g + 1 .. k, body[j] = "--" PROVE FALSE
      OBVIOUS
    <3>1. j \in 1 .. k /\ \A m \in j .. k : m \in g + 1 .. k
      BY <1>1, <2>4
    <3> QED
      BY <1>3, <2>5, <3>1 DEF Live
  <2> QED
    BY <2>6, <2>7, <2>8 DEF strip_sql_comments
<1> QED
  BY <1>2, <1>3 DEF strip_sql_comments, Live

(* The positions outside comments are those of the body, finitely many.     *)
LEMMA LiveFacts ==
    ASSUME NEW T, NEW body \in Seq(T)
    PROVE  /\ Live(body) \subseteq 1 .. Len(body) /\ Len(body) \in Nat
           /\ IsFiniteSet(Live(body)) /\ Cardinality(Live(body)) <= Len(body)
<1>1. Len(body) \in Nat /\ Live(body) \subseteq 1 .. Len(body)
  BY DEF Live
<1>2. IsFiniteSet(1 .. Len(body)) /\ Cardinality(1 .. Len(body)) = Len(body)
  <2>1. Len(body) = 0 \/ 1 <= Len(body)
    BY <1>1
  <2>2. /\ IsFiniteSet(1 .. Len(body))
        /\ Cardinality(1 .. Len(body)) = IF 1 > Len(body) THEN 0 ELSE Len(body) - 1 + 1
    BY <1>1, FS_Interval
  <2> QED
    BY <1>1, <2>1, <2>2
<1> QED
  BY <1>1, <1>2, FS_Subset

(* The statement before a character, in positions of the text.              *)
LEMMA StatementIs ==
    ASSUME NEW T, NEW body \in Seq(T), NEW q \in Ascending(Live(body)),
           NEW a \in 1 .. Len(q) + 1, NEW e \in Nat,
           Divides(q, a, e)
    PROVE  StatementBefore(body, e) = {q[i] : i \in Unended(body, q, a)}
<1>1. Live(body) \subseteq Nat /\ IsFiniteSet(Live(body))
  BY LiveFacts
<1>2. /\ Len(q) \in Nat /\ Live(body) = {q[i] : i \in 1 .. Len(q)}
      /\ \A i \in 1 .. Len(q) : q[i] \in Live(body) /\ q[i] \in Nat
      /\ \A i, j \in 1 .. Len(q) : i < j <=> q[i] < q[j]
  BY <1>1, AscendingFacts
<1>3. a \in Nat
  BY <1>2
<1>4. \A i \in 1 .. Len(q) : q[i] < e <=> i \in 1 .. a - 1
  BY <1>2, <1>3 DEF Divides
<1>5. 1 .. a - 1 \subseteq 1 .. Len(q)
  BY <1>2
<1>6. ASSUME NEW k \in StatementBefore(body, e)
      PROVE  k \in {q[i] : i \in Unended(body, q, a)}
  <2>1. /\ k \in Live(body) /\ k < e /\ body[k] \notin Whitespace
        /\ \A m \in k .. e - 1 : m \in Live(body) => body[m] # ";"
    BY DEF StatementBefore
  <2>2. PICK i \in 1 .. Len(q) : k = q[i]
    BY <1>2, <2>1
  <2>3. i \in 1 .. a - 1
    BY <1>4, <2>1, <2>2
  <2>4. ASSUME NEW m \in i .. a - 1 PROVE body[q[m]] # ";"
    <3>1. m \in 1 .. Len(q) /\ (i < m \/ i = m) /\ m \in 1 .. a - 1
      BY <1>2, <1>3, <1>5, <2>3
    <3>2. /\ q[m] \in Nat /\ k \in Nat /\ (k < q[m] \/ k = q[m])
          /\ q[m] < e /\ q[m] \in Live(body)
      BY <1>2, <1>4, <2>2, <3>1
    <3>3. q[m] \in k .. e - 1
      BY <3>2
    <3> QED
      BY <2>1, <3>2, <3>3
  <2> QED
    BY <2>1, <2>2, <2>3, <2>4 DEF Unended
<1>7. ASSUME NEW i \in Unended(body, q, a) PROVE q[i] \in StatementBefore(body, e)
  <2>1. /\ i \in 1 .. a - 1 /\ body[q[i]] \notin Whitespace
        /\ \A m \in i .. a - 1 : body[q[m]] # ";"
    BY DEF Unended
  <2>2. i \in 1 .. Len(q)
    BY <1>5, <2>1
  <2>3. q[i] \in Live(body) /\ q[i] \in Nat /\ q[i] < e
    BY <1>2, <1>4, <2>1, <2>2
  <2>4. ASSUME NEW m \in q[i] .. e - 1, m \in Live(body) PROVE body[m] # ";"
    <3>1. PICK j \in 1 .. Len(q) : m = q[j]
      BY <1>2, <2>4
    <3>2. ~(q[j] < q[i]) /\ q[j] < e
      BY <2>3, <3>1
    <3>3. ~(j < i) /\ j \in 1 .. a - 1
      BY <1>2, <1>4, <2>2, <3>2
    <3>4. j \in i .. a - 1
      BY <2>2, <3>3
    <3> QED
      BY <2>1, <3>1, <3>4
  <2> QED
    BY <2>1, <2>3, <2>4 DEF StatementBefore
<1> QED
  BY <1>6, <1>7

(* Every newline is in the text, so those that the loop has passed are      *)
(* those in front of its position.                                          *)
LEMMA NewlinesAre ==
    ASSUME NEW T, NEW body \in Seq(T), NEW q \in Ascending(Live(body)),
           NEW a \in 1 .. Len(q)
    PROVE  NewlinesTo(body, q, a) = {m \in 1 .. q[a] - 1 : body[m] = "newline"}
<1>1. /\ Live(body) \subseteq Nat /\ Live(body) \subseteq 1 .. Len(body)
      /\ Len(body) \in Nat /\ IsFiniteSet(Live(body))
      /\ Live(body) \in SUBSET Nat
  BY LiveFacts
<1>2. /\ Len(q) \in Nat /\ Live(body) = {q[i] : i \in 1 .. Len(q)}
      /\ \A i \in 1 .. Len(q) : q[i] \in Live(body) /\ q[i] \in Nat
      /\ \A i, j \in 1 .. Len(q) : i < j <=> q[i] < q[j]
  BY <1>1, AscendingFacts
<1>3. ASSUME NEW i \in 1 .. a - 1 PROVE q[i] \in 1 .. q[a] - 1
  <2>1. i \in 1 .. Len(q) /\ i < a
    BY <1>2
  <2>2. q[i] < q[a] /\ q[i] \in Live(body) /\ q[a] \in Nat
    BY <1>2, <2>1
  <2>3. q[i] \in 1 .. Len(body)
    BY <1>1, <2>2
  <2> QED
    BY <1>1, <2>2, <2>3
<1>4. ASSUME NEW m \in 1 .. q[a] - 1, body[m] = "newline"
      PROVE  m \in {q[i] : i \in 1 .. a - 1}
  <2>1. q[a] \in 1 .. Len(body)
    BY <1>1, <1>2
  <2>2. m \in 1 .. Len(body) /\ m < q[a] /\ m \in Nat
    BY <1>1, <2>1
  <2>3. m \in Live(body)
    <3> SUFFICES ASSUME NEW j \in 1 .. m, \A n \in j .. m : body[n] # "newline"
                 PROVE  FALSE
      BY <2>2 DEF Live
    <3>1. m \in j .. m
      BY <2>2
    <3> QED
      BY <1>4, <3>1
  <2>4. PICK i \in 1 .. Len(q) : m = q[i]
    BY <1>2, <2>3
  <2>5. i < a
    BY <1>2, <2>2, <2>4
  <2> QED
    BY <1>2, <2>4, <2>5
<1> QED
  BY <1>3, <1>4 DEF NewlinesTo

(* The text of a body lists the positions outside comments.                 *)
LEMMA TextFacts ==
    ASSUME NEW T, NEW body \in Seq(T), NEW q \in Ascending(Live(body))
    PROVE  /\ Len(q) \in Nat /\ Len(q) <= Len(body) /\ q \in Seq(1 .. Len(body))
           /\ Live(body) = {q[i] : i \in 1 .. Len(q)} /\ DOMAIN q = 1 .. Len(q)
           /\ \A i \in 1 .. Len(q) :
                 q[i] \in Live(body) /\ q[i] \in Nat /\ q[i] \in 1 .. Len(body)
           /\ \A i, j \in 1 .. Len(q) : i < j <=> q[i] < q[j]
<1>1. /\ Live(body) \in SUBSET Nat /\ Live(body) \subseteq 1 .. Len(body)
      /\ Len(body) \in Nat /\ IsFiniteSet(Live(body)) /\ Cardinality(Live(body)) <= Len(body)
  BY LiveFacts
<1>2. /\ q \in Seq(Live(body)) /\ Len(q) = Cardinality(Live(body)) /\ Len(q) \in Nat
      /\ DOMAIN q = 1 .. Len(q) /\ Live(body) = {q[i] : i \in 1 .. Len(q)}
      /\ \A i \in 1 .. Len(q) : q[i] \in Live(body) /\ q[i] \in Nat
      /\ \A i, j \in 1 .. Len(q) : i < j <=> q[i] < q[j]
  BY <1>1, AscendingFacts
<1>3. q \in Seq(1 .. Len(body))
  BY <1>1, <1>2, SeqMonotonic
<1> QED
  BY <1>1, <1>2, <1>3

(* The newlines that the loop has passed are a finite part of the body.     *)
LEMMA NewlinesFacts ==
    ASSUME NEW T, NEW body \in Seq(T), NEW q \in Ascending(Live(body)),
           NEW a \in 1 .. Len(q) + 1
    PROVE  /\ IsFiniteSet(NewlinesTo(body, q, a))
           /\ Cardinality(NewlinesTo(body, q, a)) \in 0 .. Len(body)
<1>1. /\ Len(q) \in Nat
      /\ \A i \in 1 .. Len(q) : q[i] \in Live(body)
  BY TextFacts
<1>2. 1 .. a - 1 \subseteq 1 .. Len(q)
  BY <1>1
<1>3. NewlinesTo(body, q, a) \in SUBSET Live(body)
  BY <1>1, <1>2 DEF NewlinesTo
<1>4. /\ IsFiniteSet(Live(body)) /\ Cardinality(Live(body)) <= Len(body)
      /\ Len(body) \in Nat
  BY LiveFacts
<1>5. /\ IsFiniteSet(NewlinesTo(body, q, a))
      /\ Cardinality(NewlinesTo(body, q, a)) <= Cardinality(Live(body))
  BY <1>3, <1>4, FS_Subset
<1>6. Cardinality(NewlinesTo(body, q, a)) \in Nat /\ Cardinality(Live(body)) \in Nat
  BY <1>4, <1>5, FS_CardinalityType
<1> QED
  BY <1>4, <1>5, <1>6

(* The loop of a file that begins.                                          *)
LEMMA LoopStart ==
    ASSUME NEW T, NEW body \in Seq(T), NEW q \in Ascending(Live(body)), NEW first
    PROVE  Loop(body, q, 1, 0, first, 1)
<1>1. Len(q) \in Nat
  BY TextFacts
<1>2. Unended(body, q, 1) = {} /\ NewlinesTo(body, q, 1) = {}
  BY DEF Unended, NewlinesTo
<1>3. Cardinality(NewlinesTo(body, q, 1)) = 0
  BY <1>2, FS_EmptySet
<1> QED
  BY <1>1, <1>2, <1>3 DEF Loop, Begins

(* A character joins the words of the unended statement, or ends it.        *)
LEMMA UnendedStep ==
    ASSUME NEW body, NEW q, NEW a \in Nat, a # 0
    PROVE  /\ body[q[a]] = ";" => Unended(body, q, a + 1) = {}
           /\ body[q[a]] # ";" /\ body[q[a]] \in Whitespace =>
                 Unended(body, q, a + 1) = Unended(body, q, a)
           /\ body[q[a]] # ";" /\ body[q[a]] \notin Whitespace =>
                 Unended(body, q, a + 1) = Unended(body, q, a) \cup {a}
<1>1. (a + 1) - 1 = a
  OBVIOUS
<1>2. \A i \in 1 .. a : i \in Nat /\ a \in i .. a /\ (i = a \/ i \in 1 .. a - 1)
  OBVIOUS
<1>3. 1 .. a = (1 .. a - 1) \cup {a}
  BY <1>2
<1>4. \A i \in 1 .. a : i .. a = (i .. a - 1) \cup {a}
  BY <1>2
<1>5. a .. a - 1 = {}
  OBVIOUS
<1>6. \A i \in 1 .. a : i \in Unended(body, q, a + 1) <=>
         /\ body[q[i]] \notin Whitespace
         /\ body[q[a]] # ";" /\ \A m \in i .. a - 1 : body[q[m]] # ";"
  BY <1>1, <1>4 DEF Unended
<1>7. \A i \in 1 .. a - 1 : i \in Unended(body, q, a) <=>
         body[q[i]] \notin Whitespace /\ \A m \in i .. a - 1 : body[q[m]] # ";"
  BY DEF Unended
<1>8. Unended(body, q, a + 1) \subseteq 1 .. a /\ Unended(body, q, a) \subseteq 1 .. a - 1
  BY <1>1 DEF Unended
<1>9. CASE body[q[a]] = ";"
  BY <1>6, <1>8, <1>9
<1>10. CASE body[q[a]] # ";"
  BY <1>3, <1>5, <1>6, <1>7, <1>8, <1>10
<1> QED
  BY <1>9, <1>10

(* A newline joins those that the loop has passed.                          *)
LEMMA NewlinesStep ==
    ASSUME NEW T, NEW body \in Seq(T), NEW q \in Ascending(Live(body)),
           NEW a \in 1 .. Len(q)
    PROVE  Cardinality(NewlinesTo(body, q, a + 1)) =
              IF body[q[a]] = "newline" THEN Cardinality(NewlinesTo(body, q, a)) + 1
              ELSE Cardinality(NewlinesTo(body, q, a))
<1>1. /\ Len(q) \in Nat
      /\ \A i, j \in 1 .. Len(q) : i < j <=> q[i] < q[j]
      /\ \A i \in 1 .. Len(q) : q[i] \in Nat
  BY TextFacts
<1>2. /\ a \in Nat /\ (a + 1) - 1 = a /\ 1 .. a = (1 .. a - 1) \cup {a}
      /\ a \in 1 .. Len(q) + 1
  BY <1>1
<1>3. \A i \in 1 .. a - 1 : i \in 1 .. Len(q) /\ i < a
  BY <1>1, <1>2
<1>4. q[a] \notin NewlinesTo(body, q, a)
  BY <1>1, <1>3 DEF NewlinesTo
<1>5. IsFiniteSet(NewlinesTo(body, q, a))
  BY <1>2, NewlinesFacts
<1>6. NewlinesTo(body, q, a + 1) =
         NewlinesTo(body, q, a) \cup {m \in {q[a]} : body[m] = "newline"}
  BY <1>2 DEF NewlinesTo
<1>7. CASE body[q[a]] = "newline"
  <2>1. NewlinesTo(body, q, a + 1) = NewlinesTo(body, q, a) \cup {q[a]}
    BY <1>6, <1>7
  <2> QED
    BY <1>4, <1>5, <1>7, <2>1, FS_AddElement
<1>8. CASE body[q[a]] # "newline"
  <2>1. NewlinesTo(body, q, a + 1) = NewlinesTo(body, q, a)
    BY <1>6, <1>8
  <2> QED
    BY <1>8, <2>1
<1> QED
  BY <1>7, <1>8

(* The line that the loop has counted to is that of its character.          *)
LEMMA LineIs ==
    ASSUME NEW T, NEW body \in Seq(T), NEW q \in Ascending(Live(body)),
           NEW a \in 1 .. Len(q)
    PROVE  1 + Cardinality(NewlinesTo(body, q, a)) = LineOf(body, q[a])
BY NewlinesAre DEF LineOf

(* What a character does to the variables of the loop: s2 is where the      *)
(* statement begins before the character may end it.                        *)
Character(body, q, a, s, first, current, s2, line, next, count) ==
    /\ IF s = 0 /\ body[q[a]] \notin Whitespace THEN s2 = a /\ line = current
       ELSE s2 = s /\ line = first
    /\ IF body[q[a]] = ";" THEN next = 0 ELSE next = s2
    /\ IF body[q[a]] = "newline" THEN count = current + 1 ELSE count = current

(* A character keeps the loop in place, and line_at_start is the line of    *)
(* the statement.                                                           *)
LEMMA LoopStep ==
    ASSUME NEW T, NEW body \in Seq(T), NEW q, NEW a, NEW s, NEW first, NEW current,
           Loop(body, q, a, s, first, current), a <= Len(q),
           NEW s2, NEW line, NEW next, NEW count,
           Character(body, q, a, s, first, current, s2, line, next, count)
    PROVE  /\ Loop(body, q, a + 1, next, line, count)
           /\ s2 # 0 => line = LineOf(body, q[s2])
<1>1. /\ q \in Ascending(Live(body)) /\ a \in 1 .. Len(q) + 1
      /\ Begins(body, q, a, s)
      /\ s # 0 => first = LineOf(body, q[s])
      /\ current = 1 + Cardinality(NewlinesTo(body, q, a))
  BY DEF Loop
<1>2. Len(q) \in Nat
  BY <1>1, TextFacts
<1>3. a \in 1 .. Len(q) /\ a + 1 \in 1 .. Len(q) + 1 /\ a \in Nat /\ a # 0
  BY <1>1, <1>2
<1>4. count = 1 + Cardinality(NewlinesTo(body, q, a + 1))
  <2>1. Cardinality(NewlinesTo(body, q, a)) \in Nat
    BY <1>1, NewlinesFacts
  <2> QED
    <3>1. count = IF body[q[a]] = "newline" THEN current + 1 ELSE current
      BY DEF Character
    <3> QED
      BY <1>1, <1>3, <2>1, <3>1, NewlinesStep
<1>5. s2 # 0 => line = LineOf(body, q[s2])
  <2>1. current = LineOf(body, q[a])
    BY <1>1, <1>3, LineIs
  <2> QED
    BY <1>1, <2>1 DEF Character
<1>6. \A i \in Unended(body, q, a) : i < a /\ i \in Nat /\ i # 0
  <2>1. Unended(body, q, a) \subseteq 1 .. a - 1
    BY DEF Unended
  <2> QED
    BY <1>3, <2>1
<1>7. /\ body[q[a]] = ";" => Unended(body, q, a + 1) = {}
      /\ body[q[a]] # ";" /\ body[q[a]] \in Whitespace =>
            Unended(body, q, a + 1) = Unended(body, q, a)
      /\ body[q[a]] # ";" /\ body[q[a]] \notin Whitespace =>
            Unended(body, q, a + 1) = Unended(body, q, a) \cup {a}
  BY <1>3, UnendedStep
<1>8. Begins(body, q, a + 1, next)
  <2>1. CASE body[q[a]] = ";"
    BY <1>7, <2>1 DEF Begins, Character
  <2>2. CASE body[q[a]] # ";"
    <3>1. CASE s = 0 /\ body[q[a]] \notin Whitespace
      <4>1. Unended(body, q, a + 1) = {a} /\ s2 = a
        <5>1. s = 0 /\ body[q[a]] \notin Whitespace /\ s2 = a
          BY <3>1 DEF Character
        <5>2. Unended(body, q, a) = {}
          BY <1>1, <5>1 DEF Begins
        <5> QED
          BY <1>7, <2>2, <5>1, <5>2
      <4>2. Begins(body, q, a + 1, a)
        BY <1>3, <4>1 DEF Begins
      <4> QED
        BY <2>2, <4>1, <4>2 DEF Character
    <3>2. CASE body[q[a]] \in Whitespace /\ s = 0
      <4>1. Unended(body, q, a + 1) = {} /\ s2 = 0
        BY <1>1, <1>7, <2>2, <3>2 DEF Begins, Character
      <4> QED
        BY <2>2, <4>1 DEF Begins, Character
    <3>3. CASE s # 0
      <4>1. /\ s2 = s /\ s \in Unended(body, q, a)
            /\ \A i \in Unended(body, q, a) : s <= i
        BY <1>1, <3>3 DEF Begins, Character
      <4>2. s \in Nat /\ s <= a
        BY <1>3, <1>6, <4>1
      <4>3. s \in Unended(body, q, a + 1) /\ \A i \in Unended(body, q, a + 1) : s <= i
        BY <1>7, <2>2, <4>1, <4>2
      <4> QED
        BY <2>2, <3>3, <4>1, <4>3 DEF Begins, Character
    <3> QED
      BY <3>1, <3>2, <3>3
  <2> QED
    BY <2>1, <2>2
<1>9. next # 0 => line = LineOf(body, q[next])
  BY <1>5 DEF Character
<1> QED
  BY <1>1, <1>3, <1>4, <1>5, <1>8, <1>9 DEF Loop

(* scan_sql looks for the phrases from the first word of the statement on,  *)
(* which is to look for them in the statement.                              *)
LEMMA FlaggedIsMissing ==
    ASSUME NEW T, NEW body \in Seq(T), NEW q \in Ascending(Live(body)),
           NEW a \in 1 .. Len(q) + 1, NEW e \in Nat, Divides(q, a, e), NEW s,
           \/ s # 0 /\ Begins(body, q, a, s)
           \/ s = a /\ Begins(body, q, a, 0)
    PROVE  LET upper == {body[q[k]] : k \in s .. a - 1}
           IN  Missing(body, StatementBefore(body, e)) <=>
                  "CREATE POLICY" \in upper /\ "FOR SELECT" \notin upper /\ "WITH CHECK" \notin upper
<1> DEFINE upper == {body[q[k]] : k \in s .. a - 1}
           words == {body[k] : k \in StatementBefore(body, e)}
<1>1. Len(q) \in Nat /\ a \in Nat
  BY TextFacts
<1>2. Unended(body, q, a) \subseteq 1 .. a - 1
  BY DEF Unended
<1>3. s # a => s \in Unended(body, q, a) /\ \A i \in Unended(body, q, a) : s <= i
  BY DEF Begins
<1>4. s = a => Unended(body, q, a) = {}
  <2>1. Begins(body, q, a, a) => a = 0 \/ a \in 1 .. a - 1
    BY <1>2 DEF Begins
  <2>2. a # 0 /\ a \notin 1 .. a - 1
    BY <1>1
  <2> QED
    BY <2>1, <2>2 DEF Begins
<1>5. words = {body[q[i]] : i \in Unended(body, q, a)}
  BY StatementIs
<1>6. words \subseteq upper
  <2> SUFFICES ASSUME NEW i \in Unended(body, q, a) PROVE i \in s .. a - 1
    BY <1>5
  <2>1. s \in Unended(body, q, a) /\ s <= i
    BY <1>3, <1>4
  <2>2. s \in Nat /\ i \in 1 .. a - 1
    BY <1>2, <2>1
  <2> QED
    BY <1>1, <2>1, <2>2
<1>7. \A x \in upper : x \notin Whitespace => x \in words
  <2> SUFFICES ASSUME NEW k \in s .. a - 1, body[q[k]] \notin Whitespace
               PROVE  k \in Unended(body, q, a)
    BY <1>5
  <2>1. CASE s = a
    BY <1>1, <2>1
  <2>2. CASE s # a
    <3>1. s \in 1 .. a - 1
      BY <1>2, <1>3, <2>2
    <3>2. \A m \in s .. a - 1 : body[q[m]] # ";"
      BY <1>3, <2>2 DEF Unended
    <3>3. k \in 1 .. a - 1 /\ \A m \in k .. a - 1 : m \in s .. a - 1
      <4>1. s \in Nat /\ 1 <= s /\ k \in Int /\ s <= k /\ k <= a - 1
        BY <1>1, <3>1
      <4> QED
        BY <1>1, <4>1
    <3> QED
      BY <3>1, <3>2, <3>3 DEF Unended
  <2> QED
    BY <2>1, <2>2
<1>8. \A x \in {"CREATE POLICY", "FOR SELECT", "WITH CHECK"} : x \in words <=> x \in upper
  BY <1>6, <1>7 DEF Whitespace
<1>9. Missing(body, StatementBefore(body, e)) <=>
         "CREATE POLICY" \in words /\ words \cap {"WITH CHECK", "FOR SELECT"} = {}
  BY DEF Missing
<1> HIDE DEF upper, words
<1>10. words \cap {"WITH CHECK", "FOR SELECT"} = {} <=>
          "WITH CHECK" \notin words /\ "FOR SELECT" \notin words
  OBVIOUS
<1>11. Missing(body, StatementBefore(body, e)) <=>
          "CREATE POLICY" \in upper /\ "FOR SELECT" \notin upper /\ "WITH CHECK" \notin upper
  BY <1>8, <1>9, <1>10
<1> QED
  BY <1>11 DEF upper

(* The least position of a statement is that of the word which opened it.   *)
LEMMA LintOfIs ==
    ASSUME NEW T, NEW p, dir[p].body \in Seq(T), NEW q \in Ascending(Live(dir[p].body)),
           NEW a \in 1 .. Len(q) + 1, NEW e \in Nat, Divides(q, a, e), NEW s,
           s # 0, Begins(dir[p].body, q, a, s)
    PROVE  LintOf(p, StatementBefore(dir[p].body, e)) =
              [file |-> p, line |-> LineOf(dir[p].body, q[s]), stmt |-> q[s]]
<1> DEFINE body == dir[p].body
           S == StatementBefore(body, e)
<1>1. /\ Len(q) \in Nat
      /\ \A i \in 1 .. Len(q) : q[i] \in Nat
      /\ \A i, j \in 1 .. Len(q) : i < j <=> q[i] < q[j]
  BY TextFacts
<1>2. S = {q[i] : i \in Unended(body, q, a)}
  BY StatementIs
<1>3. /\ s \in Unended(body, q, a) /\ \A i \in Unended(body, q, a) : s <= i
      /\ Unended(body, q, a) \subseteq 1 .. Len(q)
  <2>1. Unended(body, q, a) \subseteq 1 .. a - 1
    BY DEF Unended
  <2>2. 1 .. a - 1 \subseteq 1 .. Len(q)
    BY <1>1
  <2> QED
    BY <2>1, <2>2 DEF Begins
<1>4. \A i \in Unended(body, q, a) : q[s] <= q[i] /\ q[i] \in Nat /\ q[s] \in Nat
  <2> SUFFICES ASSUME NEW i \in Unended(body, q, a)
               PROVE  q[s] <= q[i] /\ q[i] \in Nat /\ q[s] \in Nat
    OBVIOUS
  <2>1. i \in 1 .. Len(q) /\ s \in 1 .. Len(q) /\ s <= i
    BY <1>3
  <2>2. q[i] \in Nat /\ q[s] \in Nat /\ ~(i < s)
    BY <1>1, <2>1
  <2>3. ~(q[i] < q[s])
    BY <1>1, <2>1, <2>2
  <2> QED
    BY <2>2, <2>3
<1>5. q[s] \in S /\ \A m \in S : q[s] <= m
  BY <1>2, <1>3, <1>4
<1>6. S \subseteq Nat
  BY <1>2, <1>4
<1> DEFINE k == CHOOSE k \in S : \A m \in S : k <= m
<1> HIDE DEF S
<1>7. k \in S /\ \A m \in S : k <= m
  BY <1>5
<1>8. k = q[s]
  <2>1. k <= q[s] /\ q[s] <= k /\ k \in Nat /\ q[s] \in Nat
    BY <1>5, <1>6, <1>7
  <2> HIDE DEF k
  <2> QED
    BY <2>1
<1> QED
  BY <1>8 DEF LintOf, S

-----------------------------------------------------------------------------
(* The invariant.                                                           *)

(* The orders of the files and of the lints.                                *)
Increasing(q) == \A i, j \in DOMAIN q : i < j => q[i] < q[j]
Precedes(l, r) == l.file < r.file \/ (l.file = r.file /\ l.stmt < r.stmt)
InOrder(s) == \A i, j \in DOMAIN s : i < j => Precedes(s[i], s[j])

(* What can be read of the directory is short enough.                       *)
DirOK ==
    /\ dir \in [1 .. Paths -> [sql : BOOLEAN, body : Seq(Tokens) \cup {Unreadable}]]
    /\ \A p \in 1 .. Paths : dir[p].body # Unreadable => Len(dir[p].body) <= MaxTokens

(* The loop is in place in a file that can be read.                         *)
Reading ==
    file # 0 =>
        /\ Body # Unreadable
        /\ Loop(Body, text, at, start, line_at_start, current_line)

(* The ends of statements that the loop has passed.                         *)
EndsRead == {k \in {text[i] : i \in 1 .. at - 1} : Body[k] = ";"}

(* The lints before the loop, and the loop before the queue.                *)
Passed(l) ==
    /\ \A k \in DOMAIN queue : l.file < queue[k]
    /\ file # 0 => \/ l.file < file
                   \/ l.file = file /\ \E e \in EndsRead : l.stmt < e

Ordered ==
    /\ Increasing(queue)
    /\ file # 0 => \A k \in DOMAIN queue : file < queue[k]
    /\ \A l \in ToSet(out) : Passed(l)
    /\ InOrder(out)

(* What is read is in the lints.                                            *)
Found ==
    (UNION {Lints(p) : p \in SqlFiles \ (Range(queue) \cup {file})})
    \cup (IF file = 0 THEN {} ELSE LintsAt(file, EndsRead))

AllRead ==
    /\ outcome \in {"scanning", "ok"} =>
          /\ \A p \in SqlFiles : dir[p].body # Unreadable \/ p \in Range(queue)
          /\ ToSet(out) = Found
    /\ outcome = "ok" => queue = <<>> /\ file = 0

(* The inductive invariant.                                                 *)
ScanInv == TypeOK /\ DirOK /\ Reading /\ Ordered /\ AllRead

-----------------------------------------------------------------------------
(* Paths are numbers.                                                       *)
LEMMA SqlFilesFacts ==
    /\ SqlFiles \subseteq Nat /\ SqlFiles \subseteq 1 .. Paths /\ 0 \notin SqlFiles
    /\ IsFiniteSet(SqlFiles)
<1>1. SqlFiles \in SUBSET (1 .. Paths)
  BY DEF SqlFiles
<1>2. IsFiniteSet(1 .. Paths)
  BY ScanAssumption, FS_Interval
<1>3. IsFiniteSet(SqlFiles)
  BY <1>1, <1>2, FS_Subset
<1> QED
  BY <1>1, <1>3

(* A file that can be read has a body of tokens.                            *)
LEMMA BodyFacts ==
    ASSUME DirOK, NEW p \in SqlFiles, dir[p].body # Unreadable
    PROVE  dir[p].body \in Seq(Tokens) /\ Len(dir[p].body) <= MaxTokens
BY DEF DirOK, SqlFiles

(* The statements that end at either of two sets of positions.              *)
LEMMA LintsAtUnion ==
    ASSUME NEW p, NEW E, NEW F
    PROVE  LintsAt(p, E \cup F) = LintsAt(p, E) \cup LintsAt(p, F)
BY Zenon DEF LintsAt

(* One statement has its lint or none.                                      *)
LEMMA LintsAtOne ==
    ASSUME NEW p, NEW e
    PROVE  LintsAt(p, {e}) =
              IF Missing(dir[p].body, StatementBefore(dir[p].body, e))
              THEN {LintOf(p, StatementBefore(dir[p].body, e))} ELSE {}
<1> DEFINE S == StatementBefore(dir[p].body, e)
<1>1. {StatementBefore(dir[p].body, x) : x \in {e}} = {S}
  OBVIOUS
<1>2. LintsAt(p, {e}) = {LintOf(p, Z) : Z \in {Z \in {S} : Missing(dir[p].body, Z)}}
  BY <1>1 DEF LintsAt
<1> HIDE DEF S
<1>3. CASE Missing(dir[p].body, S)
  BY <1>2, <1>3 DEF S
<1>4. CASE ~Missing(dir[p].body, S)
  BY <1>2, <1>4 DEF S
<1> QED
  BY <1>3, <1>4

(* One more lint behind the others.                                         *)
LEMMA AppendFacts ==
    ASSUME NEW S, NEW s \in Seq(S), NEW r \in S
    PROVE  /\ Append(s, r) \in Seq(S) /\ ToSet(Append(s, r)) = ToSet(s) \cup {r}
           /\ InOrder(s) /\ (\A l \in ToSet(s) : Precedes(l, r)) => InOrder(Append(s, r))
<1> DEFINE n == Len(s)
           t == Append(s, r)
<1>1. /\ n \in Nat /\ DOMAIN s = 1 .. n /\ t \in Seq(S) /\ DOMAIN t = 1 .. n + 1
      /\ \A i \in 1 .. n : t[i] = s[i]
      /\ t[n + 1] = r
  <2>1. /\ t \in Seq(S) /\ Len(t) = n + 1
        /\ \A i \in 1 .. n : t[i] = s[i]
        /\ t[n + 1] = r
    BY AppendProperties
  <2> QED
    BY <2>1
<1> HIDE DEF n, t
<1>2. 1 .. n + 1 = (1 .. n) \cup {n + 1}
  BY <1>1
<1>3. ToSet(t) = ToSet(s) \cup {r}
  BY <1>1, <1>2 DEF ToSet
<1>4. ASSUME InOrder(s), \A l \in ToSet(s) : Precedes(l, r)
      PROVE  InOrder(t)
  <2> SUFFICES ASSUME NEW i \in 1 .. n + 1, NEW j \in 1 .. n + 1, i < j
               PROVE  Precedes(t[i], t[j])
    BY <1>1 DEF InOrder
  <2>1. i \in 1 .. n
    BY <1>1
  <2>2. CASE j = n + 1
    BY <1>1, <1>4, <2>1, <2>2 DEF ToSet
  <2>3. CASE j # n + 1
    <3>1. j \in 1 .. n
      BY <1>1, <2>3
    <3> QED
      BY <1>1, <1>4, <2>1, <3>1 DEF InOrder
  <2> QED
    BY <2>2, <2>3
<1> QED
  BY <1>1, <1>3, <1>4 DEF t

(* The statement that has begun is in the file, behind the ends read.       *)
LEMMA StatementFacts ==
    ASSUME TypeOK, DirOK, Reading, file # 0,
           NEW s, s # 0, Begins(Body, text, at, s)
    PROVE  /\ s \in Unended(Body, text, at) /\ s \in 1 .. at - 1 /\ s \in 1 .. Len(text)
           /\ text[s] \in 1 .. Len(Body) /\ text[s] \in 1 .. MaxTokens
           /\ LineOf(Body, text[s]) \in 1 .. MaxTokens + 1
           /\ \A e \in EndsRead : e < text[s]
<1>1. /\ Body \in Seq(Tokens) /\ Len(Body) <= MaxTokens /\ Len(Body) \in Nat
      /\ file \in SqlFiles
      /\ text \in Ascending(Live(Body)) /\ at \in 1 .. Len(text) + 1
  BY BodyFacts DEF TypeOK, Reading, Loop, Body
<1>2. /\ Len(text) \in Nat
      /\ \A i \in 1 .. Len(text) : text[i] \in 1 .. Len(Body) /\ text[i] \in Nat
      /\ \A i, j \in 1 .. Len(text) : i < j <=> text[i] < text[j]
  BY <1>1, TextFacts
<1>3. 1 .. at - 1 \subseteq 1 .. Len(text) /\ MaxTokens \in Nat
  BY <1>1, <1>2, ScanAssumption
<1>4. /\ s \in Unended(Body, text, at) /\ s \in 1 .. at - 1
      /\ \A m \in s .. at - 1 : Body[text[m]] # ";"
  BY DEF Begins, Unended
<1>5. s \in 1 .. Len(text) /\ text[s] \in 1 .. Len(Body) /\ text[s] \in 1 .. MaxTokens
  <2>1. s \in 1 .. Len(text)
    BY <1>3, <1>4
  <2>2. text[s] \in 1 .. Len(Body)
    BY <1>2, <2>1
  <2> HIDE DEF Body
  <2> QED
    BY <1>1, <1>3, <2>1, <2>2
<1>6. LineOf(Body, text[s]) \in 1 .. MaxTokens + 1
  <2>1. Cardinality(NewlinesTo(Body, text, s)) \in 0 .. Len(Body)
    BY <1>1, <1>2, <1>5, NewlinesFacts
  <2>2. LineOf(Body, text[s]) = 1 + Cardinality(NewlinesTo(Body, text, s))
    BY <1>1, <1>5, LineIs
  <2> QED
    BY <1>1, <1>3, <2>1, <2>2
<1>7. ASSUME NEW e \in EndsRead PROVE e < text[s]
  <2>1. PICK j \in 1 .. at - 1 : e = text[j] /\ Body[text[j]] = ";"
    BY DEF EndsRead
  <2>2. j \notin s .. at - 1
    BY <1>4, <2>1
  <2>3. j < s /\ j \in 1 .. Len(text)
    <3>1. at \in Nat
      BY <1>1, <1>2
    <3>2. s \in 1 .. at - 1 /\ j \in 1 .. at - 1 /\ j \in 1 .. Len(text)
      BY <1>3, <1>4, <2>1
    <3>3. j < s
      BY <2>2, <3>1, <3>2
    <3> QED
      BY <3>2, <3>3
  <2> QED
    BY <1>2, <1>5, <2>1, <2>3
<1> QED
  BY <1>4, <1>5, <1>6, <1>7

LintRecord == [file : SqlFiles, line : 1 .. MaxTokens + 1, stmt : 1 .. MaxTokens]

(* The lints for the statement that ends at e join the others.              *)
Linted(e) ==
    \/ LintsAt(file, {e}) = {} /\ UNCHANGED <<out, outcome>>
    \/ outcome' = "panic" /\ UNCHANGED out
    \/ \E r \in LintRecord :
          /\ LintsAt(file, {e}) = {r} /\ out' = Append(out, r) /\ UNCHANGED outcome
          /\ r.file = file /\ r.stmt < e /\ \A x \in EndsRead : x < r.stmt

(* What scan_sql does with a statement of the file: its lint, if it calls   *)
(* for one.                                                                 *)
LEMMA LintDoes ==
    ASSUME TypeOK, DirOK, Reading, file # 0,
           NEW e \in Nat, Divides(text, at, e), NEW s, NEW line,
           \/ s # 0 /\ Begins(Body, text, at, s) /\ line = LineOf(Body, text[s])
           \/ s = at /\ Begins(Body, text, at, 0),
           Lint(s, at - 1, line)
    PROVE  Linted(e)
<1> DEFINE S == StatementBefore(Body, e)
           r == [file |-> file, line |-> line, stmt |-> text[s]]
<1>1. /\ Body \in Seq(Tokens) /\ file \in SqlFiles
      /\ text \in Ascending(Live(Body)) /\ at \in 1 .. Len(text) + 1
  BY BodyFacts DEF TypeOK, Reading, Loop, Body
<1>2. Flagged(s, at - 1) <=> Missing(Body, S)
  <2> DEFINE upper == {Body[text[k]] : k \in s .. at - 1}
  <2>1. Missing(Body, S) <=>
           "CREATE POLICY" \in upper /\ "FOR SELECT" \notin upper /\ "WITH CHECK" \notin upper
    <3>1. \/ s # 0 /\ Begins(Body, text, at, s)
          \/ s = at /\ Begins(Body, text, at, 0)
      OBVIOUS
    <3> QED
      BY <1>1, <3>1, FlaggedIsMissing
  <2>2. Flagged(s, at - 1) <=>
           "CREATE POLICY" \in upper /\ "FOR SELECT" \notin upper /\ "WITH CHECK" \notin upper
    BY DEF Flagged
  <2> QED
    BY <2>1, <2>2
<1>3. LintsAt(file, {e}) = IF Missing(Body, S) THEN {LintOf(file, S)} ELSE {}
  BY LintsAtOne DEF Body
<1>4. CASE ~Missing(Body, S)
  <2>1. LintsAt(file, {e}) = {}
    BY <1>3, <1>4
  <2>2. UNCHANGED <<out, outcome>>
    BY <1>2, <1>4 DEF Lint
  <2> QED
    BY <2>1, <2>2 DEF Linted
<1>5. CASE Missing(Body, S)
  <2>1. s # 0 /\ Begins(Body, text, at, s) /\ line = LineOf(Body, text[s])
    <3>1. SUFFICES ASSUME s = at, Begins(Body, text, at, 0) PROVE FALSE
      OBVIOUS
    <3>2. Unended(Body, text, at) = {}
      BY <3>1 DEF Begins
    <3>3. S = {}
      BY <1>1, <3>2, StatementIs
    <3> QED
      BY <1>5, <3>3 DEF Missing
  <2>2. LintOf(file, S) = r
    <3>1. LintOf(file, S) = [file |-> file, line |-> LineOf(Body, text[s]), stmt |-> text[s]]
      BY <1>1, <2>1, LintOfIs DEF Body
    <3> QED
      BY <2>1, <3>1
  <2>3. LintsAt(file, {e}) = {r}
    BY <1>3, <1>5, <2>2
  <2>4. /\ s \in 1 .. at - 1 /\ s \in 1 .. Len(text) /\ text[s] \in 1 .. MaxTokens
        /\ line \in 1 .. MaxTokens + 1
        /\ \A x \in EndsRead : x < text[s]
    BY <2>1, StatementFacts
  <2>5. text[s] < e
    <3>1. at \in Nat /\ s < at
      BY <1>1, <2>4 DEF TypeOK
    <3> QED
      BY <2>4, <3>1 DEF Divides
  <2>6. /\ r \in LintRecord
        /\ r.file = file /\ r.stmt = text[s]
    BY <1>1, <2>4 DEF LintRecord
  <2>7. \/ outcome' = "panic" /\ UNCHANGED out
        \/ out' = Append(out, r) /\ UNCHANGED outcome
    BY <1>2, <1>5 DEF Lint
  <2> HIDE DEF r
  <2> QED
    BY <2>3, <2>4, <2>5, <2>6, <2>7 DEF Linted
<1> QED
  BY <1>4, <1>5

(* A lint for the file goes behind those that are there.                    *)
LEMMA LintKeeps ==
    ASSUME ScanInv, file # 0, outcome = "scanning", NEW e \in Nat, Linted(e)
    PROVE  /\ out' \in Seq(LintRecord) /\ InOrder(out') /\ outcome' \in {"scanning", "panic"}
           /\ \A l \in ToSet(out') : Passed(l) \/ (l.file = file /\ l.stmt < e)
           /\ \A l \in ToSet(out') : \A k \in DOMAIN queue : l.file < queue[k]
           /\ outcome' = "scanning" => ToSet(out') = Found \cup LintsAt(file, {e})
<1>1. /\ out \in Seq(LintRecord) /\ InOrder(out) /\ ToSet(out) = Found
      /\ \A l \in ToSet(out) : Passed(l)
      /\ \A k \in DOMAIN queue : file < queue[k]
  BY DEF ScanInv, TypeOK, Ordered, AllRead, LintRecord
<1>2. CASE /\ UNCHANGED out
           /\ outcome' = "panic" \/ (LintsAt(file, {e}) = {} /\ UNCHANGED outcome)
  <2>1. \A l \in ToSet(out) : \A k \in DOMAIN queue : l.file < queue[k]
    BY <1>1 DEF Passed
  <2>2. outcome' \in {"scanning", "panic"}
    BY <1>2
  <2>3. outcome' = "scanning" => Found = Found \cup LintsAt(file, {e})
    BY <1>2
  <2>4. out' = out
    BY <1>2
  <2> QED
    BY <1>1, <2>1, <2>2, <2>3, <2>4, Zenon
<1>3. ASSUME NEW r \in LintRecord, LintsAt(file, {e}) = {r},
             out' = Append(out, r), UNCHANGED outcome,
             r.file = file, r.stmt < e, \A x \in EndsRead : x < r.stmt
      PROVE  /\ out' \in Seq(LintRecord) /\ InOrder(out')
             /\ \A l \in ToSet(out') : Passed(l) \/ (l.file = file /\ l.stmt < e)
             /\ \A l \in ToSet(out') : \A k \in DOMAIN queue : l.file < queue[k]
             /\ ToSet(out') = Found \cup LintsAt(file, {e})
  <2>1. ASSUME NEW l \in ToSet(out) PROVE Precedes(l, r)
    <3>1. l.file < file \/ (l.file = file /\ \E x \in EndsRead : l.stmt < x)
      BY <1>1 DEF Passed
    <3>2. l \in LintRecord
      <4>1. PICK i \in DOMAIN out : l = out[i]
        BY DEF ToSet
      <4> QED
        BY <1>1, <4>1, ElementOfSeq
    <3>3. CASE l.file < file
      BY <1>3, <3>3 DEF Precedes
    <3>4. ASSUME l.file = file, NEW x \in EndsRead, l.stmt < x PROVE Precedes(l, r)
      <4>1. x < r.stmt /\ l.stmt < x
        BY <1>3, <3>4
      <4>2. l.stmt \in Nat /\ r.stmt \in Nat
        BY <1>3, <3>2 DEF LintRecord
      <4>3. x \in Nat
        <5>1. PICK i \in 1 .. at - 1 : x = text[i]
          BY DEF EndsRead
        <5>2. text \in Seq(1 .. MaxTokens) /\ at \in 1 .. Len(text) + 1 /\ Len(text) \in Nat
          BY DEF ScanInv, TypeOK
        <5>3. i \in 1 .. Len(text)
          <6>1. at \in Nat /\ at <= Len(text) + 1
            BY <5>2
          <6> QED
            BY <5>2, <6>1
        <5>4. text[i] \in 1 .. MaxTokens
          BY <5>2, <5>3, ElementOfSeq
        <5> QED
          BY <5>1, <5>4
      <4>4. l.stmt < r.stmt
        BY <4>1, <4>2, <4>3
      <4> QED
        BY <1>3, <3>4, <4>4 DEF Precedes
    <3> QED
      BY <3>1, <3>3, <3>4
  <2>2. out' \in Seq(LintRecord) /\ InOrder(out') /\ ToSet(out') = ToSet(out) \cup {r}
    BY <1>1, <1>3, <2>1, AppendFacts
  <2>3. ASSUME NEW l \in ToSet(out')
        PROVE  /\ Passed(l) \/ (l.file = file /\ l.stmt < e)
               /\ \A k \in DOMAIN queue : l.file < queue[k]
    <3>1. CASE l \in ToSet(out)
      BY <1>1, <3>1 DEF Passed
    <3>2. CASE l = r
      BY <1>1, <1>3, <3>2
    <3> QED
      BY <2>2, <3>1, <3>2
  <2> QED
    BY <1>1, <1>3, <2>2, <2>3
<1>4. CASE \E r \in LintRecord :
              /\ LintsAt(file, {e}) = {r} /\ out' = Append(out, r) /\ UNCHANGED outcome
              /\ r.file = file /\ r.stmt < e /\ \A x \in EndsRead : x < r.stmt
  <2>1. PICK r \in LintRecord :
           /\ LintsAt(file, {e}) = {r} /\ out' = Append(out, r) /\ UNCHANGED outcome
           /\ r.file = file /\ r.stmt < e /\ \A x \in EndsRead : x < r.stmt
    BY <1>4
  <2> QED
    BY <1>3, <2>1
<1> QED
  BY <1>2, <1>4 DEF Linted

(* The lints of a file do not change while the directory does not.          *)
LEMMA SameLints ==
    ASSUME NEW p, NEW E, UNCHANGED dir
    PROVE  Lints(p)' = Lints(p) /\ LintsAt(p, E)' = LintsAt(p, E)
BY Zenon DEF Lints, LintsAt, LintOf

(* One character of a file.                                                 *)
LEMMA CharacterKeeps ==
    ASSUME ScanInv, split_statements
    PROVE  ScanInv'
<1> DEFINE ch == Body[text[at]]
           opens == start = 0 /\ ch \notin Whitespace
           s == IF opens THEN at ELSE start
           line == IF opens THEN current_line ELSE line_at_start
           e == text[at]
<1>1. /\ outcome = "scanning" /\ file # 0 /\ at <= Len(text) /\ at' = at + 1
      /\ UNCHANGED <<dir, queue, file, text>>
  BY DEF split_statements
<1>2. /\ IF ch = ";" THEN start' = 0 /\ Lint(s, at - 1, line)
         ELSE start' = s /\ UNCHANGED <<out, outcome>>
      /\ line_at_start' = line
      /\ current_line' = IF ch = "newline" THEN current_line + 1 ELSE current_line
  BY DEF split_statements
<1>3. file \in SqlFiles /\ Body # Unreadable
  BY <1>1 DEF ScanInv, TypeOK, Reading
<1>4. Body \in Seq(Tokens) /\ Len(Body) <= MaxTokens /\ Len(Body) \in Nat
  BY <1>3, BodyFacts DEF ScanInv, Body
<1>5. /\ text \in Ascending(Live(Body)) /\ at \in 1 .. Len(text) + 1
      /\ Begins(Body, text, at, start)
      /\ start # 0 => line_at_start = LineOf(Body, text[start])
  BY <1>1 DEF ScanInv, Reading, Loop
<1>6. /\ Len(text) \in Nat
      /\ \A i \in 1 .. Len(text) : text[i] \in 1 .. Len(Body) /\ text[i] \in Nat
      /\ \A i, j \in 1 .. Len(text) : i < j <=> text[i] < text[j]
  BY <1>4, <1>5, TextFacts
<1>7. at \in 1 .. Len(text) /\ at + 1 \in 1 .. Len(text) + 1 /\ e \in Nat /\ at # 0
  <2>1. at \in 1 .. Len(text)
    BY <1>1, <1>5, <1>6
  <2> QED
    BY <1>6, <2>1
<1>8. SqlFiles' = SqlFiles /\ Body' = Body /\ DirOK'
  BY <1>1 DEF SqlFiles, Body, ScanInv, DirOK
<1>9. Loop(Body, text, at, start, line_at_start, current_line)
  BY <1>1 DEF ScanInv, Reading
<1>10. /\ Loop(Body, text, at + 1, start', line, current_line')
       /\ s # 0 => line = LineOf(Body, text[s])
  <2>1. Character(Body, text, at, start, line_at_start, current_line,
                  s, line, start', current_line')
    BY <1>2 DEF Character
  <2>2. at <= Len(text) /\ Body \in Seq(Tokens)
    BY <1>1, <1>4
  <2> HIDE DEF ch, opens, s, line, e
  <2> QED
    BY <1>9, <2>1, <2>2, LoopStep
<1>11. Reading'
  <2>1. at' = at + 1 /\ line_at_start' = line
    BY <1>1, <1>2
  <2>2. Loop(Body, text, at', start', line_at_start', current_line')
    BY <1>10, <2>1
  <2>3. Loop(Body', text', at', start', line_at_start', current_line')
    BY <1>1, <1>8, <2>2
  <2> QED
    BY <1>3, <1>8, <2>3 DEF Reading
<1>12. /\ at' \in 1 .. Len(text') + 1 /\ start' \in 0 .. Len(text')
       /\ {line_at_start', current_line'} \subseteq 1 .. MaxTokens + 1
  <2>1. s \in 0 .. Len(text)
    <3>1. start \in 0 .. Len(text) /\ at \in 0 .. Len(text)
      BY <1>7 DEF ScanInv, TypeOK
    <3> QED
      BY <3>1
  <2>2. line \in 1 .. MaxTokens + 1
    BY DEF ScanInv, TypeOK
  <2> HIDE DEF s, line, ch
  <2>3. current_line' = 1 + Cardinality(NewlinesTo(Body, text, at + 1))
    BY <1>10 DEF Loop
  <2>4. Cardinality(NewlinesTo(Body, text, at + 1)) \in 0 .. Len(Body)
    BY <1>4, <1>5, <1>7, NewlinesFacts
  <2>5. current_line' \in 1 .. MaxTokens + 1
    BY <1>4, <2>3, <2>4, ScanAssumption
  <2>6. start' \in 0 .. Len(text)
    <3>1. start' = 0 \/ start' = s
      BY <1>2
    <3> QED
      BY <1>6, <2>1, <3>1
  <2> QED
    BY <1>1, <1>2, <1>7, <2>2, <2>5, <2>6
<1>13. EndsRead' = EndsRead \cup (IF ch = ";" THEN {e} ELSE {})
  <2>1. at \in Nat /\ 1 .. (at + 1) - 1 = (1 .. at - 1) \cup {at}
    BY <1>7
  <2>2. EndsRead' = {k \in {text[i] : i \in 1 .. (at + 1) - 1} : Body[k] = ";"}
    BY <1>1, <1>8 DEF EndsRead
  <2>3. {text[i] : i \in 1 .. (at + 1) - 1} = {text[i] : i \in 1 .. at - 1} \cup {text[at]}
    BY <2>1
  <2> QED
    BY <2>2, <2>3 DEF EndsRead
<1>14. /\ out' \in Seq(LintRecord) /\ InOrder(out') /\ outcome' \in {"scanning", "panic"}
       /\ \A l \in ToSet(out') : Passed(l)'
       /\ outcome' = "scanning" => ToSet(out') = Found'
  <2>1. Found' = (UNION {Lints(p) : p \in SqlFiles \ (Range(queue) \cup {file})})
                 \cup LintsAt(file, EndsRead')
    <3>1. /\ UNION {Lints(p)' : p \in SqlFiles' \ (Range(queue') \cup {file'})}
                = UNION {Lints(p) : p \in SqlFiles \ (Range(queue) \cup {file})}
          /\ LintsAt(file, EndsRead)' = LintsAt(file, EndsRead')
      <4>1. ASSUME NEW p PROVE Lints(p)' = Lints(p)
        BY <1>1, SameLints
      <4>2. LintsAt(file, EndsRead)' = LintsAt(file, EndsRead')
        BY <1>1, SameLints
      <4> QED
        BY <1>1, <1>8, <4>1, <4>2, Zenon
    <3> QED
      BY <1>1, <3>1, Zenon DEF Found
  <2>2. Found = (UNION {Lints(p) : p \in SqlFiles \ (Range(queue) \cup {file})})
                 \cup LintsAt(file, EndsRead)
    BY <1>1 DEF Found
  <2>3. CASE ch = ";"
    <3>1. Lint(s, at - 1, line)
      BY <1>2, <2>3
    <3>2. \/ s # 0 /\ Begins(Body, text, at, s) /\ line = LineOf(Body, text[s])
          \/ s = at /\ Begins(Body, text, at, 0)
      <4>1. CASE start = 0
        <5>1. s = at
          BY <2>3, <4>1 DEF Whitespace
        <5> QED
          BY <1>5, <4>1, <5>1
      <4>2. CASE start # 0
        <5>1. s = start /\ line = line_at_start
          BY <4>2
        <5> QED
          BY <1>5, <4>2, <5>1
      <4> QED
        BY <4>1, <4>2
    <3>3. Divides(text, at, e)
      BY <1>6, <1>7 DEF Divides
    <3> HIDE DEF s, line, ch, opens
    <3>4. Linted(e)
      BY <1>1, <1>7, <3>1, <3>2, <3>3, LintDoes DEF ScanInv
    <3>5. EndsRead' = EndsRead \cup {e}
      BY <1>13, <2>3
    <3>6. Found' = Found \cup LintsAt(file, {e})
      <4>1. LintsAt(file, EndsRead') = LintsAt(file, EndsRead) \cup LintsAt(file, {e})
        BY <3>5, LintsAtUnion
      <4> HIDE DEF e
      <4> QED
        BY <2>1, <2>2, <4>1
    <3> HIDE DEF e
    <3>7. /\ out' \in Seq(LintRecord) /\ InOrder(out') /\ outcome' \in {"scanning", "panic"}
          /\ \A l \in ToSet(out') : Passed(l) \/ (l.file = file /\ l.stmt < e)
          /\ \A l \in ToSet(out') : \A k \in DOMAIN queue : l.file < queue[k]
          /\ outcome' = "scanning" => ToSet(out') = Found \cup LintsAt(file, {e})
      BY <1>1, <1>7, <3>4, LintKeeps
    <3>8. ASSUME NEW l \in ToSet(out') PROVE Passed(l)'
      BY <1>1, <3>5, <3>7 DEF Passed
    <3> QED
      BY <3>6, <3>7, <3>8
  <2>4. CASE ch # ";"
    <3>1. UNCHANGED <<out, outcome>> /\ EndsRead' = EndsRead
      BY <1>2, <1>13, <2>4
    <3> HIDE DEF s, line, ch, opens
    <3>2. Found' = Found
      BY <2>1, <2>2, <3>1
    <3>3. ASSUME NEW l PROVE Passed(l)' <=> Passed(l)
      BY <1>1, <3>1 DEF Passed
    <3> QED
      BY <1>1, <3>1, <3>2, <3>3 DEF ScanInv, TypeOK, Ordered, AllRead, LintRecord
  <2> QED
    BY <2>3, <2>4
<1> HIDE DEF s, line, ch, opens
<1>15. TypeOK'
  BY <1>1, <1>8, <1>12, <1>14 DEF ScanInv, TypeOK, LintRecord
<1>16. Ordered'
  BY <1>1, <1>14 DEF ScanInv, Ordered, Increasing, InOrder, Precedes
<1>17. AllRead'
  BY <1>1, <1>8, <1>14 DEF ScanInv, AllRead
<1> QED
  BY <1>8, <1>11, <1>15, <1>16, <1>17 DEF ScanInv

(* The end of a file ends its last statement, and what the loop has read is *)
(* the file.                                                                *)
LEMMA EndOfFileKeeps ==
    ASSUME ScanInv, EndOfFile
    PROVE  ScanInv'
<1> DEFINE e == Len(Body) + 1
<1>1. /\ outcome = "scanning" /\ file # 0 /\ at > Len(text) /\ file' = 0
      /\ UNCHANGED <<dir, queue, text, at, start, line_at_start, current_line>>
  BY DEF EndOfFile, loopVars
<1>2. IF start # 0 THEN Lint(start, Len(text), line_at_start) ELSE UNCHANGED <<out, outcome>>
  BY DEF EndOfFile
<1>3. file \in SqlFiles /\ Body # Unreadable
  BY <1>1 DEF ScanInv, TypeOK, Reading
<1>4. Body \in Seq(Tokens) /\ Len(Body) \in Nat
  BY <1>3, BodyFacts DEF ScanInv, Body
<1>5. /\ text \in Ascending(Live(Body)) /\ at \in 1 .. Len(text) + 1
      /\ Begins(Body, text, at, start)
      /\ start # 0 => line_at_start = LineOf(Body, text[start])
  BY <1>1 DEF ScanInv, Reading, Loop
<1>6. /\ Len(text) \in Nat /\ Live(Body) = {text[i] : i \in 1 .. Len(text)}
      /\ \A i \in 1 .. Len(text) : text[i] \in 1 .. Len(Body) /\ text[i] \in Nat
  BY <1>4, <1>5, TextFacts
<1>7. at - 1 = Len(text) /\ at \in Nat
  BY <1>1, <1>5, <1>6
<1>8. SqlFiles' = SqlFiles /\ DirOK'
  BY <1>1 DEF SqlFiles, ScanInv, DirOK
<1>9. e \in Nat /\ Divides(text, at, e)
  BY <1>4, <1>6, <1>7 DEF Divides
<1> HIDE DEF e
<1>10. Linted(e)
  <2>1. CASE start # 0
    <3>1. Lint(start, at - 1, line_at_start)
      BY <1>2, <1>7, <2>1
    <3> QED
      BY <1>1, <1>5, <1>9, <2>1, <3>1, LintDoes DEF ScanInv
  <2>2. CASE start = 0
    <3>1. Unended(Body, text, at) = {}
      BY <1>5, <2>2 DEF Begins
    <3>2. StatementBefore(Body, e) = {}
      BY <1>4, <1>5, <1>9, <3>1, StatementIs
    <3>3. ~Missing(Body, StatementBefore(Body, e))
      BY <3>2 DEF Missing
    <3>4. LintsAt(file, {e}) = {}
      BY <3>3, LintsAtOne DEF Body
    <3>5. UNCHANGED <<out, outcome>>
      BY <1>2, <2>2
    <3> QED
      BY <3>4, <3>5 DEF Linted
  <2> QED
    BY <2>1, <2>2
<1>11. /\ out' \in Seq(LintRecord) /\ InOrder(out') /\ outcome' \in {"scanning", "panic"}
       /\ \A l \in ToSet(out') : \A k \in DOMAIN queue : l.file < queue[k]
       /\ outcome' = "scanning" => ToSet(out') = Found \cup LintsAt(file, {e})
  BY <1>1, <1>9, <1>10, LintKeeps
<1>12. Found' = Found \cup LintsAt(file, {e})
  <2>1. Ends(Body) = EndsRead \cup {e}
    <3>1. EndsRead = {k \in Live(Body) : Body[k] = ";"}
      BY <1>6, <1>7 DEF EndsRead
    <3> QED
      BY <3>1 DEF Ends, e
  <2>2. Lints(file) = LintsAt(file, EndsRead) \cup LintsAt(file, {e})
    <3>1. Lints(file) = LintsAt(file, EndsRead \cup {e})
      BY <2>1 DEF Lints, Body
    <3> QED
      BY <3>1, LintsAtUnion
  <2>3. file \notin Range(queue)
    <3>1. \A k \in DOMAIN queue : file < queue[k]
      BY <1>1 DEF ScanInv, Ordered
    <3>2. file \in Nat
      BY <1>3, SqlFilesFacts
    <3>3. \A k \in DOMAIN queue : queue[k] # file
      BY <3>1, <3>2
    <3> QED
      BY <3>3 DEF Range
  <2>4. SqlFiles \ (Range(queue) \cup {0}) =
           (SqlFiles \ (Range(queue) \cup {file})) \cup {file}
    BY <1>3, <2>3, SqlFilesFacts
  <2>5. UNION {Lints(p) : p \in SqlFiles \ (Range(queue) \cup {0})} =
           (UNION {Lints(p) : p \in SqlFiles \ (Range(queue) \cup {file})}) \cup Lints(file)
    BY <2>4
  <2>6. Found' = UNION {Lints(p) : p \in SqlFiles \ (Range(queue) \cup {0})}
    <3>1. \A p : Lints(p)' = Lints(p)
      BY <1>1, SameLints
    <3>2. UNION {Lints(p)' : p \in SqlFiles' \ (Range(queue') \cup {file'})}
             = UNION {Lints(p) : p \in SqlFiles \ (Range(queue) \cup {0})}
      BY <1>1, <1>8, <3>1, Zenon
    <3> QED
      BY <1>1, <3>2 DEF Found
  <2>7. Found = (UNION {Lints(p) : p \in SqlFiles \ (Range(queue) \cup {file})})
                \cup LintsAt(file, EndsRead)
    BY <1>1 DEF Found
  <2> QED
    BY <2>2, <2>5, <2>6, <2>7
<1>13. TypeOK'
  BY <1>1, <1>8, <1>11 DEF ScanInv, TypeOK, LintRecord
<1>14. Ordered' /\ Reading'
  BY <1>1, <1>11 DEF ScanInv, Ordered, Increasing, InOrder, Precedes, Passed, Reading
<1>15. AllRead'
  BY <1>1, <1>8, <1>11, <1>12 DEF ScanInv, AllRead
<1> QED
  BY <1>8, <1>13, <1>14, <1>15 DEF ScanInv

(* The file at the head of the queue is next.                               *)
LEMMA ReadFileKeeps ==
    ASSUME ScanInv, ReadFile
    PROVE  ScanInv'
<1> DEFINE h == Head(queue)
           q == Tail(queue)
<1>1. /\ queue \in Seq(SqlFiles) /\ queue # <<>> /\ Increasing(queue)
      /\ queue' = q /\ dir' = dir /\ out' = out /\ file = 0 /\ outcome = "scanning"
  BY DEF ScanInv, TypeOK, Ordered, ReadFile, loopVars
<1>2. SqlFiles' = SqlFiles /\ DirOK'
  BY <1>1 DEF SqlFiles, ScanInv, DirOK
<1>3. /\ Len(queue) \in Nat /\ Len(queue) > 0 /\ h = queue[1] /\ h \in SqlFiles
      /\ q \in Seq(SqlFiles) /\ DOMAIN q = 1 .. Len(queue) - 1
      /\ DOMAIN queue = 1 .. Len(queue)
  BY <1>1
<1>4. \A i \in DOMAIN q : q[i] = queue[i + 1] /\ i + 1 \in DOMAIN queue
  BY <1>1, <1>3
<1> HIDE DEF h, q
<1>5. Increasing(q)
  BY <1>1, <1>3, <1>4 DEF Increasing
<1>6. \A i \in DOMAIN q : h < q[i]
  BY <1>1, <1>3, <1>4 DEF Increasing
<1>7. Range(queue) = Range(q) \cup {h}
  <2>1. ASSUME NEW i \in DOMAIN queue PROVE queue[i] = h \/ queue[i] \in Range(q)
    <3>1. CASE i = 1
      BY <1>3, <3>1
    <3>2. CASE i # 1
      <4>1. i - 1 \in DOMAIN q /\ (i - 1) + 1 = i
        BY <1>3, <3>2
      <4> QED
        BY <1>4, <4>1 DEF Range
    <3> QED
      BY <3>1, <3>2
  <2>2. 1 \in DOMAIN queue
    BY <1>3
  <2> QED
    <3>1. Range(queue) \subseteq Range(q) \cup {h}
      BY <2>1 DEF Range
    <3>2. \A i \in DOMAIN q : q[i] \in Range(queue)
      BY <1>4 DEF Range
    <3>3. h \in Range(queue)
      BY <1>3, <2>2 DEF Range
    <3> QED
      BY <3>1, <3>2, <3>3 DEF Range
<1>8. \A l \in ToSet(out) : l.file < h /\ \A k \in DOMAIN q : l.file < q[k]
  <2>1. 1 \in DOMAIN queue
    BY <1>3
  <2> QED
    BY <1>3, <1>4, <2>1 DEF ScanInv, Ordered, Passed
<1>9. InOrder(out) /\ out \in Seq(LintRecord)
  BY DEF ScanInv, Ordered, TypeOK, LintRecord
<1>10. CASE dir[h].body = Unreadable
  <2>1. outcome' = "error" /\ UNCHANGED <<file, loopVars, out>>
    BY <1>10 DEF ReadFile, h
  <2>2. TypeOK'
    BY <1>1, <1>2, <1>3, <2>1 DEF ScanInv, TypeOK, loopVars
  <2>3. Ordered' /\ Reading'
    BY <1>1, <1>5, <1>8, <1>9, <2>1 DEF Ordered, Increasing, InOrder, Precedes, Passed, Reading
  <2>4. AllRead'
    BY <2>1 DEF AllRead
  <2> QED
    BY <1>2, <2>2, <2>3, <2>4 DEF ScanInv
<1>11. CASE dir[h].body # Unreadable
  <2> DEFINE b == dir[h].body
  <2>1. /\ file' = h /\ text' \in Ascending(strip_sql_comments(b))
        /\ at' = 1 /\ start' = 0 /\ line_at_start' = 1 /\ current_line' = 1
        /\ UNCHANGED <<out, outcome>>
    BY <1>11 DEF ReadFile, h
  <2>2. b \in Seq(Tokens) /\ Len(b) <= MaxTokens /\ Len(b) \in Nat
    BY <1>3, <1>11, BodyFacts DEF ScanInv
  <2>3. Body' = b
    BY <1>1, <2>1 DEF Body
  <2> HIDE DEF b
  <2>4. text' \in Ascending(Live(b))
    BY <2>1, <2>2, StripLeavesLive
  <2>5. Loop(b, text', 1, 0, 1, 1)
    BY <2>2, <2>4, LoopStart
  <2>6. Reading'
    BY <1>11, <2>1, <2>3, <2>5 DEF Reading, b
  <2>7. TypeOK'
    <3>1. text' \in Seq(1 .. Len(b)) /\ Len(text') \in Nat
      BY <2>2, <2>4, TextFacts
    <3>2. 1 .. Len(b) \subseteq 1 .. MaxTokens /\ MaxTokens \in Nat
      BY <2>2, ScanAssumption
    <3>3. text' \in Seq(1 .. MaxTokens)
      BY <3>1, <3>2, SeqMonotonic
    <3>4. /\ at' \in 1 .. Len(text') + 1 /\ start' \in 0 .. Len(text')
          /\ {line_at_start', current_line'} \subseteq 1 .. MaxTokens + 1
      BY <2>1, <3>1, <3>2
    <3> QED
      BY <1>1, <1>2, <1>3, <1>9, <2>1, <3>3, <3>4 DEF TypeOK, LintRecord
  <2>8. Ordered'
    BY <1>1, <1>5, <1>6, <1>8, <1>9, <2>1 DEF Ordered, Increasing, InOrder, Precedes, Passed
  <2>9. AllRead'
    <3>1. EndsRead' = {}
      BY <2>1 DEF EndsRead
    <3>2. SqlFiles \ (Range(q) \cup {h}) = SqlFiles \ (Range(queue) \cup {0})
      BY <1>7, SqlFilesFacts
    <3>3. \A p : Lints(p)' = Lints(p)
      BY <1>1, SameLints
    <3>4. UNION {Lints(p)' : p \in SqlFiles' \ (Range(queue') \cup {file'})}
             = UNION {Lints(p) : p \in SqlFiles \ (Range(queue) \cup {0})}
      BY <1>1, <1>2, <2>1, <3>2, <3>3, Zenon
    <3>5. LintsAt(file, EndsRead)' = {}
      BY <3>1 DEF LintsAt
    <3>6. Found' = UNION {Lints(p) : p \in SqlFiles \ (Range(queue) \cup {0})}
      BY <3>4, <3>5 DEF Found
    <3>7. Found = UNION {Lints(p) : p \in SqlFiles \ (Range(queue) \cup {0})}
      BY <1>1 DEF Found
    <3>8. \A p \in SqlFiles : dir[p].body # Unreadable \/ p \in Range(q)
      BY <1>1, <1>7, <1>11 DEF ScanInv, AllRead
    <3>9. ToSet(out) = Found
      BY <1>1 DEF ScanInv, AllRead
    <3> QED
      BY <1>1, <1>2, <2>1, <3>6, <3>7, <3>8, <3>9 DEF AllRead
  <2> QED
    BY <1>2, <2>6, <2>7, <2>8, <2>9 DEF ScanInv
<1> QED
  BY <1>10, <1>11

(* The directory of a scan is short enough, and its listing is sorted and   *)
(* complete.                                                                *)
LEMMA ScanInit == Init => ScanInv
<1> SUFFICES ASSUME Init PROVE ScanInv
  OBVIOUS
<1>1. /\ scan_migrations /\ file = 0 /\ text = <<>> /\ at = 1 /\ start = 0
      /\ line_at_start = 1 /\ current_line = 1 /\ out = <<>> /\ outcome = "scanning"
  BY DEF Init
<1>2. PICK n \in 0 .. MaxTokens :
         \E cut \in Cuts(n), tokens \in [1 .. n -> Tokens],
            sql, readable \in [1 .. Paths -> BOOLEAN] :
            dir = [p \in 1 .. Paths |->
               [sql |-> sql[p],
                body |-> IF readable[p] THEN SubSeq(tokens, cut[p - 1] + 1, cut[p])
                         ELSE Unreadable]]
  BY DEF Init
<1>3. PICK cut \in Cuts(n), tokens \in [1 .. n -> Tokens],
           sql \in [1 .. Paths -> BOOLEAN], readable \in [1 .. Paths -> BOOLEAN] :
         dir = [p \in 1 .. Paths |->
            [sql |-> sql[p],
             body |-> IF readable[p] THEN SubSeq(tokens, cut[p - 1] + 1, cut[p])
                      ELSE Unreadable]]
  BY <1>2
<1>4. DirOK
  <2>1. ASSUME NEW p \in 1 .. Paths
        PROVE  LET b == SubSeq(tokens, cut[p - 1] + 1, cut[p])
               IN  b \in Seq(Tokens) /\ Len(b) <= MaxTokens
    <3> DEFINE m == cut[p - 1]
               k == cut[p]
    <3>1. cut \in [0 .. Paths -> 0 .. n] /\ p - 1 \in 0 .. Paths /\ p \in 0 .. Paths
      BY ScanAssumption DEF Cuts
    <3>2. m \in 0 .. n /\ k \in 0 .. n
      BY <3>1
    <3>3. n \in Nat /\ n <= MaxTokens /\ MaxTokens \in Nat
      BY ScanAssumption
    <3> HIDE DEF m, k
    <3>4. m + 1 \in Int /\ k \in Int /\ \A i \in m + 1 .. k : i \in 1 .. n
      BY <3>2, <3>3
    <3>5. \A i \in m + 1 .. k : tokens[i] \in Tokens
      BY <3>4
    <3>6. /\ SubSeq(tokens, m + 1, k) \in Seq(Tokens)
          /\ Len(SubSeq(tokens, m + 1, k)) = IF m + 1 <= k THEN k - (m + 1) + 1 ELSE 0
      BY <3>4, <3>5, SubSeqProperties
    <3>7. Len(SubSeq(tokens, m + 1, k)) <= MaxTokens
      BY <3>2, <3>3, <3>6
    <3> QED
      BY <3>6, <3>7 DEF m, k
  <2>2. ASSUME NEW p \in 1 .. Paths
        PROVE  /\ dir[p] \in [sql : BOOLEAN, body : Seq(Tokens) \cup {Unreadable}]
               /\ dir[p].body # Unreadable => Len(dir[p].body) <= MaxTokens
    <3> DEFINE b == SubSeq(tokens, cut[p - 1] + 1, cut[p])
    <3>1. b \in Seq(Tokens) /\ Len(b) <= MaxTokens
      BY <2>1
    <3>2. dir[p] = [sql |-> sql[p], body |-> IF readable[p] THEN b ELSE Unreadable]
      BY <1>3
    <3> HIDE DEF b
    <3> QED
      BY <3>1, <3>2
  <2>3. dir \in [1 .. Paths -> [sql : BOOLEAN, body : Seq(Tokens) \cup {Unreadable}]]
    <3>1. DOMAIN dir = 1 .. Paths /\ dir = [p \in 1 .. Paths |-> dir[p]]
      BY <1>3
    <3> QED
      BY <2>2, <3>1
  <2> QED
    BY <2>2, <2>3 DEF DirOK
<1>5. /\ queue \in Seq(SqlFiles) /\ Increasing(queue) /\ Range(queue) = SqlFiles
  <2>1. /\ queue \in [1 .. Cardinality(SqlFiles) -> SqlFiles]
        /\ Range(queue) = SqlFiles /\ Increasing(queue)
    BY <1>1 DEF scan_migrations, Ascending, Increasing
  <2>2. Cardinality(SqlFiles) \in Nat
    BY SqlFilesFacts, FS_CardinalityType
  <2> QED
    BY <2>1, <2>2
<1>6. TypeOK
  BY <1>1, <1>5, ScanAssumption DEF TypeOK
<1>7. DOMAIN out = {} /\ ToSet(out) = {}
  BY <1>1 DEF ToSet
<1>8. Ordered /\ Reading
  BY <1>1, <1>5, <1>7 DEF Ordered, Reading, InOrder
<1>9. AllRead
  <2>1. SqlFiles \ (Range(queue) \cup {file}) = {}
    BY <1>5
  <2>2. Found = {}
    BY <1>1, <2>1 DEF Found
  <2> QED
    BY <1>1, <1>5, <1>7, <2>2 DEF AllRead
<1> QED
  BY <1>4, <1>6, <1>8, <1>9 DEF ScanInv

(* The loop of split_statements is in place at every character, what the    *)
(* lints are is what the definition gives for the statements that ended,    *)
(* and every file is read or waiting.                                       *)
THEOREM ScanInvariance == Spec => []ScanInv
<1>1. ScanInv /\ [Next]_vars => ScanInv'
  <2> SUFFICES ASSUME ScanInv, [Next]_vars PROVE ScanInv'
    OBVIOUS
  <2>1. CASE Return \/ UNCHANGED vars
    <3>1. UNCHANGED <<dir, queue, file, text, at, start, line_at_start, current_line, out>>
      BY <2>1 DEF Return, vars, loopVars
    <3>2. \/ UNCHANGED outcome
          \/ outcome = "scanning" /\ outcome' = "ok" /\ queue = <<>> /\ file = 0
      BY <2>1 DEF Return, vars
    <3>3. SqlFiles' = SqlFiles /\ \A p : Lints(p)' = Lints(p)
      BY <3>1, SameLints DEF SqlFiles
    <3>4. Found' = Found
      <4>1. UNION {Lints(p)' : p \in SqlFiles' \ (Range(queue') \cup {file'})}
               = UNION {Lints(p) : p \in SqlFiles \ (Range(queue) \cup {file})}
        BY <3>1, <3>3, Zenon
      <4>2. EndsRead' = EndsRead
        BY <3>1 DEF EndsRead, Body
      <4>3. LintsAt(file, EndsRead)' = LintsAt(file, EndsRead)
        BY <3>1, <4>2, SameLints
      <4> QED
        BY <3>1, <4>1, <4>3, Zenon DEF Found
    <3>5. TypeOK'
      BY <3>1, <3>3, <3>2 DEF ScanInv, TypeOK
    <3>6. DirOK' /\ Reading'
      BY <3>1 DEF ScanInv, DirOK, Reading, Body
    <3>7. Ordered'
      <4>1. EndsRead' = EndsRead
        BY <3>1 DEF EndsRead, Body
      <4> QED
        BY <3>1, <4>1 DEF ScanInv, Ordered, Increasing, InOrder, Precedes, Passed
    <3>8. AllRead'
      BY <3>1, <3>3, <3>4, <3>2 DEF ScanInv, AllRead
    <3> QED
      BY <3>5, <3>6, <3>7, <3>8 DEF ScanInv
  <2> QED
    BY <2>1, ReadFileKeeps, CharacterKeeps, EndOfFileKeeps DEF Next, Returned
<1> QED
  BY <1>1, ScanInit, PTL DEF Spec

(* The variables of the scan and its lints stay in their types, whatever    *)
(* the files hold: no line or position is beyond the file.                  *)
THEOREM ScanTypeOKAlways == Spec => []TypeOK
<1>1. ScanInv => TypeOK
  BY DEF ScanInv
<1> QED
  BY <1>1, ScanInvariance, PTL

(* Lints in order are different lints.                                      *)
LEMMA InOrderCount ==
    ASSUME NEW s \in Seq(LintRecord), InOrder(s)
    PROVE  Len(s) = Cardinality(ToSet(s))
<1>1. Len(s) \in Nat /\ DOMAIN s = 1 .. Len(s)
  OBVIOUS
<1>2. ASSUME NEW i \in 1 .. Len(s), NEW j \in 1 .. Len(s), i < j PROVE s[i] # s[j]
  <2>1. Precedes(s[i], s[j])
    BY <1>1, <1>2 DEF InOrder
  <2>2. s[i] \in LintRecord
    BY <1>1, ElementOfSeq
  <2>3. s[i].file \in Nat /\ s[i].stmt \in Nat
    <3>1. s[i].file \in SqlFiles /\ s[i].stmt \in 1 .. MaxTokens
      BY <2>2 DEF LintRecord
    <3>2. s[i].stmt \in Nat
      BY <3>1, ScanAssumption
    <3> QED
      BY <3>1, <3>2, SqlFilesFacts
  <2> QED
    BY <2>1, <2>3 DEF Precedes
<1>3. \A i, j \in 1 .. Len(s) : s[i] = s[j] => i = j
  <2> SUFFICES ASSUME NEW i \in 1 .. Len(s), NEW j \in 1 .. Len(s), s[i] = s[j]
               PROVE  i = j
    OBVIOUS
  <2>1. i < j \/ i = j \/ j < i
    BY <1>1
  <2> QED
    BY <1>2, <2>1
<1>4. /\ s \in [1 .. Len(s) -> ToSet(s)]
      /\ \A l \in ToSet(s) : \E i \in 1 .. Len(s) : s[i] = l
  BY <1>1 DEF ToSet
<1>5. s \in Bijection(1 .. Len(s), ToSet(s))
  BY <1>3, <1>4, Fun_IsBij
<1>6. ExistsBijection(1 .. Len(s), ToSet(s))
  BY <1>5 DEF ExistsBijection
<1> QED
  BY <1>1, <1>6, FS_CountingElements

(* audit.rs:476-481: a scan that returns has found every CREATE POLICY      *)
(* statement that targets a write and has no WITH CHECK, once, at the line  *)
(* where it begins, and nothing else.                                       *)
THEOREM LintsAreExactAlways == Spec => []LintsAreExact
<1>1. ScanInv => LintsAreExact
  <2> SUFFICES ASSUME ScanInv, outcome = "ok"
               PROVE  /\ ToSet(out) = UNION {Lints(p) : p \in SqlFiles}
                      /\ Len(out) = Cardinality(ToSet(out))
    BY DEF LintsAreExact
  <2>1. queue = <<>> /\ file = 0 /\ ToSet(out) = Found
    BY DEF ScanInv, AllRead
  <2>2. SqlFiles \ (Range(queue) \cup {file}) = SqlFiles
    BY <2>1, SqlFilesFacts DEF Range
  <2>3. Found = UNION {Lints(p) : p \in SqlFiles}
    BY <2>1, <2>2 DEF Found
  <2>4. out \in Seq(LintRecord) /\ InOrder(out)
    BY DEF ScanInv, TypeOK, Ordered, LintRecord
  <2> QED
    BY <2>1, <2>3, <2>4, InOrderCount
<1> QED
  BY <1>1, ScanInvariance, PTL

(* audit.rs:504-523: the scan returns lints only when it has read every     *)
(* .sql file, and lists them in the order of the paths and, in a file, of   *)
(* the statements.                                                          *)
THEOREM OkMeansAllReadAlways == Spec => []OkMeansAllRead
<1>1. ScanInv => OkMeansAllRead
  BY DEF ScanInv, Ordered, AllRead, OkMeansAllRead, InOrder, Precedes, Range
<1> QED
  BY <1>1, ScanInvariance, PTL

(* audit.rs:514-527, 589: the listing and the text of a file are never      *)
(* missing and never a choice: there is one sequence of the .sql files, and *)
(* one of what is left of the next file.                                    *)
OneText ==
    /\ \E q : Ascending(SqlFiles) = {q}
    /\ queue # <<>> /\ dir[Head(queue)].body # Unreadable =>
          \E q : Ascending(strip_sql_comments(dir[Head(queue)].body)) = {q}

(* The steps that list the directory or strip a file take the one value     *)
(* that there is, and are never held up for want of one.                    *)
THEOREM OneTextAlways == Spec => []OneText
<1>1. ASSUME NEW n \in Nat, NEW S \in SUBSET (1 .. n) PROVE \E q : Ascending(S) = {q}
  <2>1. PICK q : q \in Ascending(S)
    BY ListingExists
  <2>2. IsFiniteSet(1 .. n)
    BY FS_Interval
  <2>3. IsFiniteSet(S)
    BY <2>2, FS_Subset
  <2>4. S \in SUBSET Nat
    OBVIOUS
  <2> QED
    BY <2>1, <2>3, <2>4, ListingUnique
<1>2. ScanInv => OneText
  <2> SUFFICES ASSUME ScanInv PROVE OneText
    OBVIOUS
  <2>1. \E q : Ascending(SqlFiles) = {q}
    BY <1>1, SqlFilesFacts, ScanAssumption
  <2>2. ASSUME queue # <<>>, dir[Head(queue)].body # Unreadable
        PROVE  \E q : Ascending(strip_sql_comments(dir[Head(queue)].body)) = {q}
    <3> DEFINE b == dir[Head(queue)].body
    <3>1. Head(queue) \in SqlFiles
      BY <2>2 DEF ScanInv, TypeOK
    <3>2. b \in Seq(Tokens)
      BY <2>2, <3>1, BodyFacts DEF ScanInv
    <3>3. Len(b) \in Nat /\ Live(b) \in SUBSET (1 .. Len(b))
      BY <3>2, LiveFacts
    <3> QED
      BY <1>1, <3>2, <3>3, StripLeavesLive
  <2> QED
    BY <2>1, <2>2 DEF OneText
<1> QED
  BY <1>2, ScanInvariance, PTL
==============================================================================
