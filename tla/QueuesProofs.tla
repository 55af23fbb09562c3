---------------------------- MODULE QueuesProofs ----------------------------
(***************************************************************************)
(* Facts about the operators of Queues.                                    *)
(***************************************************************************)
EXTENDS Queues, TLAPS

(* Members of a line over S are in S; only the empty line has none. *)
LEMMA ElemsType ==
  ASSUME NEW S, NEW s \in Seq(S)
  PROVE  /\ Elems(s) \subseteq S
         /\ s = <<>> <=> Elems(s) = {}
         /\ s # <<>> => Head(s) \in Elems(s)
BY DEF Elems

(* Somebody who joins a line without being in it is in it once. *)
LEMMA JoinLine ==
  ASSUME NEW S, NEW s \in Seq(S), NEW x \in S
  PROVE  /\ Append(s, x) \in Seq(S)
         /\ Elems(Append(s, x)) = Elems(s) \cup {x}
         /\ Once(s) /\ x \notin Elems(s) => Once(Append(s, x))
<1>1. Elems(Append(s, x)) = Elems(s) \cup {x}
  <2>1. DOMAIN Append(s, x) = 1 .. Len(s) + 1 /\ DOMAIN s = 1 .. Len(s)
    OBVIOUS
  <2>2. \A i \in 1 .. Len(s) : Append(s, x)[i] = s[i]
    OBVIOUS
  <2>3. Append(s, x)[Len(s) + 1] = x
    OBVIOUS
  <2>4. 1 .. Len(s) + 1 = (1 .. Len(s)) \cup {Len(s) + 1}
    OBVIOUS
  <2> QED BY <2>1, <2>2, <2>3, <2>4 DEF Elems
<1>2. ASSUME Once(s), x \notin Elems(s) PROVE Once(Append(s, x))
  <2> SUFFICES ASSUME NEW i \in 1 .. Len(s) + 1, NEW j \in 1 .. Len(s) + 1,
                      Append(s, x)[i] = Append(s, x)[j]
               PROVE  i = j
    BY DEF Once
  <2>1. CASE i \in 1 .. Len(s) /\ j \in 1 .. Len(s)
    BY <1>2, <2>1 DEF Once
  <2>2. CASE i = Len(s) + 1 /\ j \in 1 .. Len(s)
    BY <1>2, <2>2 DEF Elems
  <2>3. CASE j = Len(s) + 1 /\ i \in 1 .. Len(s)
    BY <1>2, <2>3 DEF Elems
  <2> QED BY <2>1, <2>2, <2>3
<1> QED BY <1>1, <1>2

(* Whoever leaves the head of a line is no longer in it. *)
LEMMA LeaveLine ==
  ASSUME NEW S, NEW s \in Seq(S), s # <<>>
  PROVE  /\ Tail(s) \in Seq(S)
         /\ Head(s) \in S
         /\ Elems(s) = Elems(Tail(s)) \cup {Head(s)}
         /\ Once(s) => Once(Tail(s)) /\ Elems(Tail(s)) = Elems(s) \ {Head(s)}
<1>1. DOMAIN Tail(s) = 1 .. Len(s) - 1 /\ DOMAIN s = 1 .. Len(s) /\ Len(s) \in Nat \ {0}
  OBVIOUS
<1>2. \A i \in 1 .. Len(s) - 1 : Tail(s)[i] = s[i + 1]
  OBVIOUS
<1>3. Elems(s) = Elems(Tail(s)) \cup {Head(s)}
  <2>1. \A x \in Elems(s) : x = Head(s) \/ x \in Elems(Tail(s))
    <3> SUFFICES ASSUME NEW i \in 1 .. Len(s), i # 1 PROVE s[i] \in Elems(Tail(s))
      BY <1>1 DEF Elems
    <3>1. i - 1 \in 1 .. Len(s) - 1 /\ Tail(s)[i - 1] = s[i]
      BY <1>1, <1>2
    <3> QED BY <3>1, <1>1 DEF Elems
  <2>2. \A x \in Elems(Tail(s)) : x \in Elems(s)
    BY <1>1, <1>2 DEF Elems
  <2>3. Head(s) \in Elems(s)
    BY ElemsType
  <2> QED BY <2>1, <2>2, <2>3
<1>4. ASSUME Once(s) PROVE Once(Tail(s)) /\ Head(s) \notin Elems(Tail(s))
  <2>1. Once(Tail(s))
    <3> SUFFICES ASSUME NEW i \in 1 .. Len(s) - 1, NEW j \in 1 .. Len(s) - 1,
                        Tail(s)[i] = Tail(s)[j]
                 PROVE  i = j
      BY <1>1 DEF Once
    <3>1. s[i + 1] = s[j + 1] /\ i + 1 \in 1 .. Len(s) /\ j + 1 \in 1 .. Len(s)
      BY <1>1, <1>2
    <3> QED BY <3>1, <1>1, <1>4 DEF Once
  <2>2. \A i \in 1 .. Len(s) - 1 : Tail(s)[i] # s[1]
    <3> SUFFICES ASSUME NEW i \in 1 .. Len(s) - 1, Tail(s)[i] = s[1] PROVE FALSE
      OBVIOUS
    <3>1. s[i + 1] = s[1] /\ i + 1 \in 1 .. Len(s) /\ 1 \in 1 .. Len(s)
      BY <1>1, <1>2
    <3> QED BY <3>1, <1>1, <1>4 DEF Once
  <2> QED BY <2>1, <2>2, <1>1 DEF Elems
<1>5. Tail(s) \in Seq(S) /\ Head(s) \in S
  OBVIOUS
<1> QED BY <1>3, <1>4, <1>5

(* The first of line w moves to the end of line r. *)
LEMMA MoveFirst ==
  ASSUME NEW S, NEW r \in Seq(S), NEW w \in Seq(S)
  PROVE  /\ r \o First(w) \in Seq(S)
         /\ Rest(w) \in Seq(S)
         /\ w = <<>> => r \o First(w) = r /\ Rest(w) = w
         /\ w # <<>> => /\ Rest(w) = Tail(w)
                        /\ r \o First(w) = Append(r, Head(w))
<1>1. CASE w = <<>>
  BY <1>1 DEF First, Rest
<1>2. CASE w # <<>>
  <2>1. Head(w) \in S /\ Tail(w) \in Seq(S)
    BY <1>2, LeaveLine
  <2>2. r \o <<Head(w)>> = Append(r, Head(w))
    BY <2>1
  <2> QED BY <1>2, <2>1, <2>2 DEF First, Rest
<1> QED BY <1>1, <1>2

(* Whoever leaves a line from any place is no longer in it. *)
LEMMA LeaveAnywhere ==
  ASSUME NEW S, NEW s \in Seq(S), Once(s), NEW x \in Elems(s)
  PROVE  /\ Without(s, x) \in Seq(S)
         /\ Once(Without(s, x))
         /\ Elems(Without(s, x)) = Elems(s) \ {x}
<1> DEFINE i == CHOOSE j \in DOMAIN s : s[j] = x
           n == Len(s)
           u == Without(s, x)
<1>1. i \in 1 .. n /\ s[i] = x /\ n \in Nat /\ DOMAIN s = 1 .. n
  BY DEF Elems
<1>2. u = [j \in 1 .. n - 1 |-> IF j < i THEN s[j] ELSE s[j + 1]]
  BY DEF Without
<1> HIDE DEF i, n, u
<1>3. n - 1 \in Nat /\ \A j \in 1 .. n - 1 : j \in 1 .. n /\ j + 1 \in 1 .. n
  BY <1>1
<1>4. \A j \in 1 .. n : s[j] \in S
  BY <1>1
<1>5. u \in [1 .. n - 1 -> S]
  BY <1>2, <1>3, <1>4
<1>6. u \in Seq(S)
  BY <1>3, <1>5
<1>7. \A j, k \in 1 .. n : s[j] = s[k] => j = k
  BY <1>1 DEF Once
<1>8. \A j, k \in 1 .. n - 1 : u[j] = u[k] => j = k
  <2> SUFFICES ASSUME NEW j \in 1 .. n - 1, NEW k \in 1 .. n - 1, u[j] = u[k]
               PROVE  j = k
    OBVIOUS
  <2> DEFINE J == IF j < i THEN j ELSE j + 1
             K == IF k < i THEN k ELSE k + 1
  <2>1. u[j] = s[J] /\ u[k] = s[K] /\ J \in 1 .. n /\ K \in 1 .. n
    BY <1>2, <1>3
  <2>2. J = K
    BY <2>1, <1>7
  <2> QED BY <2>2, <1>1, <1>3
<1>9. \A j \in 1 .. n - 1 : u[j] \in Elems(s) \ {x}
  <2> SUFFICES ASSUME NEW j \in 1 .. n - 1 PROVE u[j] \in Elems(s) \ {x}
    OBVIOUS
  <2> DEFINE J == IF j < i THEN j ELSE j + 1
  <2>1. u[j] = s[J] /\ J \in 1 .. n /\ J # i
    BY <1>1, <1>2, <1>3
  <2>2. s[J] # x
    BY <2>1, <1>1, <1>7
  <2> QED BY <2>1, <2>2, <1>1 DEF Elems
<1>10. ASSUME NEW y \in Elems(s), y # x PROVE \E j \in 1 .. n - 1 : u[j] = y
  <2>1. PICK k \in 1 .. n : s[k] = y
    BY <1>1 DEF Elems
  <2>2. k # i
    BY <2>1, <1>10, <1>1
  <2>3. CASE k < i
    <3>1. k \in 1 .. n - 1 /\ u[k] = s[k]
      BY <2>3, <1>1, <1>2
    <3> QED BY <3>1, <2>1
  <2>4. CASE k > i
    <3>1. k - 1 \in 1 .. n - 1 /\ ~(k - 1 < i) /\ (k - 1) + 1 = k
      BY <2>4, <1>1
    <3>2. u[k - 1] = s[k]
      BY <3>1, <1>2
    <3> QED BY <3>1, <3>2, <2>1
  <2> QED BY <2>2, <2>3, <2>4, <1>1
<1>11. DOMAIN u = 1 .. n - 1
  BY <1>2
<1>12. Once(u)
  BY <1>8, <1>11 DEF Once
<1>13. Elems(u) = Elems(s) \ {x}
  BY <1>9, <1>10, <1>11 DEF Elems
<1> QED BY <1>6, <1>12, <1>13 DEF u

(* A second line without common members is put behind a first one. *)
LEMMA JoinAll ==
  ASSUME NEW S, NEW s \in Seq(S), NEW t \in Seq(S), Once(s), Once(t),
         Elems(s) \cap Elems(t) = {}
  PROVE  /\ s \o t \in Seq(S)
         /\ Once(s \o t)
         /\ Elems(s \o t) = Elems(s) \cup Elems(t)
<1> DEFINE m == Len(s)
           n == Len(t)
           u == s \o t
<1>1. /\ m \in Nat /\ n \in Nat /\ u \in Seq(S)
      /\ DOMAIN s = 1 .. m /\ DOMAIN t = 1 .. n /\ DOMAIN u = 1 .. m + n
  OBVIOUS
<1>2. /\ \A i \in 1 .. m : u[i] = s[i] /\ i \in 1 .. m + n
      /\ \A i \in 1 .. n : u[m + i] = t[i] /\ m + i \in 1 .. m + n
  OBVIOUS
<1>3. \A i \in 1 .. m + n : i \in 1 .. m \/ i - m \in 1 .. n
  BY <1>1
<1>4. \A i \in 1 .. m + n : i \notin 1 .. m => u[i] = t[i - m] /\ i - m \in 1 .. n
  BY <1>1
<1> HIDE DEF m, n, u
<1>5. Elems(u) = Elems(s) \cup Elems(t)
  <2>1. \A i \in 1 .. m + n : u[i] \in Elems(s) \cup Elems(t)
    BY <1>1, <1>2, <1>4 DEF Elems
  <2>2. \A x \in Elems(s) : x \in Elems(u)
    BY <1>1, <1>2 DEF Elems
  <2>3. \A x \in Elems(t) : x \in Elems(u)
    BY <1>1, <1>2 DEF Elems
  <2> QED BY <2>1, <2>2, <2>3, <1>1 DEF Elems
<1>6. Once(u)
  <2> SUFFICES ASSUME NEW i \in 1 .. m + n, NEW j \in 1 .. m + n, u[i] = u[j]
               PROVE  i = j
    BY <1>1 DEF Once
  <2>1. CASE i \in 1 .. m /\ j \in 1 .. m
    BY <2>1, <1>1, <1>2 DEF Once
  <2>2. CASE i \notin 1 .. m /\ j \notin 1 .. m
    <3>1. i - m = j - m
      BY <2>2, <1>1, <1>4 DEF Once
    <3> QED BY <3>1, <1>1
  <2>3. CASE i \in 1 .. m /\ j \notin 1 .. m
    BY <2>3, <1>1, <1>2, <1>4 DEF Elems
  <2>4. CASE i \notin 1 .. m /\ j \in 1 .. m
    BY <2>4, <1>1, <1>2, <1>4 DEF Elems
  <2> QED BY <2>1, <2>2, <2>3, <2>4
<1> QED BY <1>1, <1>5, <1>6 DEF u

(* Who is ahead of whom when somebody joins a line: the order of those in   *)
(* it stays, and all of them are ahead of the newcomer.                     *)
LEMMA BeforeJoin ==
  ASSUME NEW S, NEW s \in Seq(S), NEW x \in S
  PROVE  \A a, b : Before(Append(s, x), a, b) <=>
                     Before(s, a, b) \/ (b = x /\ a \in Elems(s))
<1> DEFINE n == Len(s)
           u == Append(s, x)
<1>1. /\ n \in Nat /\ DOMAIN s = 1 .. n /\ DOMAIN u = 1 .. n + 1
      /\ \A i \in 1 .. n : u[i] = s[i]
      /\ u[n + 1] = x
  OBVIOUS
<1>2. \A i \in 1 .. n + 1 : i \in 1 .. n \/ i = n + 1
  BY <1>1
<1> HIDE DEF n, u
<1>3. ASSUME NEW a, NEW b, Before(u, a, b)
      PROVE  Before(s, a, b) \/ (b = x /\ a \in Elems(s))
  <2>1. PICK i, j \in 1 .. n + 1 : i < j /\ u[i] = a /\ u[j] = b
    BY <1>1, <1>3 DEF Before
  <2>2. i \in 1 .. n
    BY <1>1, <2>1
  <2>3. CASE j \in 1 .. n
    BY <1>1, <2>1, <2>2, <2>3 DEF Before
  <2>4. CASE j = n + 1
    BY <1>1, <2>1, <2>2, <2>4 DEF Elems
  <2> QED BY <1>2, <2>3, <2>4
<1>4. ASSUME NEW a, NEW b, Before(s, a, b) PROVE Before(u, a, b)
  <2>1. PICK i, j \in 1 .. n : i < j /\ s[i] = a /\ s[j] = b
    BY <1>1, <1>4 DEF Before
  <2>2. i \in 1 .. n + 1 /\ j \in 1 .. n + 1 /\ u[i] = a /\ u[j] = b
    BY <1>1, <2>1
  <2> QED BY <1>1, <2>1, <2>2 DEF Before
<1>5. ASSUME NEW a \in Elems(s) PROVE Before(u, a, x)
  <2>1. PICK i \in 1 .. n : s[i] = a
    BY <1>1 DEF Elems
  <2>2. i \in 1 .. n + 1 /\ n + 1 \in 1 .. n + 1 /\ i < n + 1 /\ u[i] = a
    BY <1>1, <2>1
  <2> QED BY <1>1, <2>2 DEF Before
<1> QED BY <1>3, <1>4, <1>5 DEF u

(* The same for a line that is put behind another. *)
LEMMA BeforeJoinAll ==
  ASSUME NEW S, NEW s \in Seq(S), NEW t \in Seq(S)
  PROVE  /\ \A a, b : Before(s, a, b) => Before(s \o t, a, b)
         /\ \A a \in Elems(s), b \in Elems(t) : Before(s \o t, a, b)
<1> DEFINE m == Len(s)
           n == Len(t)
           u == s \o t
<1>1. /\ m \in Nat /\ n \in Nat
      /\ DOMAIN s = 1 .. m /\ DOMAIN t = 1 .. n /\ DOMAIN u = 1 .. m + n
      /\ \A i \in 1 .. m : u[i] = s[i]
      /\ \A i \in 1 .. n : u[m + i] = t[i]
  OBVIOUS
<1>2. /\ \A i \in 1 .. m : i \in 1 .. m + n
      /\ \A i \in 1 .. n : m + i \in 1 .. m + n
      /\ \A i \in 1 .. m, j \in 1 .. n : i < m + j
  BY <1>1
<1> HIDE DEF m, n, u
<1>3. ASSUME NEW a, NEW b, Before(s, a, b) PROVE Before(u, a, b)
  BY <1>1, <1>2, <1>3 DEF Before
<1>4. ASSUME NEW a \in Elems(s), NEW b \in Elems(t) PROVE Before(u, a, b)
  <2>1. PICK i \in 1 .. m : s[i] = a
    BY <1>1 DEF Elems
  <2>2. PICK j \in 1 .. n : t[j] = b
    BY <1>1 DEF Elems
  <2> QED BY <1>1, <1>2, <2>1, <2>2 DEF Before
<1> QED BY <1>3, <1>4 DEF u

(* Nobody is ahead of the head of a line, and the others keep their order   *)
(* when it leaves.                                                          *)
LEMMA BeforeLeave ==
  ASSUME NEW S, NEW s \in Seq(S), s # <<>>
  PROVE  /\ \A a, b : Before(s, a, b) /\ a # Head(s) => Before(Tail(s), a, b)
         /\ \A a, b : Before(Tail(s), a, b) => Before(s, a, b)
         /\ Once(s) => \A a : ~Before(s, a, Head(s))
<1>1. /\ DOMAIN Tail(s) = 1 .. Len(s) - 1 /\ DOMAIN s = 1 .. Len(s) /\ Len(s) \in Nat \ {0}
      /\ s[1] = Head(s)
  OBVIOUS
<1>2. \A i \in 1 .. Len(s) - 1 : Tail(s)[i] = s[i + 1]
  OBVIOUS
<1>3. ASSUME NEW a, NEW b, Before(s, a, b), a # Head(s) PROVE Before(Tail(s), a, b)
  <2>1. PICK i, j \in 1 .. Len(s) : i < j /\ s[i] = a /\ s[j] = b
    BY <1>1, <1>3 DEF Before
  <2>2. i # 1
    BY <1>1, <1>3, <2>1
  <2>3. /\ i - 1 \in 1 .. Len(s) - 1 /\ j - 1 \in 1 .. Len(s) - 1 /\ i - 1 < j - 1
        /\ (i - 1) + 1 = i /\ (j - 1) + 1 = j
    BY <1>1, <2>1, <2>2
  <2>4. Tail(s)[i - 1] = a /\ Tail(s)[j - 1] = b
    BY <1>2, <2>1, <2>3
  <2> QED BY <1>1, <2>3, <2>4 DEF Before
<1>4. ASSUME NEW a, NEW b, Before(Tail(s), a, b) PROVE Before(s, a, b)
  <2>1. PICK i, j \in 1 .. Len(s) - 1 : i < j /\ Tail(s)[i] = a /\ Tail(s)[j] = b
    BY <1>1, <1>4 DEF Before
  <2>2. i + 1 \in 1 .. Len(s) /\ j + 1 \in 1 .. Len(s) /\ i + 1 < j + 1
    BY <1>1, <2>1
  <2> QED BY <1>1, <1>2, <2>1, <2>2 DEF Before
<1>5. ASSUME Once(s), NEW a, Before(s, a, Head(s)) PROVE FALSE
  <2>1. PICK i, j \in 1 .. Len(s) : i < j /\ s[j] = Head(s)
    BY <1>1, <1>5 DEF Before
  <2>2. j = 1
    BY <1>1, <1>5, <2>1 DEF Once
  <2> QED BY <2>1, <2>2
<1> QED BY <1>3, <1>4, <1>5

(* The others keep their order when somebody leaves from any place. *)
LEMMA BeforeLeaveAnywhere ==
  ASSUME NEW S, NEW s \in Seq(S), Once(s), NEW x \in Elems(s)
  PROVE  /\ \A a, b : Before(Without(s, x), a, b) => Before(s, a, b)
         /\ \A a, b : Before(s, a, b) /\ a # x /\ b # x => Before(Without(s, x), a, b)
<1> DEFINE i == CHOOSE j \in DOMAIN s : s[j] = x
           n == Len(s)
           u == Without(s, x)
<1>1. i \in 1 .. n /\ s[i] = x /\ n \in Nat /\ DOMAIN s = 1 .. n
  BY DEF Elems
<1>2. u = [j \in 1 .. n - 1 |-> IF j < i THEN s[j] ELSE s[j + 1]]
  BY DEF Without
<1> HIDE DEF i, n, u
<1>3. DOMAIN u = 1 .. n - 1
  BY <1>2
<1>4. ASSUME NEW a, NEW b, Before(u, a, b) PROVE Before(s, a, b)
  <2>1. PICK j, k \in 1 .. n - 1 : j < k /\ u[j] = a /\ u[k] = b
    BY <1>3, <1>4 DEF Before
  <2> DEFINE J == IF j < i THEN j ELSE j + 1
             K == IF k < i THEN k ELSE k + 1
  <2>2. J \in 1 .. n /\ K \in 1 .. n /\ J < K
    BY <1>1, <2>1
  <2>3. s[J] = a /\ s[K] = b
    BY <1>2, <2>1
  <2> HIDE DEF J, K
  <2> QED BY <1>1, <2>2, <2>3 DEF Before
<1>5. ASSUME NEW a, NEW b, Before(s, a, b), a # x, b # x PROVE Before(u, a, b)
  <2>1. PICK j, k \in 1 .. n : j < k /\ s[j] = a /\ s[k] = b
    BY <1>1, <1>5 DEF Before
  <2>2. j # i /\ k # i
    BY <1>1, <1>5, <2>1
  <2> DEFINE J == IF j < i THEN j ELSE j - 1
             K == IF k < i THEN k ELSE k - 1
  <2>3. /\ J \in 1 .. n - 1 /\ K \in 1 .. n - 1 /\ J < K
        /\ J < i <=> j < i
        /\ K < i <=> k < i
    BY <1>1, <2>1, <2>2
  <2>4. u[J] = s[j]
    <3>1. CASE j < i
      BY <1>2, <2>3, <3>1
    <3>2. CASE ~(j < i)
      <4>1. J = j - 1 /\ J + 1 = j /\ ~(J < i)
        BY <2>1, <2>3, <3>2
      <4>2. u[J] = s[J + 1]
        BY <1>2, <2>3, <4>1
      <4> QED BY <4>1, <4>2
    <3> QED BY <3>1, <3>2
  <2>5. u[K] = s[k]
    <3>1. CASE k < i
      BY <1>2, <2>3, <3>1
    <3>2. CASE ~(k < i)
      <4>1. K = k - 1 /\ K + 1 = k /\ ~(K < i)
        BY <2>1, <2>3, <3>2
      <4>2. u[K] = s[K + 1]
        BY <1>2, <2>3, <4>1
      <4> QED BY <4>1, <4>2
    <3> QED BY <3>1, <3>2
  <2> HIDE DEF J, K
  <2> QED BY <1>3, <2>1, <2>3, <2>4, <2>5 DEF Before
<1> QED BY <1>4, <1>5 DEF u

=============================================================================
