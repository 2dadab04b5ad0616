----------------------------- MODULE WhereProofs -----------------------------
(***************************************************************************)
(* Proofs about where_clause, for any number of conditions and any nesting  *)
(* of clauses: what generate_sql writes after one more && or ||, and that   *)
(* it means the expression the clause was built by.                         *)
(***************************************************************************)
EXTENDS Parameters, SequenceTheorems, WellFoundedInduction, TLAPS

\* A non-empty set of natural numbers has a least element.
LEMMA Least ==
  ASSUME NEW T, T \subseteq Nat, T # {}
  PROVE  \E x \in T : \A y \in T : x <= y
<1> DEFINE R == {ss \in Nat \X Nat : ss[1] < ss[2]}
<1>1. IsWellFoundedOn(R, Nat)
  BY NatLessThanWellFounded, Zenon DEF OpToRel
<1>2. PICK x \in T : \A y \in T : ~(<<y, x>> \in R)
  <2> HIDE DEF R
  <2> QED  BY <1>1, WFMin
<1>3. \A y \in T : ~(y < x)
  BY <1>2
<1> QED  BY <1>2, <1>3

-----------------------------------------------------------------------------
(* The texts of a clause, joined one by one *)

Glued(glue, s, t) == IF glue = "and" THEN AndText(s, t) ELSE OrText(s, t)

\* One unfolding of the function that Joined is read from, up to the m-th text.
Joining(f, glue, t, ts, m) ==
  [n \in 0..m |-> IF n = 0 THEN t ELSE Glued(glue, f[n - 1], ts[n])]

\* The function exists.
LEMMA JoiningExists ==
  ASSUME NEW glue, NEW t, NEW ts, NEW m \in Nat
  PROVE  \E f : f = Joining(f, glue, t, ts, m)
<1> DEFINE Bad == {n \in Nat : ~\E f : f = Joining(f, glue, t, ts, n)}
<1> SUFFICES ASSUME Bad # {}  PROVE FALSE
  OBVIOUS
<1>1. PICK k \in Bad : \A y \in Bad : k <= y
  <2>1. Bad \subseteq Nat
    OBVIOUS
  <2> HIDE DEF Bad
  <2> QED  BY <2>1, Least
<1>2. k \in Nat /\ ~\E f : f = Joining(f, glue, t, ts, k)
  BY <1>1
<1>3. CASE k = 0
  <2> DEFINE f == [n \in 0..0 |-> t]
  <2>1. f = Joining(f, glue, t, ts, 0)
    BY DEF Joining
  <2> QED  BY <1>2, <1>3, <2>1
<1>4. CASE k # 0
  <2>1. k - 1 \in Nat /\ k - 1 \notin Bad
    BY <1>1, <1>2, <1>4
  <2>2. PICK g : g = Joining(g, glue, t, ts, k - 1)
    BY <2>1
  <2> DEFINE f == [n \in 0..k |-> IF n < k THEN g[n] ELSE Glued(glue, g[k - 1], ts[k])]
  <2>3. \A n \in 0..(k - 1) : g[n] = IF n = 0 THEN t ELSE Glued(glue, g[n - 1], ts[n])
    BY <2>2, Zenon DEF Joining
  <2>4. ASSUME NEW n \in 0..k
        PROVE  f[n] = IF n = 0 THEN t ELSE Glued(glue, f[n - 1], ts[n])
    <3>1. CASE n = 0
      BY <1>2, <1>4, <2>3, <3>1
    <3>2. CASE n # 0 /\ n < k
      <4>1. n \in 0..(k - 1) /\ n - 1 \in 0..k /\ n - 1 < k
        BY <1>2, <3>2
      <4> QED  BY <2>3, <3>2, <4>1
    <3>3. CASE n # 0 /\ n = k
      <4>1. n - 1 \in 0..k /\ n - 1 < k /\ ~(k < k)
        BY <1>2, <3>3
      <4> QED  BY <3>3, <4>1
    <3> QED  BY <1>2, <3>1, <3>2, <3>3
  <2>5. f = Joining(f, glue, t, ts, k)
    BY <2>4 DEF Joining
  <2> QED  BY <1>2, <2>5
<1> QED  BY <1>3, <1>4

\* Two of them agree as far as their texts do.
LEMMA JoiningUnique ==
  ASSUME NEW glue, NEW t, NEW ts, NEW us, NEW m \in Nat, NEW k \in 0..m,
         NEW f, f = Joining(f, glue, t, ts, k), NEW g, g = Joining(g, glue, t, us, m),
         \A n \in 1..k : ts[n] = us[n]
  PROVE  \A n \in 0..k : f[n] = g[n]
<1> DEFINE Bad == {n \in 0..k : f[n] # g[n]}
<1> SUFFICES ASSUME Bad # {}  PROVE FALSE
  OBVIOUS
<1>1. PICK x \in Bad : \A y \in Bad : x <= y
  <2>1. Bad \subseteq Nat
    OBVIOUS
  <2> HIDE DEF Bad
  <2> QED  BY <2>1, Least
<1>2. /\ \A n \in 0..k : f[n] = IF n = 0 THEN t ELSE Glued(glue, f[n - 1], ts[n])
      /\ \A n \in 0..m : g[n] = IF n = 0 THEN t ELSE Glued(glue, g[n - 1], us[n])
  BY Zenon DEF Joining
<1>3. x # 0
  BY <1>1, <1>2
<1>4. x - 1 \in 0..k /\ x - 1 \notin Bad /\ x \in 0..m /\ x \in 1..k
  BY <1>1, <1>3
<1>5. f[x - 1] = g[x - 1]
  BY <1>4
<1> QED  BY <1>1, <1>2, <1>3, <1>4, <1>5

\* What Joined is read from.
LEMMA JoinedIs ==
  ASSUME NEW glue, NEW t, NEW ts, Len(ts) \in Nat
  PROVE  \E f : f = Joining(f, glue, t, ts, Len(ts)) /\ Joined(glue, t, ts) = f[Len(ts)]
<1> DEFINE f == CHOOSE h : h = Joining(h, glue, t, ts, Len(ts))
<1>1. f = Joining(f, glue, t, ts, Len(ts))
  BY JoiningExists
<1>2. Joined(glue, t, ts) = f[Len(ts)]
  BY Zenon DEF Joined, Joining, Glued
<1> QED  BY <1>1, <1>2

\* Joining is by one text at a time.
LEMMA JoinedAppend ==
  ASSUME NEW glue, NEW S, NEW t, NEW ts \in Seq(S), NEW x \in S
  PROVE  /\ Joined(glue, t, <<>>) = t
         /\ Joined(glue, t, Append(ts, x)) = Glued(glue, Joined(glue, t, ts), x)
<1>1. Joined(glue, t, <<>>) = t
  <2>1. PICK f : f = Joining(f, glue, t, <<>>, 0) /\ Joined(glue, t, <<>>) = f[0]
    BY JoinedIs
  <2> QED  BY <2>1 DEF Joining
<1> DEFINE m == Len(ts)
           us == Append(ts, x)
<1>2. m \in Nat /\ Len(us) = m + 1 /\ us[m + 1] = x /\ \A n \in 1..m : ts[n] = us[n]
  OBVIOUS
<1>3. PICK f : f = Joining(f, glue, t, ts, m) /\ Joined(glue, t, ts) = f[m]
  BY <1>2, JoinedIs
<1>4. PICK g : g = Joining(g, glue, t, us, m + 1) /\ Joined(glue, t, us) = g[m + 1]
  <2> HIDE DEF us
  <2> QED  BY <1>2, JoinedIs
<1> HIDE DEF m, us
<1>5. f[m] = g[m]
  BY <1>2, <1>3, <1>4, JoiningUnique
<1>6. g[m + 1] = Glued(glue, g[m], us[m + 1])
  <2>1. \A n \in 0..(m + 1) : g[n] = IF n = 0 THEN t ELSE Glued(glue, g[n - 1], us[n])
    BY <1>4, Zenon DEF Joining
  <2>2. m + 1 \in 0..(m + 1) /\ m + 1 # 0 /\ (m + 1) - 1 = m
    BY <1>2
  <2> QED  BY <2>1, <2>2
<1> QED  BY <1>1, <1>2, <1>3, <1>4, <1>5, <1>6 DEF us

-----------------------------------------------------------------------------
(* Texts *)

Factors == SUBSET Assignments

Text == [terms : Seq(Seq(Factors)), slots : Seq(Conditions), ok : BOOLEAN]

\* Every connective has a condition on each side.
Sound(t) == t.ok /\ ~Blank(t)

\* A text is a record of its three parts.
LEMMA TextParts ==
  ASSUME NEW a \in Seq(Seq(Factors)), NEW b \in Seq(Conditions), NEW o \in BOOLEAN
  PROVE  /\ [terms |-> a, slots |-> b, ok |-> o] \in Text
         /\ [terms |-> a, slots |-> b, ok |-> o].terms = a
         /\ [terms |-> a, slots |-> b, ok |-> o].slots = b
         /\ [terms |-> a, slots |-> b, ok |-> o].ok = o
BY DEF Text

\* The empty text is true nowhere.
LEMMA EmptyIsFalse == EmptyText \in Text /\ EmptyText.slots = <<>> /\ Truth(EmptyText) = {}
<1>1. <<>> \in Seq(Seq(Factors)) /\ <<>> \in Seq(Conditions)
  OBVIOUS
<1>2. EmptyText \in Text /\ EmptyText.terms = <<>> /\ EmptyText.slots = <<>>
  BY <1>1, TextParts DEF EmptyText
<1> HIDE DEF EmptyText
<1> QED  BY <1>2 DEF Truth

\* The text of a condition is one alternative with one factor.
LEMMA ConditionIsText ==
  ASSUME NEW c \in Conditions
  PROVE  /\ Condition(c) \in Text /\ Sound(Condition(c)) /\ Condition(c) # EmptyText
         /\ Len(Condition(c).terms) = 1 /\ Condition(c).slots = <<c>>
<1> DEFINE x == << << {e \in Assignments : c \in e} >> >>
           t == Condition(c)
<1>1. x \in Seq(Seq(Factors)) /\ <<c>> \in Seq(Conditions) /\ x # <<>> /\ Len(x) = 1
  BY DEF Factors
<1>2. t \in Text /\ t.terms = x /\ t.slots = <<c>> /\ t.ok = TRUE
  <2> HIDE DEF x
  <2>1. t = [terms |-> x, slots |-> <<c>>, ok |-> TRUE]
    BY DEF Condition, x
  <2> HIDE DEF t
  <2> QED  BY <1>1, <2>1, TextParts
<1>3. EmptyText.terms = <<>>
  BY DEF EmptyText
<1> HIDE DEF x, t
<1>4. t # EmptyText
  BY <1>1, <1>2, <1>3
<1>5. Sound(t)
  BY <1>1, <1>2 DEF Sound, Blank
<1> QED  BY <1>1, <1>2, <1>4, <1>5 DEF t

\* The parts of a text.
LEMMA PartsOf ==
  ASSUME NEW t \in Text
  PROVE  /\ t.terms \in Seq(Seq(Factors)) /\ t.slots \in Seq(Conditions) /\ t.ok \in BOOLEAN
         /\ Truth(t) \in Factors
<1>1. t.terms \in Seq(Seq(Factors)) /\ t.slots \in Seq(Conditions) /\ t.ok \in BOOLEAN
  BY DEF Text
<1>2. Truth(t) \in Factors
  BY DEF Truth, Factors
<1> QED  BY <1>1, <1>2

\* s OR t is true where one of them is.
LEMMA OrIsUnion ==
  ASSUME NEW s \in Text, NEW t \in Text
  PROVE  /\ OrText(s, t) \in Text
         /\ OrText(s, t).slots = s.slots \o t.slots
         /\ Truth(OrText(s, t)) = Truth(s) \cup Truth(t)
         /\ Sound(s) /\ Sound(t) => Sound(OrText(s, t))
<1> DEFINE u == OrText(s, t)
           o == s.ok /\ t.ok /\ ~Blank(s) /\ ~Blank(t)
<1>1. /\ s.terms \o t.terms \in Seq(Seq(Factors)) /\ s.slots \o t.slots \in Seq(Conditions)
      /\ o \in BOOLEAN
  BY PartsOf
<1>2. u \in Text /\ u.terms = s.terms \o t.terms /\ u.slots = s.slots \o t.slots /\ u.ok = o
  <2>1. u = [terms |-> s.terms \o t.terms, slots |-> s.slots \o t.slots, ok |-> o]
    BY DEF OrText
  <2> HIDE DEF u, o
  <2> QED  BY <1>1, <2>1, TextParts
<1> HIDE DEF u
<1>3. Sound(s) /\ Sound(t) => Sound(u)
  <2> SUFFICES ASSUME Sound(s), Sound(t)  PROVE Sound(u)
    OBVIOUS
  <2>1. u.ok
    BY <1>2 DEF Sound
  <2>2. s.terms # <<>> /\ u.terms = s.terms \o t.terms
    BY <1>2 DEF Sound, Blank
  <2>3. u.terms # <<>>
    BY <2>2, PartsOf
  <2> QED  BY <2>1, <2>3 DEF Sound, Blank
<1>4. Truth(u) = Truth(s) \cup Truth(t)
  <2> DEFINE a == s.terms
             b == t.terms
             T(y, e) == \E i \in DOMAIN y : \A j \in DOMAIN y[i] : e \in y[i][j]
  <2>1. a \in Seq(Seq(Factors)) /\ b \in Seq(Seq(Factors)) /\ u.terms = a \o b
    BY <1>2, PartsOf
  <2> HIDE DEF a, b
  <2>2. ASSUME NEW e  PROVE T(a \o b, e) <=> T(a, e) \/ T(b, e)
    <3> DEFINE c == a \o b
    <3>1. \A i \in DOMAIN a : i \in DOMAIN c /\ c[i] = a[i]
      BY <2>1
    <3>2. \A i \in DOMAIN b : \E k \in DOMAIN c : c[k] = b[i]
      <4> SUFFICES ASSUME NEW i \in DOMAIN b  PROVE \E k \in DOMAIN c : c[k] = b[i]
        OBVIOUS
      <4>1. Len(a) + i \in DOMAIN c /\ c[Len(a) + i] = b[i]
        BY <2>1
      <4> QED  BY <4>1
    <3>3. \A i \in DOMAIN c : \/ i \in DOMAIN a /\ c[i] = a[i]
                            \/ \E k \in DOMAIN b : c[i] = b[k]
      <4> SUFFICES ASSUME NEW i \in DOMAIN c, i \notin DOMAIN a
                   PROVE  \E k \in DOMAIN b : c[i] = b[k]
        BY <3>1
      <4>1. i - Len(a) \in DOMAIN b /\ c[i] = b[i - Len(a)]
        BY <2>1
      <4> QED  BY <4>1
    <3> HIDE DEF c
    <3>4. T(c, e) <=> T(a, e) \/ T(b, e)
      BY <3>1, <3>2, <3>3
    <3> QED  BY <3>4 DEF c
  <2>3. /\ Truth(u) = {e \in Assignments : T(a \o b, e)}
        /\ Truth(s) = {e \in Assignments : T(a, e)} /\ Truth(t) = {e \in Assignments : T(b, e)}
    BY <2>1, Zenon DEF Truth, a, b
  <2> HIDE DEF T
  <2> QED  BY <2>2, <2>3
<1> QED  BY <1>2, <1>3, <1>4 DEF u

\* Parentheses change no meaning.
LEMMA ParenthesesKeepTruth ==
  ASSUME NEW t \in Text
  PROVE  /\ Parenthesised(t) \in Text
         /\ Parenthesised(t).slots = t.slots
         /\ Truth(Parenthesised(t)) = Truth(t)
         /\ t.ok => Sound(Parenthesised(t))
<1> DEFINE x == << << Truth(t) >> >>
           p == Parenthesised(t)
<1>1. x \in Seq(Seq(Factors)) /\ x # <<>> /\ DOMAIN x = {1} /\ x[1] = <<Truth(t)>>
  BY PartsOf
<1>2. DOMAIN x[1] = {1} /\ x[1][1] = Truth(t)
  BY <1>1
<1> HIDE DEF x
<1>3. p = [t EXCEPT !.terms = x]
  BY DEF Parenthesised, x
<1> HIDE DEF p
<1>4. p \in Text /\ p.terms = x /\ p.slots = t.slots
  BY <1>1, <1>3 DEF Text
<1>5. p.ok = t.ok
  BY <1>3 DEF Text
<1>6. Truth(p) = {e \in Assignments : e \in Truth(t)}
  BY <1>1, <1>2, <1>4 DEF Truth
<1>7. Truth(t) \subseteq Assignments
  BY DEF Truth
<1>8. Truth(p) = Truth(t)
  BY <1>6, <1>7
<1>9. t.ok => Sound(p)
  BY <1>1, <1>4, <1>5 DEF Sound, Blank
<1> QED  BY <1>4, <1>8, <1>9 DEF p

\* A sequence of one member.
LEMMA OneMember ==
  ASSUME NEW S, NEW a \in Seq(S), Len(a) = 1
  PROVE  /\ a # <<>> /\ DOMAIN a = {1} /\ a[1] \in S
         /\ Front(a) = <<>> /\ Last(a) = a[1] /\ Head(a) = a[1] /\ Tail(a) = <<>>
<1>1. a # <<>> /\ DOMAIN a = {1} /\ a[1] \in S /\ Head(a) = a[1] /\ Last(a) = a[1]
  BY DEF Last
<1>2. Front(a) = <<>>
  BY SubSeqProperties DEF Front
<1>3. Tail(a) = <<>>
  <2>1. Tail(a) \in Seq(S) /\ Len(Tail(a)) = 0
    BY <1>1, HeadTailProperties
  <2> QED  BY <2>1, EmptySeq
<1> QED  BY <1>1, <1>2, <1>3

\* s AND t; without OR in either, it is true where both are.
LEMMA AndIsIntersection ==
  ASSUME NEW s \in Text, NEW t \in Text
  PROVE  /\ AndText(s, t) \in Text
         /\ AndText(s, t).slots = s.slots \o t.slots
         /\ Len(s.terms) = 1 /\ Len(t.terms) = 1 =>
              /\ Len(AndText(s, t).terms) = 1
              /\ Truth(AndText(s, t)) = Truth(s) \cap Truth(t)
              /\ Sound(s) /\ Sound(t) => Sound(AndText(s, t))
<1> DEFINE a == s.terms
           b == t.terms
           u == AndText(s, t)
           o == s.ok /\ t.ok /\ ~Blank(s) /\ ~Blank(t)
           x == IF Blank(s) \/ Blank(t) THEN a \o b
                ELSE Front(a) \o << Last(a) \o Head(b) >> \o Tail(b)
<1>1. /\ a \in Seq(Seq(Factors)) /\ b \in Seq(Seq(Factors))
      /\ s.slots \o t.slots \in Seq(Conditions)
  BY PartsOf
<1>o. o \in BOOLEAN
  BY PartsOf
<1>2. (Blank(s) <=> a = <<>>) /\ (Blank(t) <=> b = <<>>)
  BY DEF Blank
<1>3. u = [terms |-> x, slots |-> s.slots \o t.slots, ok |-> o]
  BY Zenon DEF AndText
<1> HIDE DEF a, b, u, o
<1>4. ASSUME a # <<>>, b # <<>>
      PROVE  /\ Front(a) \in Seq(Seq(Factors)) /\ Last(a) \in Seq(Factors)
             /\ Head(b) \in Seq(Factors) /\ Tail(b) \in Seq(Seq(Factors))
  <2>1. Len(a) \in Nat /\ Len(a) # 0
    BY <1>1, <1>4
  <2>2. Front(a) \in Seq(Seq(Factors))
    BY <1>1, <2>1, SubSeqProperties DEF Front
  <2>3. Last(a) \in Seq(Factors)
    BY <1>1, <2>1 DEF Last
  <2> QED  BY <1>1, <1>4, <2>2, <2>3
<1>5. x \in Seq(Seq(Factors))
  <2>1. CASE Blank(s) \/ Blank(t)
    BY <1>1, <2>1
  <2>2. CASE ~(Blank(s) \/ Blank(t))
    <3> DEFINE y == Last(a) \o Head(b)
    <3>1. y \in Seq(Factors)
      BY <1>2, <1>4, <2>2
    <3>2. x = Front(a) \o <<y>> \o Tail(b)
      BY <2>2
    <3> HIDE DEF y, x
    <3> QED  BY <1>2, <1>4, <2>2, <3>1, <3>2
  <2> QED  BY <2>1, <2>2
<1>6. u \in Text /\ u.terms = x /\ u.slots = s.slots \o t.slots /\ u.ok = o
  <2> HIDE DEF x
  <2> QED  BY <1>1, <1>o, <1>3, <1>5, TextParts
<1>7. ASSUME Len(a) = 1, Len(b) = 1
      PROVE  /\ Len(x) = 1
             /\ Truth(u) = Truth(s) \cap Truth(t)
             /\ Sound(s) /\ Sound(t) => Sound(u)
  <2>1. a # <<>> /\ b # <<>>
    BY <1>1, <1>7, OneMember
  <2> DEFINE y == a[1] \o b[1]
  <2>2. Front(a) = <<>> /\ Last(a) = a[1] /\ Head(b) = b[1] /\ Tail(b) = <<>>
    BY <1>1, <1>7, OneMember
  <2>3. a[1] \in Seq(Factors) /\ b[1] \in Seq(Factors) /\ DOMAIN a = {1} /\ DOMAIN b = {1}
    BY <1>1, <1>7, OneMember
  <2>4. x = <<y>>
    <3>1. x = Front(a) \o << Last(a) \o Head(b) >> \o Tail(b)
      BY <1>2, <2>1
    <3>2. x = <<>> \o <<y>> \o <<>>
      BY <2>2, <3>1
    <3>3. y \in Seq(Factors)
      BY <2>3
    <3> HIDE DEF x, y
    <3> QED  BY <3>2, <3>3
  <2>5. Len(x) = 1 /\ x # <<>> /\ DOMAIN x = {1} /\ x[1] = y
    <3> HIDE DEF x, y
    <3> QED  BY <2>4
  <2> HIDE DEF x
  <2>6. Sound(s) /\ Sound(t) => Sound(u)
    <3>1. Sound(s) /\ Sound(t) => o
      BY DEF Sound, o
    <3>2. u.terms # <<>>
      BY <1>6, <2>5
    <3> QED  BY <1>6, <3>1, <3>2 DEF Sound, Blank
  <2>7. /\ Truth(u) = {e \in Assignments : \A j \in DOMAIN y : e \in y[j]}
        /\ Truth(s) = {e \in Assignments : \A j \in DOMAIN a[1] : e \in a[1][j]}
        /\ Truth(t) = {e \in Assignments : \A j \in DOMAIN b[1] : e \in b[1][j]}
    <3> HIDE DEF y
    <3>1. Truth(u) = {e \in Assignments : \A j \in DOMAIN y : e \in y[j]}
      BY <1>6, <2>5 DEF Truth
    <3>2. Truth(s) = {e \in Assignments : \A j \in DOMAIN a[1] : e \in a[1][j]}
      BY <2>3 DEF Truth, a
    <3>3. Truth(t) = {e \in Assignments : \A j \in DOMAIN b[1] : e \in b[1][j]}
      BY <2>3 DEF Truth, b
    <3> QED  BY <3>1, <3>2, <3>3
  <2>8. ASSUME NEW e
        PROVE  (\A j \in DOMAIN y : e \in y[j]) <=>
                 (\A j \in DOMAIN a[1] : e \in a[1][j]) /\ (\A j \in DOMAIN b[1] : e \in b[1][j])
    <3>1. ASSUME NEW i \in DOMAIN a[1]  PROVE i \in DOMAIN y /\ y[i] = a[1][i]
      BY <2>3
    <3>2. ASSUME NEW i \in DOMAIN b[1]
          PROVE  Len(a[1]) + i \in DOMAIN y /\ y[Len(a[1]) + i] = b[1][i]
      BY <2>3
    <3>3. ASSUME NEW i \in DOMAIN y
          PROVE  \/ i \in DOMAIN a[1] /\ y[i] = a[1][i]
                 \/ i - Len(a[1]) \in DOMAIN b[1] /\ y[i] = b[1][i - Len(a[1])]
      BY <2>3
    <3> HIDE DEF y
    <3> QED  BY <3>1, <3>2, <3>3, Zenon
  <2>9. Truth(u) = Truth(s) \cap Truth(t)
    BY <2>7, <2>8, Zenon
  <2> QED  BY <2>5, <2>6, <2>9
<1> QED  BY <1>6, <1>7 DEF a, b, u

\* What is joined of texts is a text.
LEMMA JoinedIsText ==
  ASSUME NEW glue, NEW t \in Text, NEW ts \in Seq(Text)
  PROVE  Joined(glue, t, ts) \in Text
<1> DEFINE m == Len(ts)
<1>1. m \in Nat /\ \A n \in 1..m : ts[n] \in Text
  OBVIOUS
<1>2. PICK f : f = Joining(f, glue, t, ts, m) /\ Joined(glue, t, ts) = f[m]
  BY <1>1, JoinedIs
<1> HIDE DEF m
<1>3. \A n \in 0..m : f[n] = IF n = 0 THEN t ELSE Glued(glue, f[n - 1], ts[n])
  BY <1>2, Zenon DEF Joining
<1>4. \A x, y \in Text : Glued(glue, x, y) \in Text
  BY OrIsUnion, AndIsIntersection DEF Glued
<1> DEFINE Bad == {n \in 0..m : f[n] \notin Text}
<1>5. ASSUME Bad # {}  PROVE FALSE
  <2>1. PICK x \in Bad : \A y \in Bad : x <= y
    <3>1. Bad \subseteq Nat
      BY <1>1
    <3> HIDE DEF Bad
    <3> QED  BY <1>5, <3>1, Least
  <2>2. x \in 0..m /\ f[x] \notin Text
    BY <2>1
  <2>3. x # 0
    BY <1>3, <2>2
  <2>4. x - 1 \in 0..m /\ x \in 1..m
    BY <1>1, <2>2, <2>3
  <2>5. x - 1 \notin Bad
    BY <1>1, <2>1, <2>2
  <2>6. f[x - 1] \in Text
    BY <2>4, <2>5
  <2>7. f[x] = Glued(glue, f[x - 1], ts[x])
    BY <1>3, <2>2, <2>3
  <2> QED  BY <1>1, <1>4, <2>2, <2>4, <2>6, <2>7
<1>6. m \in 0..m
  BY <1>1
<1> QED  BY <1>2, <1>5, <1>6

-----------------------------------------------------------------------------
(* Clauses *)

Clause == [value : Text, ands : Seq(Text), ors : Seq(Text)]

\* value_ with and_, and or_, as generate_sql writes them.
Anded(w) == Joined("and", w.value, w.ands)
Ored(w) == Joined("or", Head(w.ors), Tail(w.ors))

\* generate_sql in these terms, and its type.
LEMMA SqlOfClause ==
  ASSUME NEW w \in Clause
  PROVE  /\ Anded(w) \in Text
         /\ w.ors # <<>> => Ored(w) \in Text
         /\ w.ands = <<>> => Anded(w) = w.value
         /\ WhereSql(w) = IF w.ors = <<>> THEN Anded(w)
                          ELSE IF w.ands # <<>>
                                 THEN OrText(Parenthesised(Anded(w)), Parenthesised(Ored(w)))
                                 ELSE OrText(Anded(w), Ored(w))
         /\ WhereSql(w) \in Text
<1>1. w.value \in Text /\ w.ands \in Seq(Text) /\ w.ors \in Seq(Text)
  BY DEF Clause
<1>2. Anded(w) \in Text
  BY <1>1, JoinedIsText DEF Anded
<1>3. w.ors # <<>> => Ored(w) \in Text
  <2>1. w.ors # <<>> => Head(w.ors) \in Text /\ Tail(w.ors) \in Seq(Text)
    BY <1>1, HeadTailProperties
  <2> QED  BY <2>1, JoinedIsText DEF Ored
<1>4. w.ands = <<>> => Anded(w) = w.value
  BY <1>1, JoinedAppend DEF Anded
<1>5. WhereSql(w) = IF w.ors = <<>> THEN Anded(w)
                    ELSE IF w.ands # <<>>
                           THEN OrText(Parenthesised(Anded(w)), Parenthesised(Ored(w)))
                           ELSE OrText(Anded(w), Ored(w))
  BY <1>4 DEF WhereSql, Anded, Ored
<1>6. WhereSql(w) \in Text
  BY <1>2, <1>3, <1>5, OrIsUnion, ParenthesesKeepTruth
<1> QED  BY <1>2, <1>3, <1>4, <1>5, <1>6

\* The empty clause is the empty text.
LEMMA EmptySql ==
  /\ EmptyClause \in Clause /\ WhereSql(EmptyClause) = EmptyText
  /\ EmptyClause.value = EmptyText /\ EmptyClause.ands = <<>> /\ EmptyClause.ors = <<>>
<1>1. /\ EmptyClause.value = EmptyText /\ EmptyClause.ands = <<>> /\ EmptyClause.ors = <<>>
      /\ EmptyClause = [value |-> EmptyText, ands |-> <<>>, ors |-> <<>>]
  BY DEF EmptyClause
<1>2. EmptyClause \in Clause
  BY <1>1, EmptyIsFalse DEF Clause
<1> QED  BY <1>1, <1>2, SqlOfClause

\* A clause gets its first text.
LEMMA FirstText ==
  ASSUME NEW w \in Clause, NEW t \in Text
  PROVE  /\ [w EXCEPT !.value = t] \in Clause
         /\ [w EXCEPT !.value = t].value = t
         /\ [w EXCEPT !.value = t].ands = w.ands
         /\ [w EXCEPT !.value = t].ors = w.ors
BY DEF Clause

\* A text is appended with &&.
LEMMA AndedAppend ==
  ASSUME NEW w \in Clause, NEW t \in Text, NEW v, v = [w EXCEPT !.ands = Append(w.ands, t)]
  PROVE  /\ v \in Clause /\ v.value = w.value /\ v.ors = w.ors
         /\ Anded(v) = AndText(Anded(w), t)
<1>1. w.value \in Text /\ w.ands \in Seq(Text) /\ w.ors \in Seq(Text)
  BY DEF Clause
<1>2. Append(w.ands, t) \in Seq(Text)
  BY <1>1
<1>3. v \in Clause /\ v.value = w.value /\ v.ors = w.ors /\ v.ands = Append(w.ands, t)
  BY <1>2 DEF Clause
<1>4. Joined("and", w.value, Append(w.ands, t)) = Glued("and", Joined("and", w.value, w.ands), t)
  BY <1>1, JoinedAppend
<1> QED  BY <1>3, <1>4 DEF Anded, Glued

\* A text is appended with ||.
LEMMA OredAppend ==
  ASSUME NEW w \in Clause, NEW t \in Text, NEW v, v = [w EXCEPT !.ors = Append(w.ors, t)]
  PROVE  /\ v \in Clause /\ v.value = w.value /\ v.ands = w.ands /\ v.ors # <<>>
         /\ Anded(v) = Anded(w)
         /\ Ored(v) = IF w.ors = <<>> THEN t ELSE OrText(Ored(w), t)
<1>1. w.value \in Text /\ w.ands \in Seq(Text) /\ w.ors \in Seq(Text)
  BY DEF Clause
<1>2. Append(w.ors, t) \in Seq(Text) /\ Append(w.ors, t) # <<>>
  BY <1>1, AppendProperties
<1>3. v \in Clause /\ v.value = w.value /\ v.ands = w.ands /\ v.ors = Append(w.ors, t)
  BY <1>2 DEF Clause
<1>4. /\ Head(v.ors) = IF w.ors = <<>> THEN t ELSE Head(w.ors)
      /\ Tail(v.ors) = IF w.ors = <<>> THEN <<>> ELSE Append(Tail(w.ors), t)
  BY <1>1, <1>3, HeadTailAppend
<1>5. CASE w.ors = <<>>
  <2>1. Joined("or", t, <<>>) = t
    BY <1>1, JoinedAppend
  <2> QED  BY <1>2, <1>3, <1>4, <1>5, <2>1 DEF Anded, Ored
<1>6. CASE w.ors # <<>>
  <2>1. Tail(w.ors) \in Seq(Text)
    BY <1>1, <1>6, HeadTailProperties
  <2>2. Joined("or", Head(w.ors), Append(Tail(w.ors), t))
          = Glued("or", Joined("or", Head(w.ors), Tail(w.ors)), t)
    <3> DEFINE a == Head(w.ors)
               b == Tail(w.ors)
    <3>1. b \in Seq(Text)
      BY <2>1
    <3> HIDE DEF a, b
    <3>2. Joined("or", a, Append(b, t)) = Glued("or", Joined("or", a, b), t)
      BY <3>1, JoinedAppend
    <3> QED  BY <3>2 DEF a, b
  <2> QED  BY <1>2, <1>3, <1>4, <1>6, <2>2 DEF Anded, Ored, Glued
<1> QED  BY <1>5, <1>6

-----------------------------------------------------------------------------
(* Meaning *)

Forms == {"none", "conjunction", "disjunction", "mixed"}

Plain == {"conjunction", "disjunction"}

\* The text t means the expression of form f that is true at m.
TextMeans(t, f, m) ==
  /\ f = "none" => t = EmptyText /\ m = {}
  /\ f \in Plain => Sound(t) /\ Truth(t) = m
  /\ f = "conjunction" => Len(t.terms) = 1

\* The same of a clause, with what the next && or || relies on.
Means(w, f, m) ==
  /\ f = "none" => w = EmptyClause /\ m = {}
  /\ f \in Plain => /\ ~Blank(w.value) /\ Sound(Anded(w)) /\ (w.ors # <<>> => Sound(Ored(w)))
                    /\ Truth(WhereSql(w)) = m
  /\ f = "conjunction" => w.ors = <<>> /\ Len(Anded(w).terms) = 1

\* A clause that means an expression is written as a text that means it.
LEMMA WrittenMeans ==
  ASSUME NEW w \in Clause, NEW f, NEW m, Means(w, f, m)
  PROVE  TextMeans(WhereSql(w), f, m)
<1>1. f = "none" => WhereSql(w) = EmptyText /\ m = {}
  BY EmptySql DEF Means
<1>2. f \in Plain => Sound(WhereSql(w)) /\ Truth(WhereSql(w)) = m
  <2> SUFFICES ASSUME f \in Plain  PROVE Sound(WhereSql(w))
    BY DEF Means
  <2>1. Sound(Anded(w)) /\ (w.ors # <<>> => Sound(Ored(w)))
    BY DEF Means
  <2>2. Anded(w) \in Text /\ (w.ors # <<>> => Ored(w) \in Text)
    BY SqlOfClause
  <2>3. CASE w.ors = <<>>
    BY <2>1, <2>3, SqlOfClause
  <2>4. CASE w.ors # <<>> /\ w.ands # <<>>
    <3> DEFINE a == Parenthesised(Anded(w))
               b == Parenthesised(Ored(w))
    <3>1. a \in Text /\ b \in Text /\ Sound(a) /\ Sound(b)
      BY <2>1, <2>2, <2>4, ParenthesesKeepTruth DEF Sound
    <3>2. WhereSql(w) = OrText(a, b)
      BY <2>4, SqlOfClause
    <3> HIDE DEF a, b
    <3> QED  BY <3>1, <3>2, OrIsUnion
  <2>5. CASE w.ors # <<>> /\ w.ands = <<>>
    <3>1. WhereSql(w) = OrText(Anded(w), Ored(w))
      BY <2>5, SqlOfClause
    <3> QED  BY <2>1, <2>2, <2>5, <3>1, OrIsUnion
  <2> QED  BY <2>3, <2>4, <2>5
<1>3. f = "conjunction" => Len(WhereSql(w).terms) = 1
  BY SqlOfClause DEF Means
<1> QED  BY <1>1, <1>2, <1>3 DEF TextMeans

\* Alternatives are joined without loss.
LEMMA TruthOfOred ==
  ASSUME NEW w \in Clause, w.ors # <<>>
  PROVE  Truth(WhereSql(w)) = Truth(Anded(w)) \cup Truth(Ored(w))
<1>1. Anded(w) \in Text /\ Ored(w) \in Text
  BY SqlOfClause
<1>2. CASE w.ands # <<>>
  <2> DEFINE a == Parenthesised(Anded(w))
             b == Parenthesised(Ored(w))
  <2>1. a \in Text /\ b \in Text /\ Truth(a) = Truth(Anded(w)) /\ Truth(b) = Truth(Ored(w))
    BY <1>1, ParenthesesKeepTruth
  <2>2. WhereSql(w) = OrText(a, b)
    BY <1>2, SqlOfClause
  <2> HIDE DEF a, b
  <2> QED  BY <2>1, <2>2, OrIsUnion
<1>3. CASE w.ands = <<>>
  BY <1>1, <1>3, SqlOfClause, OrIsUnion
<1> QED  BY <1>2, <1>3

\* The first text of a clause.
LEMMA FirstMeans ==
  ASSUME NEW t \in Text, NEW g, NEW r, TextMeans(t, g, r)
  PROVE  /\ [EmptyClause EXCEPT !.value = t] \in Clause
         /\ Means([EmptyClause EXCEPT !.value = t], g, r)
<1> DEFINE v == [EmptyClause EXCEPT !.value = t]
<1>1. v \in Clause /\ v.value = t /\ v.ands = <<>> /\ v.ors = <<>>
  BY EmptySql, FirstText
<1>2. t = EmptyText => v = EmptyClause
  BY DEF EmptyClause
<1> HIDE DEF v
<1>3. Anded(v) = t /\ WhereSql(v) = t
  BY <1>1, SqlOfClause
<1>4. Means(v, g, r)
  BY <1>1, <1>2, <1>3 DEF Means, TextMeans, Sound
<1> QED  BY <1>1, <1>4 DEF v

\* One more && of a text.
LEMMA AndMeans ==
  ASSUME NEW w \in Clause, NEW f \in Forms, NEW m, Means(w, f, m), f # "none",
         NEW t \in Text, NEW g \in Forms, NEW r, TextMeans(t, g, r),
         NEW v, v = [w EXCEPT !.ands = Append(w.ands, t)]
  PROVE  v \in Clause /\ Means(v, AndForm(f, g), AndMeant(f, m, r))
<1>1. v \in Clause /\ v.value = w.value /\ v.ors = w.ors /\ Anded(v) = AndText(Anded(w), t)
  BY AndedAppend
<1>2. CASE f = "conjunction" /\ g = "conjunction"
  <2>1. /\ Anded(w) \in Text /\ Sound(Anded(w)) /\ Len(Anded(w).terms) = 1 /\ w.ors = <<>>
        /\ ~Blank(w.value) /\ Truth(Anded(w)) = m
    BY <1>2, SqlOfClause DEF Means, Plain
  <2>2. Sound(t) /\ Truth(t) = r /\ Len(t.terms) = 1
    BY <1>2 DEF TextMeans, Plain
  <2>3. /\ Sound(Anded(v)) /\ Len(Anded(v).terms) = 1
        /\ Truth(Anded(v)) = m \cap r
    BY <1>1, <2>1, <2>2, AndIsIntersection
  <2>4. WhereSql(v) = Anded(v)
    BY <1>1, <2>1, SqlOfClause
  <2>5. AndForm(f, g) = "conjunction" /\ AndMeant(f, m, r) = m \cap r
    BY <1>2 DEF AndForm, AndMeant
  <2> QED  BY <1>1, <2>1, <2>3, <2>4, <2>5 DEF Means, Plain
<1>3. CASE ~(f = "conjunction" /\ g = "conjunction")
  <2>1. AndForm(f, g) = "mixed"
    BY <1>3 DEF AndForm
  <2> QED  BY <1>1, <2>1 DEF Means, Plain
<1> QED  BY <1>2, <1>3

\* One more || of a text that is not empty.
LEMMA OrMeans ==
  ASSUME NEW w \in Clause, NEW f \in Forms, NEW m, Means(w, f, m), f # "none",
         NEW t \in Text, NEW g \in Forms, NEW r, TextMeans(t, g, r), g # "none",
         NEW v, v = [w EXCEPT !.ors = Append(w.ors, t)]
  PROVE  v \in Clause /\ Means(v, OrForm(f, g), OrMeant(f, m, r))
<1>1. /\ v \in Clause /\ v.value = w.value /\ v.ands = w.ands /\ v.ors # <<>>
      /\ Anded(v) = Anded(w)
      /\ Ored(v) = IF w.ors = <<>> THEN t ELSE OrText(Ored(w), t)
  BY OredAppend
<1>2. CASE f \in Plain /\ g \in Plain
  <2>1. /\ Anded(w) \in Text /\ Sound(Anded(w)) /\ ~Blank(w.value)
        /\ w.ors # <<>> => Ored(w) \in Text /\ Sound(Ored(w))
        /\ Truth(WhereSql(w)) = m
    BY <1>2, SqlOfClause DEF Means
  <2>2. Sound(t) /\ Truth(t) = r
    BY <1>2 DEF TextMeans
  <2>3. Truth(WhereSql(v)) = Truth(Anded(v)) \cup Truth(Ored(v))
    BY <1>1, TruthOfOred
  <2>4. Sound(Ored(v)) /\ Truth(WhereSql(v)) = m \cup r
    <3>1. CASE w.ors = <<>>
      BY <1>1, <2>1, <2>2, <2>3, <3>1, SqlOfClause
    <3>2. CASE w.ors # <<>>
      <4>1. m = Truth(Anded(w)) \cup Truth(Ored(w))
        BY <2>1, <3>2, TruthOfOred
      <4>2. Sound(Ored(v)) /\ Truth(Ored(v)) = Truth(Ored(w)) \cup r
        BY <1>1, <2>1, <2>2, <3>2, OrIsUnion
      <4> QED  BY <1>1, <2>3, <4>1, <4>2
    <3> QED  BY <3>1, <3>2
  <2>5. OrForm(f, g) = "disjunction" /\ OrMeant(f, m, r) = m \cup r
    BY <1>2 DEF OrForm, OrMeant, Plain
  <2> QED  BY <1>1, <2>1, <2>4, <2>5 DEF Means, Plain
<1>3. CASE ~(f \in Plain /\ g \in Plain)
  <2>1. OrForm(f, g) = "mixed"
    BY <1>3 DEF OrForm, Plain, Forms
  <2> QED  BY <1>1, <2>1 DEF Means, Plain
<1> QED  BY <1>2, <1>3

\* An empty value_ belongs to a clause that means nothing, or to one whose
\* expression is mixed.
LEMMA EmptyValue ==
  ASSUME NEW w \in Clause, NEW f \in Forms, NEW m, Means(w, f, m)
  PROVE  /\ f = "none" => w.value = EmptyText
         /\ w.value = EmptyText => f \in {"none", "mixed"}
<1>1. f = "none" => w.value = EmptyText
  BY EmptySql DEF Means
<1>2. Blank(EmptyText)
  BY DEF Blank, EmptyText
<1> QED  BY <1>1, <1>2 DEF Means, Plain, Forms

\* w && t, where the first text of a clause becomes value_.
LEMMA AndStepMeans ==
  ASSUME NEW w \in Clause, NEW f \in Forms, NEW m, Means(w, f, m),
         NEW t \in Text, NEW g \in Forms, NEW r, TextMeans(t, g, r), NEW v,
         v = IF w.value = EmptyText THEN [w EXCEPT !.value = t]
             ELSE [w EXCEPT !.ands = Append(w.ands, t)]
  PROVE  v \in Clause /\ Means(v, AndForm(f, g), AndMeant(f, m, r))
<1>1. CASE f = "none"
  <2>1. w.value = EmptyText /\ w = EmptyClause
    BY <1>1, EmptyValue DEF Means
  <2>2. AndForm(f, g) = g /\ AndMeant(f, m, r) = r
    BY <1>1 DEF AndForm, AndMeant
  <2> QED  BY <2>1, <2>2, FirstMeans
<1>2. CASE f # "none" /\ w.value = EmptyText
  <2>1. f = "mixed"
    BY <1>2, EmptyValue
  <2>2. AndForm(f, g) = "mixed"
    BY <2>1 DEF AndForm
  <2>3. \A x : Means(v, "mixed", x)
    BY DEF Means, Plain
  <2>4. v \in Clause
    BY <1>2, FirstText
  <2> QED  BY <2>2, <2>3, <2>4
<1>3. CASE f # "none" /\ w.value # EmptyText
  <2>1. v = [w EXCEPT !.ands = Append(w.ands, t)]
    BY <1>3
  <2> QED  BY <1>3, <2>1, AndMeans
<1> QED  BY <1>1, <1>2, <1>3

\* w || t for a text t that means something.
LEMMA OrStepMeans ==
  ASSUME NEW w \in Clause, NEW f \in Forms, NEW m, Means(w, f, m),
         NEW t \in Text, NEW g \in Forms, NEW r, TextMeans(t, g, r), g # "none", NEW v,
         v = IF w.value = EmptyText THEN [w EXCEPT !.value = t]
             ELSE [w EXCEPT !.ors = Append(w.ors, t)]
  PROVE  v \in Clause /\ Means(v, OrForm(f, g), OrMeant(f, m, r))
<1>1. CASE f = "none"
  <2>1. w.value = EmptyText /\ w = EmptyClause
    BY <1>1, EmptyValue DEF Means
  <2>2. OrForm(f, g) = g /\ OrMeant(f, m, r) = r
    BY <1>1 DEF OrForm, OrMeant
  <2> QED  BY <2>1, <2>2, FirstMeans
<1>2. CASE f # "none" /\ w.value = EmptyText
  <2>1. f = "mixed"
    BY <1>2, EmptyValue
  <2>2. OrForm(f, g) = "mixed"
    BY <2>1 DEF OrForm
  <2>3. \A x : Means(v, "mixed", x)
    BY DEF Means, Plain
  <2>4. v \in Clause
    BY <1>2, FirstText
  <2> QED  BY <2>2, <2>3, <2>4
<1>3. CASE f # "none" /\ w.value # EmptyText
  <2>1. v = [w EXCEPT !.ors = Append(w.ors, t)]
    BY <1>3
  <2> QED  BY <1>3, <2>1, OrMeans
<1> QED  BY <1>1, <1>2, <1>3

\* A condition is a conjunction.
LEMMA ConditionMeans ==
  ASSUME NEW c \in Conditions
  PROVE  TextMeans(Condition(c), "conjunction", Truth(Condition(c)))
BY ConditionIsText DEF TextMeans, Plain

\* Appending a condition.
LEMMA StringMeans ==
  ASSUME NEW w \in Clause, NEW f \in Forms, NEW m, Means(w, f, m), NEW c \in Conditions
  PROVE  /\ AndString(w, Condition(c)) \in Clause
         /\ Means(AndString(w, Condition(c)), AndForm(f, "conjunction"),
                  AndMeant(f, m, Truth(Condition(c))))
         /\ OrString(w, Condition(c)) \in Clause
         /\ Means(OrString(w, Condition(c)), OrForm(f, "conjunction"),
                  OrMeant(f, m, Truth(Condition(c))))
<1> DEFINE t == Condition(c)
<1>1. t \in Text /\ t # EmptyText /\ TextMeans(t, "conjunction", Truth(t))
  BY ConditionIsText, ConditionMeans
<1> HIDE DEF t
<1> DEFINE u == AndString(w, t)
           v == OrString(w, t)
<1>2. /\ u = IF w.value = EmptyText THEN [w EXCEPT !.value = t]
             ELSE [w EXCEPT !.ands = Append(w.ands, t)]
      /\ v = IF w.value = EmptyText THEN [w EXCEPT !.value = t]
             ELSE [w EXCEPT !.ors = Append(w.ors, t)]
  BY <1>1 DEF AndString, OrString
<1>3. "conjunction" \in Forms /\ "conjunction" # "none"
  BY DEF Forms
<1> HIDE DEF u, v
<1>4. u \in Clause /\ Means(u, AndForm(f, "conjunction"), AndMeant(f, m, Truth(t)))
  BY <1>1, <1>2, <1>3, AndStepMeans
<1>5. v \in Clause /\ Means(v, OrForm(f, "conjunction"), OrMeant(f, m, Truth(t)))
  BY <1>1, <1>2, <1>3, OrStepMeans
<1> QED  BY <1>4, <1>5 DEF t, u, v

\* Appending a clause.
LEMMA ClauseMeans ==
  ASSUME NEW w \in Clause, NEW f \in Forms, NEW m, Means(w, f, m),
         NEW x \in Clause, NEW g \in Forms, NEW r, Means(x, g, r)
  PROVE  /\ AndClause(w, x) \in Clause
         /\ Means(AndClause(w, x), AndForm(f, g), AndMeant(f, m, r))
         /\ OrClause(w, x) \in Clause
         /\ Means(OrClause(w, x), OrForm(f, g), OrMeant(f, m, r))
<1> DEFINE t == WhereSql(x)
<1>1. t \in Text /\ TextMeans(t, g, r)
  BY SqlOfClause, WrittenMeans
<1> DEFINE u == AndClause(w, x)
           v == OrClause(w, x)
<1>2. /\ u = IF w.value = EmptyText THEN [w EXCEPT !.value = t]
             ELSE [w EXCEPT !.ands = Append(w.ands, t)]
      /\ ~IsEmpty(x) => v = IF w.value = EmptyText THEN [w EXCEPT !.value = t]
                            ELSE [w EXCEPT !.ors = Append(w.ors, t)]
  BY DEF AndClause, OrClause
<1>e. IsEmpty(x) => v = w
  BY DEF OrClause
<1> HIDE DEF t, u, v
<1>3. u \in Clause /\ Means(u, AndForm(f, g), AndMeant(f, m, r))
  BY <1>1, <1>2, AndStepMeans
<1>4. g = "none" => IsEmpty(x) /\ r = {}
  BY EmptySql DEF Means, IsEmpty
<1>5. ASSUME IsEmpty(x)  PROVE v \in Clause /\ Means(v, OrForm(f, g), OrMeant(f, m, r))
  <2>1. g \in {"none", "mixed"}
    BY <1>5, EmptyValue DEF IsEmpty
  <2>2. CASE g = "mixed"
    <3>1. OrForm(f, g) = "mixed"
      BY <2>2 DEF OrForm
    <3>2. \A y : Means(w, "mixed", y)
      BY DEF Means, Plain
    <3> QED  BY <1>5, <1>e, <3>1, <3>2
  <2>3. CASE g = "none"
    <3>1. OrForm(f, g) = f
      BY <2>3 DEF OrForm
    <3>2. OrMeant(f, m, r) = m
      <4>1. r = {}
        BY <1>4, <2>3
      <4>2. f = "none" => m = {}
        BY DEF Means
      <4>3. f # "none" => OrMeant(f, m, r) = m \cup {}
        BY <4>1 DEF OrMeant
      <4> QED  BY <4>1, <4>2, <4>3 DEF OrMeant
    <3> QED  BY <1>5, <1>e, <3>1, <3>2
  <2> QED  BY <2>1, <2>2, <2>3
<1>6. ASSUME ~IsEmpty(x)  PROVE v \in Clause /\ Means(v, OrForm(f, g), OrMeant(f, m, r))
  BY <1>1, <1>2, <1>4, <1>6, OrStepMeans
<1>7. v \in Clause /\ Means(v, OrForm(f, g), OrMeant(f, m, r))
  BY <1>5, <1>6
<1> QED  BY <1>3, <1>7 DEF u, v

-----------------------------------------------------------------------------
(* The clauses of a behaviour *)

ClauseTypes ==
  /\ clause \in [{0, 1, 2} -> Clause]
  /\ meant \in [{0, 1, 2} -> SUBSET Assignments]
  /\ form \in [{0, 1, 2} -> Forms]

\* Every clause a client builds by itself means its expression.
FreeMeans == \A w \in Free : Means(clause[w], form[w], meant[w])

ClauseInv == ClauseTypes /\ FreeMeans

\* There is nothing yet.
LEMMA ClauseInit == Init => ClauseInv
<1> SUFFICES ASSUME Init  PROVE ClauseInv
  OBVIOUS
<1>1. ClauseTypes
  BY EmptySql DEF Init, ClauseTypes, Forms
<1>2. FreeMeans
  BY DEF Init, FreeMeans, Free, Means, Plain
<1> QED  BY <1>1, <1>2 DEF ClauseInv

\* One clause is replaced; if it is one of the client's it means its expression.
LEMMA ClauseChanges ==
  ASSUME ClauseInv, NEW w \in {0, 1, 2}, NEW v \in Clause, NEW f \in Forms,
         NEW m \in SUBSET Assignments, w \in Free => Means(v, f, m),
         clause' = [clause EXCEPT ![w] = v], meant' = [meant EXCEPT ![w] = m],
         form' = [form EXCEPT ![w] = f]
  PROVE  ClauseInv'
<1>1. ClauseTypes'
  BY DEF ClauseInv, ClauseTypes
<1>2. ASSUME NEW x \in Free  PROVE Means(clause[x], form[x], meant[x])'
  <2>1. CASE x = w
    <3>1. clause'[x] = v /\ form'[x] = f /\ meant'[x] = m
      BY <2>1 DEF ClauseInv, ClauseTypes
    <3> QED  BY <2>1, <3>1 DEF Means, Anded, Ored
  <2>2. CASE x # w
    <3>1. clause'[x] = clause[x] /\ form'[x] = form[x] /\ meant'[x] = meant[x]
      BY <2>2 DEF ClauseInv, ClauseTypes, Free
    <3>2. Means(clause[x], form[x], meant[x])
      BY DEF ClauseInv, FreeMeans
    <3> QED  BY <3>1, <3>2
  <2> QED  BY <2>1, <2>2
<1>3. FreeMeans'
  BY <1>2 DEF FreeMeans
<1> QED  BY <1>1, <1>3 DEF ClauseInv

\* Every step keeps the clauses in order.
LEMMA ClauseNext == ClauseInv /\ [Next]_vars => ClauseInv'
<1> SUFFICES ASSUME ClauseInv, [Next]_vars  PROVE ClauseInv'
  OBVIOUS
<1>u. ASSUME UNCHANGED clauseVars  PROVE ClauseInv'
  BY <1>u DEF clauseVars, ClauseInv, ClauseTypes, FreeMeans
<1>t. ASSUME NEW w \in {0, 1, 2}
      PROVE  clause[w] \in Clause /\ form[w] \in Forms /\ meant[w] \in SUBSET Assignments
  BY DEF ClauseInv, ClauseTypes
<1>m. ASSUME NEW w \in Free
      PROVE  w \in {0, 1, 2} /\ Means(clause[w], form[w], meant[w])
  BY DEF ClauseInv, FreeMeans, Free
<1>f. /\ "conjunction" \in Forms /\ "none" \in Forms
      /\ \A f, g \in Forms : AndForm(f, g) \in Forms /\ OrForm(f, g) \in Forms
      /\ \A f : \A l, r \in SUBSET Assignments :
           AndMeant(f, l, r) \in SUBSET Assignments /\ OrMeant(f, l, r) \in SUBSET Assignments
  BY DEF Forms, AndForm, OrForm, AndMeant, OrMeant
<1>c. ASSUME NEW c \in Conditions
      PROVE  /\ Truth(Condition(c)) \in SUBSET Assignments
             /\ ClauseOf(Condition(c)) \in Clause
             /\ \A w \in Clause : AndString(w, Condition(c)) \in Clause
  <2>1. Condition(c) \in Text
    BY ConditionIsText
  <2>2. Truth(Condition(c)) \in SUBSET Assignments
    BY DEF Truth
  <2>3. ClauseOf(Condition(c)) \in Clause
    BY <2>1, EmptySql, FirstText DEF ClauseOf
  <2>4. ASSUME NEW w \in Clause  PROVE AndString(w, Condition(c)) \in Clause
    <3>1. "mixed" \in Forms /\ Means(w, "mixed", {})
      BY DEF Forms, Means, Plain
    <3> QED  BY <3>1, StringMeans
  <2> QED  BY <2>2, <2>3, <2>4
<1>0. 0 \in {0, 1, 2} /\ 0 \notin Free
  BY DEF Free
<1>w. 1..MaxWhere \subseteq Conditions
  BY WhereAssumption, ParametersAssumption DEF Conditions
<1>1. CASE UNCHANGED vars
  BY <1>1, <1>u DEF vars
<1>2. CASE QueryStep
  <2>1. CASE UNCHANGED clauseVars
    BY <1>u, <2>1
  <2>2. ASSUME NEW c \in 1..MaxWhere, NEW o \in Operators, WhereOp(c, o)  PROVE ClauseInv'
    <3>1. c \in Conditions
      BY <1>w, <2>2
    <3> DEFINE v == ClauseOf(Condition(c))
               m == Truth(Condition(c))
    <3>2. v \in Clause /\ m \in SUBSET Assignments
      BY <1>c, <3>1
    <3>3. /\ clause' = [clause EXCEPT ![0] = v] /\ meant' = [meant EXCEPT ![0] = m]
          /\ form' = [form EXCEPT ![0] = "conjunction"]
      BY <2>2 DEF WhereOp
    <3> HIDE DEF v, m
    <3> QED  BY <1>0, <1>f, <3>2, <3>3, ClauseChanges
  <2>3. ASSUME NEW c \in 1..MaxWhere, UseClause(c)  PROVE ClauseInv'
    <3>1. c \in Conditions
      BY <1>w, <2>3
    <3> DEFINE v == ClauseOf(Condition(c))
               m == Truth(Condition(c))
    <3>2. v \in Clause /\ m \in SUBSET Assignments
      BY <1>c, <3>1
    <3>3. /\ clause' = [clause EXCEPT ![0] = v] /\ meant' = [meant EXCEPT ![0] = m]
          /\ form' = [form EXCEPT ![0] = "conjunction"]
      BY <2>3 DEF UseClause
    <3> HIDE DEF v, m
    <3> QED  BY <1>0, <1>f, <3>2, <3>3, ClauseChanges
  <2>4. ASSUME NEW c \in 1..MaxWhere, NEW o \in Operators, AppendAnd(c, o)  PROVE ClauseInv'
    <3>1. c \in Conditions
      BY <1>w, <2>4
    <3> DEFINE v == AndString(clause[0], Condition(c))
               f == AndForm(form[0], "conjunction")
               m == AndMeant(form[0], meant[0], Truth(Condition(c)))
    <3>2. v \in Clause /\ f \in Forms /\ m \in SUBSET Assignments
      BY <1>c, <1>f, <1>t, <3>1
    <3>3. /\ clause' = [clause EXCEPT ![0] = v] /\ meant' = [meant EXCEPT ![0] = m]
          /\ form' = [form EXCEPT ![0] = f]
      BY <2>4 DEF AppendAnd
    <3> HIDE DEF v, f, m
    <3> QED  BY <1>0, <3>2, <3>3, ClauseChanges
  <2>5. ASSUME NEW c \in 1..MaxWhere, NEW o \in Operators, AppendOr(c, o)  PROVE ClauseInv'
    <3>1. c \in Conditions
      BY <1>w, <2>5
    <3> DEFINE v == AndString(clause[0], Condition(c))
               f == OrForm(form[0], "conjunction")
               m == OrMeant(form[0], meant[0], Truth(Condition(c)))
    <3>2. v \in Clause /\ f \in Forms /\ m \in SUBSET Assignments
      BY <1>c, <1>f, <1>t, <3>1
    <3>3. /\ clause' = [clause EXCEPT ![0] = v] /\ meant' = [meant EXCEPT ![0] = m]
          /\ form' = [form EXCEPT ![0] = f]
      BY <2>5 DEF AppendOr
    <3> HIDE DEF v, f, m
    <3> QED  BY <1>0, <3>2, <3>3, ClauseChanges
  <2> QED  BY <1>2, <2>1, <2>2, <2>3, <2>4, <2>5 DEF QueryStep
<1>3. ASSUME NEW w \in Free, NEW c \in Conditions, ClauseAndText(w, c)  PROVE ClauseInv'
  <2> DEFINE v == AndString(clause[w], Condition(c))
             f == AndForm(form[w], "conjunction")
             m == AndMeant(form[w], meant[w], Truth(Condition(c)))
  <2>1. v \in Clause /\ Means(v, f, m)
    BY <1>m, <1>t, StringMeans
  <2>2. f \in Forms /\ m \in SUBSET Assignments
    BY <1>c, <1>f, <1>m, <1>t
  <2>3. /\ clause' = [clause EXCEPT ![w] = v] /\ meant' = [meant EXCEPT ![w] = m]
        /\ form' = [form EXCEPT ![w] = f]
    BY <1>3 DEF ClauseAndText
  <2> HIDE DEF v, f, m
  <2> QED  BY <1>m, <2>1, <2>2, <2>3, ClauseChanges
<1>4. ASSUME NEW w \in Free, NEW c \in Conditions, ClauseOrText(w, c)  PROVE ClauseInv'
  <2> DEFINE v == OrString(clause[w], Condition(c))
             f == OrForm(form[w], "conjunction")
             m == OrMeant(form[w], meant[w], Truth(Condition(c)))
  <2>1. v \in Clause /\ Means(v, f, m)
    BY <1>m, <1>t, StringMeans
  <2>2. f \in Forms /\ m \in SUBSET Assignments
    BY <1>c, <1>f, <1>m, <1>t
  <2>3. /\ clause' = [clause EXCEPT ![w] = v] /\ meant' = [meant EXCEPT ![w] = m]
        /\ form' = [form EXCEPT ![w] = f]
    BY <1>4 DEF ClauseOrText
  <2> HIDE DEF v, f, m
  <2> QED  BY <1>m, <2>1, <2>2, <2>3, ClauseChanges
<1>5. ASSUME NEW w \in Free, NEW x \in Free, ClauseAnd(w, x)  PROVE ClauseInv'
  <2> DEFINE v == AndClause(clause[w], clause[x])
             f == AndForm(form[w], form[x])
             m == AndMeant(form[w], meant[w], meant[x])
  <2>1. v \in Clause /\ Means(v, f, m)
    BY <1>m, <1>t, ClauseMeans
  <2>2. f \in Forms /\ m \in SUBSET Assignments
    BY <1>f, <1>m, <1>t
  <2>3. /\ clause' = [clause EXCEPT ![w] = v] /\ meant' = [meant EXCEPT ![w] = m]
        /\ form' = [form EXCEPT ![w] = f]
    BY <1>5 DEF ClauseAnd
  <2> HIDE DEF v, f, m
  <2> QED  BY <1>m, <2>1, <2>2, <2>3, ClauseChanges
<1>6. ASSUME NEW w \in Free, NEW x \in Free, ClauseOr(w, x)  PROVE ClauseInv'
  <2> DEFINE v == OrClause(clause[w], clause[x])
             f == OrForm(form[w], form[x])
             m == OrMeant(form[w], meant[w], meant[x])
  <2>1. v \in Clause /\ Means(v, f, m)
    BY <1>m, <1>t, ClauseMeans
  <2>2. f \in Forms /\ m \in SUBSET Assignments
    BY <1>f, <1>m, <1>t
  <2>3. /\ clause' = [clause EXCEPT ![w] = v] /\ meant' = [meant EXCEPT ![w] = m]
        /\ form' = [form EXCEPT ![w] = f]
    BY <1>6 DEF ClauseOr
  <2> HIDE DEF v, f, m
  <2> QED  BY <1>m, <2>1, <2>2, <2>3, ClauseChanges
<1>7. ASSUME NEW w \in Free, ClauseReset(w)  PROVE ClauseInv'
  <2>1. Means(EmptyClause, "none", {})
    BY DEF Means, Plain
  <2>2. EmptyClause \in Clause /\ "none" \in Forms /\ {} \in SUBSET Assignments
    BY EmptySql DEF Forms
  <2> QED  BY <1>7, <1>m, <2>1, <2>2, ClauseChanges DEF ClauseReset
<1>8. CASE ClauseStep
  BY <1>3, <1>4, <1>5, <1>6, <1>7, <1>8 DEF ClauseStep
<1>9. CASE Run
  BY <1>9, <1>u DEF Run
<1>10. CASE StatementStep
  BY <1>10, <1>u DEF StatementStep
<1> QED  BY <1>1, <1>2, <1>8, <1>9, <1>10 DEF Next

\* For any number of conditions and any nesting: a where_clause that was built
\* as a conjunction, or as a disjunction of conjunctions, is written as an SQL
\* text that is true exactly where the C++ expression is
\* (where_clause::generate_sql and its operators).
THEOREM ClausesMeanTheirExpressions == Spec => []ClauseMeansItsExpression
<1>1. ClauseInv => ClauseMeansItsExpression
  <2> SUFFICES ASSUME ClauseInv, NEW w \in Free, form[w] # "mixed"
               PROVE  WhereSql(clause[w]).ok /\ Truth(WhereSql(clause[w])) = meant[w]
    BY DEF ClauseMeansItsExpression
  <2>1. /\ clause[w] \in Clause /\ form[w] \in Forms
        /\ Means(clause[w], form[w], meant[w])
    BY DEF ClauseInv, ClauseTypes, FreeMeans, Free
  <2>2. TextMeans(WhereSql(clause[w]), form[w], meant[w])
    BY <2>1, WrittenMeans
  <2>3. CASE form[w] = "none"
    <3>1. WhereSql(clause[w]) = EmptyText /\ meant[w] = {}
      BY <2>2, <2>3 DEF TextMeans
    <3>2. EmptyText.ok
      BY DEF EmptyText
    <3> QED  BY <3>1, <3>2, EmptyIsFalse
  <2>4. CASE form[w] \in Plain
    BY <2>2, <2>4 DEF TextMeans, Sound
  <2> QED  BY <2>1, <2>3, <2>4 DEF Forms, Plain
<1> QED  BY <1>1, ClauseInit, ClauseNext, PTL DEF Spec
=============================================================================
