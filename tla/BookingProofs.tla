---------------------------- MODULE BookingProofs ----------------------------
(***************************************************************************)
(* Theorems about Booking, for every catalogue of units, every set of      *)
(* requests and any number of handlers; and about Groups, for every amount,*)
(* every party and any shares named by hand.                               *)
(*                                                                         *)
(* What both promise is about sums over sets that steps change.  The first *)
(* part proves what such sums need by induction over finite sets: of the   *)
(* sets a statement fails for, take one with the fewest elements; there is *)
(* one because < is well-founded on the naturals.                          *)
(***************************************************************************)
EXTENDS Booking, Groups, TLAPS, FiniteSetTheorems

(* Induction: what holds of every smaller set, and is not an exception, has no exception. *)

LEMMA LeastElement == ASSUME NEW T \in SUBSET Nat, T # {}
                      PROVE  \E m \in T : \A n \in T : m <= n
<1>1. PICK m \in T : \A n \in T : <<n, m>> \notin OpToRel(<, Nat)
  BY NatLessThanWellFounded, WFMin
<1>2. \A n \in T : ~ (n < m)
  BY <1>1 DEF OpToRel
<1>3. QED BY <1>2

LEMMA SmallestSet == ASSUME NEW S, IsFiniteSet(S), NEW B \in SUBSET SUBSET S, B # {}
                     PROVE  \E s \in B : \A u \in SUBSET s : u # s => u \notin B
<1> DEFINE Sizes == {Cardinality(s) : s \in B}
<1>1. \A s \in SUBSET S : IsFiniteSet(s) /\ Cardinality(s) \in Nat
  BY FS_Subset, FS_CardinalityType
<1>2. Sizes \in SUBSET Nat /\ Sizes # {}
  BY <1>1
<1>3. PICK n \in Sizes : \A i \in Sizes : n <= i
  BY <1>2, LeastElement
<1>4. PICK s \in B : Cardinality(s) = n
  OBVIOUS
<1>5. ASSUME NEW u \in SUBSET s, u # s PROVE u \notin B
  <2>1. Cardinality(u) <= Cardinality(s) /\ Cardinality(u) # Cardinality(s)
    BY <1>1, <1>5, FS_Subset
  <2>2. Cardinality(u) \in Nat /\ Cardinality(s) \in Nat
    BY <1>1
  <2>3. QED BY <1>3, <1>4, <2>1, <2>2
<1>6. QED BY <1>5

-----------------------------------------------------------------------------
(* What the library's sum of a function over a set amounts to. *)

Pick(s) == CHOOSE x \in s : TRUE
Sums(h, f, S) ==
    h = [s \in SUBSET S |-> IF s = {} THEN 0 ELSE f[Pick(s)] + h[s \ {Pick(s)}]]
Total(f, S) == (CHOOSE h : Sums(h, f, S))[S]

LEMMA TotalDef == ASSUME NEW f, NEW S PROVE SumFunctionOnSet(f, S) = Total(f, S)
  BY Zenon DEF SumFunctionOnSet, FoldFunctionOnSet, MapThenFoldSet, Total, Sums, Pick

LEMMA PickIn == ASSUME NEW s, s # {} PROVE Pick(s) \in s
  BY DEF Pick

LEMMA SumsAt == ASSUME NEW h, NEW f, NEW S, Sums(h, f, S)
                PROVE  \A s \in SUBSET S :
                         h[s] = IF s = {} THEN 0 ELSE f[Pick(s)] + h[s \ {Pick(s)}]
  BY Zenon DEF Sums

LEMMA SumsAgree == ASSUME NEW S, IsFiniteSet(S), NEW T \in SUBSET S,
                          NEW f, NEW e, \A x \in T : f[x] = e[x],
                          NEW h, Sums(h, f, S), NEW g, Sums(g, e, T)
                   PROVE  \A s \in SUBSET T : h[s] = g[s]
<1> DEFINE B == {s \in SUBSET T : h[s] # g[s]}
<1> SUFFICES ASSUME B # {} PROVE FALSE
  OBVIOUS
<1>1. IsFiniteSet(T) /\ B \in SUBSET SUBSET T
  BY FS_Subset
<1>2. \E s \in B : \A u \in SUBSET s : u # s => u \notin B
  <2> HIDE DEF B
  <2>1. QED BY <1>1, SmallestSet
<1>3. PICK s \in SUBSET T : h[s] # g[s] /\ \A u \in SUBSET s : u # s => h[u] = g[u]
  BY <1>2
<1>4. h[s] = IF s = {} THEN 0 ELSE f[Pick(s)] + h[s \ {Pick(s)}]
  <2>1. h = [u \in SUBSET S |-> IF u = {} THEN 0 ELSE f[Pick(u)] + h[u \ {Pick(u)}]]
    BY Zenon DEF Sums
  <2>2. QED BY ONLY <2>1, s \in SUBSET T, T \in SUBSET S
<1>5. g[s] = IF s = {} THEN 0 ELSE e[Pick(s)] + g[s \ {Pick(s)}]
  <2>1. g = [u \in SUBSET T |-> IF u = {} THEN 0 ELSE e[Pick(u)] + g[u \ {Pick(u)}]]
    BY Zenon DEF Sums
  <2>2. QED BY ONLY <2>1, s \in SUBSET T
<1>6. s # {} /\ Pick(s) \in s
  BY <1>3, <1>4, <1>5, PickIn
<1>7. h[s \ {Pick(s)}] = g[s \ {Pick(s)}]
  BY <1>3, <1>6
<1>8. f[Pick(s)] = e[Pick(s)]
  BY <1>6
<1>9. QED BY <1>3, <1>4, <1>5, <1>6, <1>7, <1>8

LEMMA SumsExist == ASSUME NEW S, IsFiniteSet(S), NEW f
                   PROVE  Sums(CHOOSE h : Sums(h, f, S), f, S)
<1> DEFINE Good(s) == \E h : Sums(h, f, s)
           Sol(s) == CHOOSE h : Sums(h, f, s)
           B == {s \in SUBSET S : ~ Good(s)}
<1>1. ASSUME NEW s, Good(s) PROVE Sums(Sol(s), f, s)
  BY ONLY <1>1, Zenon
<1> SUFFICES ASSUME B # {} PROVE FALSE
  BY <1>1
<1>2. \E s \in B : \A u \in SUBSET s : u # s => u \notin B
  <2>1. B \in SUBSET SUBSET S
    OBVIOUS
  <2> HIDE DEF B
  <2>2. QED BY <2>1, SmallestSet
<1> PICK s \in SUBSET S : ~ Good(s) /\ \A u \in SUBSET s : u # s => Good(u)
  BY <1>2
<1> IsFiniteSet(s)
  BY FS_Subset
<1>3. ASSUME NEW u \in SUBSET s, u # s PROVE Sums(Sol(u), f, u)
  BY <1>3, <1>1
<1> HIDE DEF Sol
<1>4. ASSUME NEW v \in SUBSET s, v # s, NEW w \in SUBSET v PROVE Sol(v)[w] = Sol(w)[w]
  <2>1. IsFiniteSet(v) /\ w # s /\ w \in SUBSET s
    BY <1>4, FS_Subset
  <2>2. Sums(Sol(v), f, v) /\ Sums(Sol(w), f, w)
    BY <1>3, <1>4, <2>1
  <2>3. QED BY <2>1, <2>2, SumsAgree
<1> DEFINE g == [u \in SUBSET s |->
                    IF u = {} THEN 0 ELSE f[Pick(u)] + Sol(u \ {Pick(u)})[u \ {Pick(u)}]]
<1>5. ASSUME NEW v \in SUBSET s, v # s PROVE g[v] = Sol(v)[v]
  <2>1. Sol(v)[v] = IF v = {} THEN 0 ELSE f[Pick(v)] + Sol(v)[v \ {Pick(v)}]
    BY <1>3, <1>5, SumsAt
  <2>2. Sol(v)[v \ {Pick(v)}] = Sol(v \ {Pick(v)})[v \ {Pick(v)}]
    BY <1>4, <1>5
  <2>3. QED BY <2>1, <2>2
<1>6. ASSUME NEW u \in SUBSET s, u # {}
      PROVE  g[u] = f[Pick(u)] + g[u \ {Pick(u)}]
  <2>1. u \ {Pick(u)} \in SUBSET s /\ u \ {Pick(u)} # s
    BY <1>6, PickIn
  <2>2. g[u \ {Pick(u)}] = Sol(u \ {Pick(u)})[u \ {Pick(u)}]
    BY <2>1, <1>5
  <2>3. QED BY <1>6, <2>2
<1>7. g[{}] = 0
  OBVIOUS
<1>8. g = [u \in SUBSET s |-> g[u]]
  OBVIOUS
<1> HIDE DEF g
<1>9. g = [u \in SUBSET s |-> IF u = {} THEN 0 ELSE f[Pick(u)] + g[u \ {Pick(u)}]]
  BY <1>6, <1>7, <1>8
<1>10. Sums(g, f, s)
  BY <1>9 DEF Sums
<1>11. QED BY <1>10

LEMMA TotalSame == ASSUME NEW S, IsFiniteSet(S), NEW f, NEW e, \A x \in S : f[x] = e[x]
                   PROVE  Total(f, S) = Total(e, S)
<1>1. Sums(CHOOSE h : Sums(h, f, S), f, S) /\ Sums(CHOOSE h : Sums(h, e, S), e, S)
  BY SumsExist
<1> DEFINE h == CHOOSE w : Sums(w, f, S)
           g == CHOOSE w : Sums(w, e, S)
<1>2. Total(f, S) = h[S] /\ Total(e, S) = g[S]
  BY Zenon DEF Total
<1>3. Sums(h, f, S) /\ Sums(g, e, S)
  BY <1>1
<1> HIDE DEF h, g
<1>4. \A s \in SUBSET S : h[s] = g[s]
  BY <1>3, SumsAgree
<1>5. QED BY <1>2, <1>4

LEMMA TotalRec == ASSUME NEW S, IsFiniteSet(S), NEW f
                  PROVE  Total(f, S) = IF S = {} THEN 0
                                       ELSE f[Pick(S)] + Total(f, S \ {Pick(S)})
<1> DEFINE h == CHOOSE g : Sums(g, f, S)
           R == S \ {Pick(S)}
           r == CHOOSE g : Sums(g, f, R)
<1>1. IsFiniteSet(R) /\ R \in SUBSET S
  BY FS_Subset
<1>2. Sums(h, f, S) /\ Sums(r, f, R)
  BY <1>1, SumsExist
<1>3. Total(f, S) = h[S] /\ Total(f, R) = r[R]
  BY Zenon DEF Total
<1> HIDE DEF h, r
<1>4. h[S] = IF S = {} THEN 0 ELSE f[Pick(S)] + h[R]
  BY <1>2, SumsAt
<1>5. h[R] = r[R]
  BY <1>1, <1>2, SumsAgree
<1>6. QED BY <1>3, <1>4, <1>5

LEMMA SumEmpty == ASSUME NEW f, NEW S, S = {} PROVE SumFunctionOnSet(f, S) = 0
  BY TotalDef, TotalRec, FS_EmptySet

LEMMA SumPick == ASSUME NEW S, IsFiniteSet(S), NEW f, S # {}
                 PROVE  SumFunctionOnSet(f, S) = f[Pick(S)] + SumFunctionOnSet(f, S \ {Pick(S)})
  BY TotalDef, TotalRec

LEMMA SumSame == ASSUME NEW S, IsFiniteSet(S), NEW f, NEW e, \A x \in S : f[x] = e[x]
                 PROVE  SumFunctionOnSet(f, S) = SumFunctionOnSet(e, S)
  BY TotalDef, TotalSame

-----------------------------------------------------------------------------
(* Finite sums of integers. *)

LEMMA SumType == ASSUME NEW S, IsFiniteSet(S), NEW f, \A x \in S : f[x] \in Int
                 PROVE  SumFunctionOnSet(f, S) \in Int
<1> DEFINE B == {s \in SUBSET S : SumFunctionOnSet(f, s) \notin Int}
<1> SUFFICES ASSUME B # {} PROVE FALSE
  OBVIOUS
<1>1. \E s \in B : \A u \in SUBSET s : u # s => u \notin B
  <2>1. B \in SUBSET SUBSET S
    OBVIOUS
  <2> HIDE DEF B
  <2>2. QED BY <2>1, SmallestSet
<1>2. PICK s \in SUBSET S : /\ SumFunctionOnSet(f, s) \notin Int
                            /\ \A u \in SUBSET s : u # s => SumFunctionOnSet(f, u) \in Int
  BY <1>1
<1>3. IsFiniteSet(s) /\ s # {}
  BY <1>2, FS_Subset, SumEmpty
<1>4. SumFunctionOnSet(f, s) = f[Pick(s)] + SumFunctionOnSet(f, s \ {Pick(s)})
  BY <1>3, SumPick
<1>5. Pick(s) \in s
  BY <1>3, PickIn
<1>6. SumFunctionOnSet(f, s \ {Pick(s)}) \in Int
  BY <1>2, <1>5
<1>7. QED BY <1>2, <1>4, <1>5, <1>6

LEMMA SumRemove == ASSUME NEW S, IsFiniteSet(S), NEW f, \A x \in S : f[x] \in Int, NEW x \in S
                   PROVE  SumFunctionOnSet(f, S) = f[x] + SumFunctionOnSet(f, S \ {x})
<1> DEFINE Out(s, y) == SumFunctionOnSet(f, s) = f[y] + SumFunctionOnSet(f, s \ {y})
           B == {s \in SUBSET S : \E y \in s : ~ Out(s, y)}
<1> SUFFICES ASSUME B # {} PROVE FALSE
  BY S \in SUBSET S
<1>1. \E s \in B : \A u \in SUBSET s : u # s => u \notin B
  <2>1. B \in SUBSET SUBSET S
    OBVIOUS
  <2> HIDE DEF B
  <2>2. QED BY <2>1, SmallestSet
<1> HIDE DEF Out
<1>2. PICK s \in SUBSET S : /\ \E y \in s : ~ Out(s, y)
                            /\ \A u \in SUBSET s : u # s => \A y \in u : Out(u, y)
  BY <1>1
<1>3. PICK y \in s : ~ Out(s, y)
  BY <1>2
<1> USE DEF Out
<1> DEFINE p == Pick(s)
           rest == SumFunctionOnSet(f, (s \ {p}) \ {y})
<1>4. IsFiniteSet(s) /\ s # {} /\ p \in s
  BY FS_Subset, PickIn
<1>5. Out(s, p)
  BY <1>4, SumPick
<1>6. p # y
  BY <1>3, <1>5
<1>7. Out(s \ {p}, y)
  BY <1>2, <1>4, <1>6
<1>8. Out(s \ {y}, p)
  BY <1>2, <1>4, <1>6
<1>9. (s \ {y}) \ {p} = (s \ {p}) \ {y}
  OBVIOUS
<1>10. rest \in Int /\ f[p] \in Int /\ f[y] \in Int
  <2>1. IsFiniteSet((s \ {p}) \ {y})
    BY FS_Subset
  <2>2. QED BY <2>1, <1>4, SumType
<1>11. /\ SumFunctionOnSet(f, s) = f[p] + (f[y] + rest)
       /\ SumFunctionOnSet(f, s \ {y}) = f[p] + rest
  BY <1>5, <1>7, <1>8, <1>9
<1>12. SumFunctionOnSet(f, s) = f[y] + SumFunctionOnSet(f, s \ {y})
  BY ONLY <1>10, <1>11
<1>13. QED BY <1>3, <1>12

LEMMA SumAdd == ASSUME NEW S, IsFiniteSet(S), NEW f, NEW x, x \notin S,
                       \A y \in S \cup {x} : f[y] \in Int
                PROVE  SumFunctionOnSet(f, S \cup {x}) = f[x] + SumFunctionOnSet(f, S)
<1>1. IsFiniteSet(S \cup {x}) /\ (S \cup {x}) \ {x} = S
  BY FS_AddElement
<1>2. QED BY <1>1, SumRemove

LEMMA SumDisjoint == ASSUME NEW S, IsFiniteSet(S), NEW T, IsFiniteSet(T), S \cap T = {},
                            NEW f, \A x \in S \cup T : f[x] \in Int
                     PROVE  SumFunctionOnSet(f, S \cup T)
                              = SumFunctionOnSet(f, S) + SumFunctionOnSet(f, T)
<1> DEFINE Splits(t) == SumFunctionOnSet(f, S \cup t)
                          = SumFunctionOnSet(f, S) + SumFunctionOnSet(f, t)
           B == {t \in SUBSET T : ~ Splits(t)}
<1> SUFFICES ASSUME B # {} PROVE FALSE
  BY T \in SUBSET T
<1>1. \E t \in B : \A u \in SUBSET t : u # t => u \notin B
  <2>1. B \in SUBSET SUBSET T
    OBVIOUS
  <2> HIDE DEF B
  <2>2. QED BY <2>1, SmallestSet
<1>2. PICK t \in SUBSET T : ~ Splits(t) /\ \A u \in SUBSET t : u # t => Splits(u)
  BY <1>1
<1>3. SumFunctionOnSet(f, S) \in Int
  BY SumType
<1>4. ASSUME t = {} PROVE FALSE
  <2>1. SumFunctionOnSet(f, t) = 0 /\ S \cup t = S
    BY <1>4, SumEmpty
  <2>2. SumFunctionOnSet(f, S \cup t) = SumFunctionOnSet(f, S)
    BY <2>1, Zenon
  <2>3. QED BY <1>2, <1>3, <2>1, <2>2
<1>5. PICK y \in t : TRUE
  BY <1>4
<1> DEFINE u == t \ {y}
<1>6. Splits(u)
  BY <1>2
<1>7. IsFiniteSet(t) /\ IsFiniteSet(u) /\ IsFiniteSet(S \cup u)
  BY FS_Subset, FS_Union
<1>8. SumFunctionOnSet(f, t) = f[y] + SumFunctionOnSet(f, u)
  BY <1>7, SumRemove
<1>9. SumFunctionOnSet(f, S \cup t) = f[y] + SumFunctionOnSet(f, S \cup u)
  <2>1. y \notin S \cup u /\ S \cup t = (S \cup u) \cup {y}
    OBVIOUS
  <2>2. \A x \in (S \cup u) \cup {y} : f[x] \in Int
    OBVIOUS
  <2> HIDE DEF u
  <2>3. QED BY <1>7, <2>1, <2>2, SumAdd
<1>10. f[y] \in Int /\ SumFunctionOnSet(f, u) \in Int
  BY <1>7, SumType
<1>11. QED BY <1>2, <1>3, <1>6, <1>8, <1>9, <1>10

LEMMA SumNat == ASSUME NEW S, IsFiniteSet(S), NEW f, \A x \in S : f[x] \in Nat
                PROVE  SumFunctionOnSet(f, S) \in Nat
<1> DEFINE B == {s \in SUBSET S : SumFunctionOnSet(f, s) \notin Nat}
<1> SUFFICES ASSUME B # {} PROVE FALSE
  OBVIOUS
<1>1. \E s \in B : \A u \in SUBSET s : u # s => u \notin B
  <2>1. B \in SUBSET SUBSET S
    OBVIOUS
  <2> HIDE DEF B
  <2>2. QED BY <2>1, SmallestSet
<1>2. PICK s \in SUBSET S : /\ SumFunctionOnSet(f, s) \notin Nat
                            /\ \A u \in SUBSET s : u # s => SumFunctionOnSet(f, u) \in Nat
  BY <1>1
<1>3. IsFiniteSet(s) /\ s # {}
  BY <1>2, FS_Subset, SumEmpty
<1>4. SumFunctionOnSet(f, s) = f[Pick(s)] + SumFunctionOnSet(f, s \ {Pick(s)})
  BY <1>3, SumPick
<1>5. Pick(s) \in s
  BY <1>3, PickIn
<1>6. SumFunctionOnSet(f, s \ {Pick(s)}) \in Nat
  BY <1>2, <1>5
<1>7. QED BY <1>2, <1>4, <1>5, <1>6

LEMMA SumMonotone == ASSUME NEW S, IsFiniteSet(S), NEW T \in SUBSET S,
                            NEW f, \A x \in S : f[x] \in Nat
                     PROVE  SumFunctionOnSet(f, T) <= SumFunctionOnSet(f, S)
<1> DEFINE R == S \ T
<1>1. IsFiniteSet(T) /\ IsFiniteSet(R) /\ T \cap R = {} /\ T \cup R = S
  BY FS_Subset
<1>2. SumFunctionOnSet(f, T) \in Nat /\ SumFunctionOnSet(f, R) \in Nat
  BY <1>1, SumNat
<1> HIDE DEF R
<1>3. SumFunctionOnSet(f, S) = SumFunctionOnSet(f, T) + SumFunctionOnSet(f, R)
  BY <1>1, SumDisjoint
<1>4. QED BY <1>2, <1>3

LEMMA MaxOfNaturals == ASSUME NEW T \in SUBSET Nat, T # {}, NEW n \in Nat, \A x \in T : x <= n
                       PROVE  Max(T) \in T /\ \A x \in T : x <= Max(T)
<1> DEFINE U == {y \in Nat : \A x \in T : x <= y}
<1>1. PICK m \in U : \A y \in U : m <= y
  <2>1. U \in SUBSET Nat /\ n \in U
    OBVIOUS
  <2> HIDE DEF U
  <2>2. QED BY <2>1, LeastElement
<1>2. m \in T
  <2> SUFFICES ASSUME m \notin T PROVE FALSE
    OBVIOUS
  <2>1. \A x \in T : x <= m /\ x # m
    BY <1>1
  <2>2. PICK x \in T : x <= m /\ x # m
    BY <2>1
  <2>3. m - 1 \in U
    BY <2>1, <2>2
  <2>4. QED BY <1>1, <2>3
<1>3. \A x \in T : m >= x
  BY <1>1
<1>4. QED BY <1>2, <1>3, Zenon DEF Max

-----------------------------------------------------------------------------
(* Booking: what the variables are. *)

\* A handler that is not idle, or that was answered, remembers its request, and one that
\* is about to write a status remembers whose.
LocalsOK ==
    /\ \A c \in Caller : attempt[c].pc # "idle" => attempt[c].request \in Request
    /\ \A h \in Desk : desk[h].key # NoKey => desk[h].key \in Rows

LEMMA TypeInit == Init => TypeOK /\ LocalsOK
  BY ConstantsAssumption
     DEF Init, TypeOK, LocalsOK, Status, HOLDS_INVENTORY, Attempt, DeskState, IdleDesk

\* A handler's record is replaced by another of the same type.
LEMMA AttemptStep == ASSUME TypeOK, LocalsOK, NEW c \in Caller, NEW a \in Attempt,
                            a.pc # "idle" => a.request \in Request,
                            attempt' = [attempt EXCEPT ![c] = a]
                     PROVE  /\ attempt' \in [Caller -> Attempt]
                            /\ \A d \in Caller : attempt'[d].pc # "idle" =>
                                                    attempt'[d].request \in Request
  BY DEF TypeOK, LocalsOK

LEMMA AnswersStep == ASSUME TypeOK, LocalsOK, NEW c \in Caller, NEW a \in Answer,
                            InProgress(c), Answers(c, a)
                     PROVE  /\ attempt' \in [Caller -> Attempt]
                            /\ \A d \in Caller : attempt'[d].pc # "idle" =>
                                                    attempt'[d].request \in Request
<1> DEFINE new == [attempt[c] EXCEPT !.pc = a, !.known = {}]
<1>1. attempt[c] \in Attempt /\ attempt[c].request \in Request
  BY DEF TypeOK, LocalsOK, InProgress
<1>2. new \in Attempt /\ new.request \in Request
  BY <1>1 DEF Attempt
<1>3. attempt' = [attempt EXCEPT ![c] = new]
  BY DEF Answers, TypeOK
<1>4. QED BY <1>2, <1>3, AttemptStep

LEMMA TypeStep == ASSUME TypeOK, LocalsOK, [Next]_vars
                  PROVE  TypeOK' /\ LocalsOK'
<1> USE DEF TypeOK, LocalsOK
<1>1. ASSUME NEW c \in Caller, priceAndCheck(c) PROVE TypeOK' /\ LocalsOK'
  <2>1. PICK q \in Request : priceAndCheck(c)!(q)
    BY ONLY <1>1 DEF priceAndCheck
  <2> DEFINE new == [pc |-> IF checkAvailability(q) THEN "priced" ELSE "conflict",
                     request |-> q, known |-> {}]
  <2>2. new \in Attempt /\ new.request \in Request
    BY DEF Attempt, Answer
  <2>3. attempt' = [attempt EXCEPT ![c] = new]
    BY ONLY <2>1
  <2>4. UNCHANGED <<row, status, cancelledAt, blocks, desk>>
    BY ONLY <2>1
  <2> HIDE DEF new
  <2>5. attempt' \in [Caller -> Attempt]
        /\ \A d \in Caller : attempt'[d].pc # "idle" => attempt'[d].request \in Request
    BY <2>2, <2>3, AttemptStep
  <2>6. QED BY <2>4, <2>5 DEF Rows
<1>2. ASSUME NEW c \in Caller, BeginBooking(c) PROVE TypeOK' /\ LocalsOK'
  <2>1. UNCHANGED <<row, status, cancelledAt, blocks, desk>> /\ InProgress(c)
    BY <1>2 DEF BeginBooking, InProgress
  <2>2. CASE Answers(c, "conflict")
    BY <2>1, <2>2, AnswersStep DEF Answer, Rows
  <2>3. CASE attempt' = [attempt EXCEPT ![c].pc = "booking", ![c].known = Rows]
    <3> DEFINE new == [attempt[c] EXCEPT !.pc = "booking", !.known = Rows]
    <3>1. new \in Attempt /\ new.request \in Request
      BY <2>1 DEF Attempt, InProgress, Rows
    <3>2. attempt' = [attempt EXCEPT ![c] = new]
      BY <2>3
    <3> HIDE DEF new
    <3>3. attempt' \in [Caller -> Attempt]
          /\ \A d \in Caller : attempt'[d].pc # "idle" => attempt'[d].request \in Request
      BY <3>1, <3>2, AttemptStep
    <3>4. QED BY <2>1, <3>3 DEF Rows
  <2>4. QED BY <1>2, <2>2, <2>3 DEF BeginBooking
<1>3. ASSUME NEW c \in Caller, CommitBooking(c) PROVE TypeOK' /\ LocalsOK'
  <2> DEFINE q == attempt[c].request
  <2>1. /\ q \in Request /\ q.key \in Key
        /\ row' = [row EXCEPT ![q.key] = q]
        /\ Answers(c, "created") /\ InProgress(c)
        /\ UNCHANGED <<status, cancelledAt, blocks, desk>>
    BY <1>3, ConstantsAssumption DEF CommitBooking, InProgress
  <2>2. attempt' \in [Caller -> Attempt]
        /\ \A d \in Caller : attempt'[d].pc # "idle" => attempt'[d].request \in Request
    BY <2>1, AnswersStep DEF Answer
  <2>3. row' \in [Key -> Request \cup {NoRequest}]
        /\ \A k \in Key : row'[k] # NoRequest => row'[k].key = k
    BY <2>1
  <2>4. Rows \subseteq Rows'
    BY <2>1, ConstantsAssumption DEF Rows
  <2>5. QED BY <2>1, <2>2, <2>3, <2>4
<1>4. ASSUME NEW c \in Caller, KeyTaken(c) \/ AbortBooking(c) PROVE TypeOK' /\ LocalsOK'
  <2>1. PICK a \in Answer : Answers(c, a)
    BY <1>4 DEF KeyTaken, AbortBooking, Answer
  <2>2. InProgress(c) /\ UNCHANGED <<row, status, cancelledAt, blocks, desk>>
    BY <1>4 DEF KeyTaken, AbortBooking, InProgress
  <2>3. attempt' \in [Caller -> Attempt]
        /\ \A d \in Caller : attempt'[d].pc # "idle" => attempt'[d].request \in Request
    BY <2>1, <2>2, AnswersStep
  <2>4. QED BY <2>2, <2>3 DEF Rows
<1>5. ASSUME NEW h \in Desk, NEW k \in Key, ReadStatus(h, k) PROVE TypeOK' /\ LocalsOK'
  <2>1. PICK m \in Move : ReadStatus(h, k)!(m)
    BY ONLY <1>5 DEF ReadStatus
  <2>2. m.to \in Status
    BY DEF Move, Status, HOLDS_INVENTORY
  <2>3. [key |-> k, to |-> m.to] \in DeskState
    BY <2>2 DEF DeskState
  <2>4. QED BY <2>1, <2>3 DEF Rows
<1>6. ASSUME NEW h \in Desk, WriteStatus(h) PROVE TypeOK' /\ LocalsOK'
  <2>1. desk[h] \in DeskState /\ desk[h].key \in Rows
    BY <1>6 DEF WriteStatus
  <2>2. desk[h].key \in Key /\ desk[h].to \in Status
    BY <2>1 DEF DeskState, Rows
  <2>3. IdleDesk \in DeskState /\ IdleDesk.key = NoKey
    BY DEF IdleDesk, DeskState, Status
  <2>4. QED BY <1>6, <2>2, <2>3 DEF WriteStatus, Rows
<1>7. ASSUME NEW k \in Key, ConfirmPaid(k) PROVE TypeOK' /\ LocalsOK'
  BY <1>7 DEF ConfirmPaid, Rows, Status, HOLDS_INVENTORY
<1>8. ASSUME NEW x \in Block, CreateBlock(x) \/ DeleteBlock(x) PROVE TypeOK' /\ LocalsOK'
  BY <1>8 DEF CreateBlock, DeleteBlock, Rows
<1>9. CASE UNCHANGED vars
  BY <1>9 DEF vars, Rows
<1>10. QED
  BY <1>1, <1>2, <1>3, <1>4, <1>5, <1>6, <1>7, <1>8, <1>9 DEF Next

\* Every variable keeps its type, and every row stays under its own key (Booking).
THEOREM BookingTypes == Spec => [](TypeOK /\ LocalsOK)
<1>1. QED BY TypeInit, TypeStep, PTL DEF Spec
-----------------------------------------------------------------------------
\* No step touches a row that exists: a booking is never made twice under one key.
LEMMA RowsStand == ASSUME TypeOK, LocalsOK, [Next]_vars, NEW k \in Rows
                   PROVE  k \in Rows' /\ row'[k] = row[k]
<1>1. CASE UNCHANGED row
  BY <1>1 DEF Rows
<1>2. ASSUME NEW c \in Caller, CommitBooking(c) PROVE k \in Rows' /\ row'[k] = row[k]
  <2>1. attempt[c].request.key # k /\ row' = [row EXCEPT ![attempt[c].request.key] = attempt[c].request]
    BY <1>2 DEF CommitBooking
  <2>2. QED BY <2>1 DEF Rows, TypeOK
<1>3. QED
  BY <1>1, <1>2 DEF Next, vars, priceAndCheck, BeginBooking, KeyTaken, AbortBooking,
     ReadStatus, WriteStatus, ConfirmPaid, CreateBlock, DeleteBlock

LEMMA AnsweredStep == ASSUME TypeOK, LocalsOK, AnsweredIsBooked, [Next]_vars
                      PROVE  AnsweredIsBooked'
<1> SUFFICES ASSUME NEW c \in Caller, attempt'[c].pc \in {"created", "reused"}
             PROVE  LET q == attempt'[c].request IN
                    q.key \in Rows' /\ row'[q.key].guest = q.guest
  BY DEF AnsweredIsBooked
<1>1. CASE attempt'[c] = attempt[c]
  BY <1>1, RowsStand DEF AnsweredIsBooked
<1>2. CASE CommitBooking(c)
  <2> DEFINE q == attempt[c].request
  <2>1. /\ q \in Request /\ q.key \in Key /\ q # NoRequest
        /\ row' = [row EXCEPT ![q.key] = q]
    BY <1>2, ConstantsAssumption DEF CommitBooking, LocalsOK
  <2>2. attempt'[c].request = q
    BY <1>2 DEF CommitBooking, Answers, TypeOK, Attempt
  <2>3. row'[q.key] = q
    BY <2>1 DEF TypeOK
  <2>4. QED BY <2>1, <2>2, <2>3 DEF Rows
<1>3. CASE KeyTaken(c)
  <2> DEFINE q == attempt[c].request
  <2>1. /\ attempt'[c].request = q
        /\ attempt'[c].pc = IF row[q.key].guest = q.guest THEN "reused" ELSE "conflict"
        /\ q.key \in Rows /\ row' = row
    BY <1>3 DEF KeyTaken, Answers, TypeOK, Attempt
  <2>2. row[q.key].guest = q.guest
    BY <2>1
  <2>3. QED BY <2>1, <2>2 DEF Rows
<1>4. ASSUME priceAndCheck(c) \/ BeginBooking(c) \/ AbortBooking(c) PROVE FALSE
  BY <1>4 DEF priceAndCheck, BeginBooking, AbortBooking, Answers, TypeOK, Attempt
<1>5. ASSUME NEW d \in Caller, d # c,
             \/ priceAndCheck(d) \/ BeginBooking(d) \/ CommitBooking(d)
             \/ KeyTaken(d) \/ AbortBooking(d)
      PROVE  attempt'[c] = attempt[c]
  BY <1>5 DEF priceAndCheck, BeginBooking, CommitBooking, KeyTaken, AbortBooking, Answers, TypeOK
<1>6. CASE UNCHANGED attempt
  BY <1>1, <1>6
<1>7. QED
  BY <1>1, <1>2, <1>3, <1>4, <1>5, <1>6
     DEF Next, vars, ReadStatus, WriteStatus, ConfirmPaid, CreateBlock, DeleteBlock

\* Whoever is told that a booking was made has one, however many requests share keys,
\* overlap or are sent again (createBooking).
THEOREM AnsweredIsBookedAlways == Spec => []AnsweredIsBooked
<1>1. Init => AnsweredIsBooked
  BY DEF Init, AnsweredIsBooked
<1>2. QED BY <1>1, AnsweredStep, BookingTypes, PTL DEF Spec

\* A late payment revives no cancelled booking: only a handler that had read the row
\* before it was cancelled writes over it (the webhook's conditional update).
THEOREM PaymentNeverRevivesAlways == Spec => PaymentNeverRevives
<1>1. ASSUME TypeOK, LocalsOK, Next, NEW k \in Key, status[k] = "CANCELLED",
             status'[k] # "CANCELLED"
      PROVE  \E h \in Desk : desk[h].key = k /\ desk'[h].key = NoKey
  <2>1. CASE UNCHANGED status
    BY <1>1, <2>1
  <2>2. ASSUME NEW j \in Key, ConfirmPaid(j) PROVE FALSE
    BY <1>1, <2>2 DEF ConfirmPaid, TypeOK
  <2>3. ASSUME NEW h \in Desk, WriteStatus(h)
        PROVE  desk[h].key = k /\ desk'[h].key = NoKey
    BY <1>1, <2>3 DEF WriteStatus, TypeOK, IdleDesk
  <2>4. QED
    BY <1>1, <2>1, <2>2, <2>3 DEF Next, priceAndCheck, BeginBooking, CommitBooking,
       KeyTaken, AbortBooking, ReadStatus, CreateBlock, DeleteBlock
<1>2. TypeOK /\ LocalsOK /\ [Next]_vars =>
        [\A k \in Key : status[k] = "CANCELLED" /\ status'[k] # "CANCELLED" =>
            \E h \in Desk : desk[h].key = k /\ desk'[h].key = NoKey]_vars
  BY <1>1
<1>3. QED BY <1>2, BookingTypes, PTL DEF Spec, PaymentNeverRevives

-----------------------------------------------------------------------------
(* Booking: the inventory. *)

\* The rooms of unit u that the stays of S take at instant t, by the requests r they were made from.
Nights(r, S, u, t) == {k \in S : r[k].unit = u /\ r[k].from <= t /\ t < r[k].to}
Takes(r, S, u, t) == SumFunctionOnSet([k \in S |-> r[k].rooms], Nights(r, S, u, t))

Standing == Rows \ cancelledAt

CancelledOK ==
    /\ IsFiniteSet(Rows)
    /\ cancelledAt \subseteq Rows
    /\ \A k \in Key : status[k] = "CANCELLED" => k \in cancelledAt

\* What stands fits, and what stood in the snapshot of an open transaction leaves room
\* for its booking.
StandingFits == \A u \in Unit, t \in Nat : Takes(row, Standing, u, t) <= totalRooms(u)
SnapshotFits ==
    \A c \in Caller : attempt[c].pc = "booking" =>
        /\ attempt[c].known \subseteq Rows
        /\ \A t \in attempt[c].request.from .. attempt[c].request.to - 1 :
             Takes(row, attempt[c].known \ cancelledAt, attempt[c].request.unit, t)
               + attempt[c].request.rooms <= totalRooms(attempt[c].request.unit)

LEMMA RequestType == ASSUME NEW q \in Request
                     PROVE  /\ q # NoRequest
                            /\ q.key \in Key /\ q.unit \in Unit
                            /\ q.from \in Nat /\ q.to \in Nat /\ q.from < q.to
                            /\ q.rooms \in Nat /\ q.rooms > 0
  BY ConstantsAssumption

LEMMA RowType == ASSUME TypeOK, NEW k \in Rows PROVE k \in Key /\ row[k] \in Request
  BY DEF TypeOK, Rows

LEMMA totalRoomsType == ASSUME NEW u \in Unit PROVE totalRooms(u) \in Nat
  BY ConstantsAssumption DEF totalRooms, Unit

\* Fewer stays take no more rooms; which stays they are is all that counts.
LEMMA TakesMore ==
    ASSUME NEW S, IsFiniteSet(S), NEW T \in SUBSET S, NEW r, \A k \in S : r[k] \in Request,
           NEW e, \A k \in T : e[k] = r[k], NEW u, NEW t
    PROVE  /\ Takes(r, S, u, t) \in Nat /\ Takes(e, T, u, t) \in Nat
           /\ Takes(e, T, u, t) <= Takes(r, S, u, t)
<1> DEFINE f == [k \in S |-> r[k].rooms]
           g == [k \in T |-> e[k].rooms]
<1>1. Nights(e, T, u, t) \in SUBSET Nights(r, S, u, t) /\ Nights(r, S, u, t) \in SUBSET S
      /\ Nights(e, T, u, t) \in SUBSET T
  BY DEF Nights
<1>2. IsFiniteSet(Nights(e, T, u, t)) /\ IsFiniteSet(Nights(r, S, u, t))
  BY <1>1, FS_Subset
<1>3. \A k \in Nights(r, S, u, t) : f[k] \in Nat
  BY <1>1, RequestType
<1>4. \A k \in Nights(e, T, u, t) : g[k] = f[k]
  BY <1>1
<1> HIDE DEF f, g
<1>5. SumFunctionOnSet(g, Nights(e, T, u, t)) = SumFunctionOnSet(f, Nights(e, T, u, t))
  BY <1>2, <1>4, SumSame
<1>6. /\ SumFunctionOnSet(f, Nights(e, T, u, t)) \in Nat
      /\ SumFunctionOnSet(f, Nights(r, S, u, t)) \in Nat
      /\ SumFunctionOnSet(f, Nights(e, T, u, t)) <= SumFunctionOnSet(f, Nights(r, S, u, t))
  BY <1>1, <1>2, <1>3, SumNat, SumMonotone
<1>7. QED BY <1>5, <1>6 DEF Takes, f, g

\* One more stay takes its rooms on its nights, and nothing elsewhere.
LEMMA TakesOneMore ==
    ASSUME NEW S, IsFiniteSet(S), NEW r, \A k \in S : r[k] \in Request,
           NEW x, x \notin S, NEW e, \A k \in S : e[k] = r[k], e[x] \in Request, NEW u, NEW t
    PROVE  Takes(e, S \cup {x}, u, t)
             = Takes(r, S, u, t) + (IF x \in Nights(e, {x}, u, t) THEN e[x].rooms ELSE 0)
<1> DEFINE N == Nights(r, S, u, t)
           M == Nights(e, S \cup {x}, u, t)
           f == [k \in S |-> r[k].rooms]
           g == [k \in S \cup {x} |-> e[k].rooms]
<1>1. N \in SUBSET S /\ IsFiniteSet(N) /\ x \notin N
  BY FS_Subset DEF Nights
<1>2. \A k \in N \cup {x} : g[k] \in Int
  BY <1>1, RequestType
<1>3. \A k \in N : f[k] = g[k]
  BY <1>1
<1>4. g[x] = e[x].rooms
  OBVIOUS
<1>5. M = IF x \in Nights(e, {x}, u, t) THEN N \cup {x} ELSE N
  BY DEF Nights
<1>6. Takes(e, S \cup {x}, u, t) = SumFunctionOnSet(g, M) /\ Takes(r, S, u, t) = SumFunctionOnSet(f, N)
  BY DEF Takes
<1> HIDE DEF N, M, f, g
<1>7. SumFunctionOnSet(f, N) = SumFunctionOnSet(g, N) /\ SumFunctionOnSet(g, N) \in Int
  BY <1>1, <1>2, <1>3, SumSame, SumType
<1>8. SumFunctionOnSet(g, N \cup {x}) = g[x] + SumFunctionOnSet(g, N)
  BY <1>1, <1>2, SumAdd
<1>9. g[x] \in Int
  BY <1>2
<1>10. CASE x \in Nights(e, {x}, u, t)
  <2>1. SumFunctionOnSet(g, M) = SumFunctionOnSet(g, N \cup {x})
    BY <1>5, <1>10, Zenon
  <2>2. QED BY <1>4, <1>6, <1>7, <1>8, <1>9, <1>10, <2>1
<1>11. CASE x \notin Nights(e, {x}, u, t)
  <2>1. SumFunctionOnSet(g, M) = SumFunctionOnSet(g, N)
    BY <1>5, <1>11, Zenon
  <2>2. QED BY <1>6, <1>7, <1>11, <2>1
<1>12. QED BY <1>10, <1>11

\* A sum of rooms over rows is a number, and no smaller over more of them.
LEMMA RoomsSum == ASSUME TypeOK, IsFiniteSet(Rows), NEW S \in SUBSET Rows, NEW T \in SUBSET S
                  PROVE  /\ SumFunctionOnSet(rooms, S) \in Nat
                         /\ SumFunctionOnSet(rooms, T) \in Nat
                         /\ SumFunctionOnSet(rooms, T) <= SumFunctionOnSet(rooms, S)
<1>1. IsFiniteSet(S) /\ IsFiniteSet(T)
  BY FS_Subset
<1>2. \A k \in S : rooms[k] \in Nat
  BY RowType, RequestType DEF rooms
<1>3. QED BY <1>1, <1>2, SumNat, SumMonotone

LEMMA RoomsAtType == ASSUME TypeOK, IsFiniteSet(Rows), NEW taken \in SUBSET Rows, NEW t
                     PROVE  /\ RoomsAt(taken, t) \in Nat
                            /\ RoomsAt(taken, t) <= SumFunctionOnSet(rooms, taken)
  BY RoomsSum DEF RoomsAt

\* Sold counts what the stays take.
LEMMA SoldIs == ASSUME TypeOK, IsFiniteSet(Rows), NEW S \in SUBSET Rows, NEW u, NEW t
                PROVE  Sold(S, u, t) = Takes(row, S, u, t)
<1> DEFINE f == [k \in S |-> row[k].rooms]
<1>1. {k \in {j \in S : row[j].unit = u} : row[k].from <= t /\ t < row[k].to} = Nights(row, S, u, t)
  BY DEF Nights
<1>2. Sold(S, u, t) = SumFunctionOnSet(rooms, Nights(row, S, u, t))
  BY <1>1, Zenon DEF Sold, RoomsAt
<1>3. IsFiniteSet(Nights(row, S, u, t)) /\ Nights(row, S, u, t) \in SUBSET S
  BY FS_Subset DEF Nights
<1>4. \A k \in Nights(row, S, u, t) : rooms[k] = f[k]
  BY <1>3 DEF rooms
<1> HIDE DEF f
<1>5. SumFunctionOnSet(rooms, Nights(row, S, u, t)) = SumFunctionOnSet(f, Nights(row, S, u, t))
  BY <1>3, <1>4, SumSame
<1>6. QED BY <1>2, <1>5 DEF Takes, f

\* Occupancy at any night of a stay is that of a night where a stay begins, or the first.
LEMMA PeakBounds ==
    ASSUME TypeOK, IsFiniteSet(Rows), NEW taken \in SUBSET Rows, NEW q \in Request
    PROVE  /\ peakOccupancy(taken, q) \in Nat
           /\ \E t \in q.from .. q.to - 1 : peakOccupancy(taken, q) = RoomsAt(taken, t)
           /\ \A t \in q.from .. q.to - 1 : RoomsAt(taken, t) <= peakOccupancy(taken, q)
<1> DEFINE boundaries == {q.from} \cup ({row[k].from : k \in taken} \cap (q.from + 1 .. q.to - 1))
           levels == {RoomsAt(taken, t) : t \in boundaries}
<1>1. q.from \in Nat /\ q.to \in Nat /\ q.from < q.to
  BY RequestType
<1>2. boundaries \subseteq q.from .. q.to - 1 /\ q.from \in boundaries
  BY <1>1
<1>3. SumFunctionOnSet(rooms, taken) \in Nat
  BY RoomsSum
<1>4. levels \in SUBSET Nat /\ levels # {} /\ \A x \in levels : x <= SumFunctionOnSet(rooms, taken)
  BY <1>2, RoomsAtType
<1>5. peakOccupancy(taken, q) = Max(levels)
  BY DEF peakOccupancy
<1>6. Max(levels) \in levels /\ \A x \in levels : x <= Max(levels)
  <2> HIDE DEF levels
  <2>1. QED BY <1>3, <1>4, MaxOfNaturals
<1>7. ASSUME NEW t \in q.from .. q.to - 1 PROVE RoomsAt(taken, t) <= Max(levels)
  <2> DEFINE before == {b \in boundaries : b <= t}
             b == Max(before)
  <2>1. before \in SUBSET Nat /\ q.from \in before /\ t \in Nat /\ \A x \in before : x <= t
    BY <1>1, <1>2
  <2>2. b \in before /\ \A x \in before : x <= b
    <3> HIDE DEF before
    <3>1. QED BY <2>1, MaxOfNaturals
  <2> HIDE DEF b
  <2> DEFINE atT == {k \in taken : row[k].from <= t /\ t < row[k].to}
             atB == {k \in taken : row[k].from <= b /\ b < row[k].to}
  <2>3. ASSUME NEW k \in atT PROVE k \in atB
    <3>1. row[k].from \in Nat /\ row[k].to \in Nat /\ b \in Nat /\ b <= t
      BY <2>1, <2>2, RowType, RequestType
    <3>2. CASE row[k].from <= q.from
      BY <1>1, <2>1, <2>2, <3>1, <3>2
    <3>3. CASE row[k].from > q.from
      <4>1. row[k].from \in boundaries
        BY <1>1, <2>1, <3>1, <3>3
      <4>2. row[k].from <= b
        BY <2>2, <4>1
      <4>3. QED BY <3>1, <4>2
    <3>4. QED BY <1>1, <3>1, <3>2, <3>3
  <2>4. RoomsAt(taken, t) <= RoomsAt(taken, b)
    <3>1. atB \in SUBSET Rows /\ atT \in SUBSET atB
      BY <2>3
    <3>2. QED BY <3>1, RoomsSum DEF RoomsAt
  <2>5. RoomsAt(taken, b) \in levels
    BY <2>2
  <2>6. RoomsAt(taken, t) \in Nat /\ RoomsAt(taken, b) \in Nat
    BY RoomsAtType
  <2> HIDE DEF levels
  <2>7. Max(levels) \in Nat
    BY <1>4, <1>6
  <2>8. QED BY <1>6, <2>4, <2>5, <2>6, <2>7
<1>8. QED BY <1>2, <1>4, <1>5, <1>6, <1>7

\* On a night of request q, the bookings that occupancyFor reads take as many rooms as all
\* that hold inventory and count for q.
LEMMA ExistingIsHeld ==
    ASSUME TypeOK, NEW q \in Request, NEW t \in q.from .. q.to - 1
    PROVE  RoomsAt(Existing(q), t) = RoomsAt({k \in Held : Counts(q, row[k])}, t)
<1>1. {k \in Existing(q) : row[k].from <= t /\ t < row[k].to}
        = {k \in {j \in Held : Counts(q, row[j])} : row[k].from <= t /\ t < row[k].to}
  <2>1. ASSUME NEW k \in Rows, row[k].from <= t, t < row[k].to PROVE Overlaps(row[k], q)
    BY <2>1, RowType, RequestType DEF Overlaps
  <2>2. QED BY <2>1 DEF Existing, Held
<1>2. QED BY <1>1, Zenon DEF RoomsAt

LEMMA PeakStep == ASSUME TypeOK, IsFiniteSet(Rows) PROVE PeakIsTheBusiestNight
<1> SUFFICES ASSUME NEW q \in Request
             PROVE  peakOccupancy(Existing(q), q)
                      = Max({RoomsAt({k \in Held : Counts(q, row[k])}, t) : t \in q.from .. q.to - 1})
  BY DEF PeakIsTheBusiestNight
<1> DEFINE peak == peakOccupancy(Existing(q), q)
           held == {k \in Held : Counts(q, row[k])}
           levels == {RoomsAt(held, t) : t \in q.from .. q.to - 1}
<1>1. Existing(q) \in SUBSET Rows
  BY DEF Existing
<1>2. /\ peak \in Nat
      /\ \E t \in q.from .. q.to - 1 : peak = RoomsAt(Existing(q), t)
      /\ \A t \in q.from .. q.to - 1 : RoomsAt(Existing(q), t) <= peak
  BY <1>1, PeakBounds
<1>3. \A t \in q.from .. q.to - 1 : RoomsAt(Existing(q), t) \in Nat
  BY <1>1, RoomsAtType
<1>4. \A t \in q.from .. q.to - 1 : RoomsAt(Existing(q), t) = RoomsAt(held, t)
  BY ExistingIsHeld
<1> HIDE DEF peak, held
<1>5. peak \in levels /\ levels \in SUBSET Nat /\ \A x \in levels : x <= peak
  BY <1>2, <1>3, <1>4
<1> HIDE DEF levels
<1>6. Max(levels) \in levels /\ \A x \in levels : x <= Max(levels)
  BY <1>2, <1>5, MaxOfNaturals
<1>7. Max(levels) = peak
  <2>1. Max(levels) <= peak /\ peak <= Max(levels) /\ Max(levels) \in Nat /\ peak \in Nat
    BY <1>5, <1>6
  <2>2. QED BY ONLY <2>1
<1>8. QED BY <1>7 DEF levels, peak, held

-----------------------------------------------------------------------------
LEMMA CancelledStep == ASSUME TypeOK, LocalsOK, CancelledOK, [Next]_vars
                       PROVE  CancelledOK'
<1> USE DEF TypeOK, LocalsOK, CancelledOK
<1>1. ASSUME NEW c \in Caller, CommitBooking(c) PROVE CancelledOK'
  <2> DEFINE q == attempt[c].request
  <2>1. q \in Request /\ row' = [row EXCEPT ![q.key] = q] /\ UNCHANGED <<status, cancelledAt>>
    BY <1>1 DEF CommitBooking
  <2>2. Rows' = Rows \cup {q.key}
    BY <2>1, RequestType DEF Rows
  <2>3. QED BY <2>1, <2>2, FS_AddElement
<1>2. ASSUME NEW h \in Desk, WriteStatus(h) PROVE CancelledOK'
  <2>1. UNCHANGED row /\ Rows' = Rows
    BY <1>2 DEF WriteStatus, Rows
  <2>2. desk[h].key \in Rows
    BY <1>2 DEF WriteStatus
  <2>3. QED BY <1>2, <2>1, <2>2 DEF WriteStatus, Rows
<1>3. ASSUME NEW k \in Key, ConfirmPaid(k) PROVE CancelledOK'
  BY <1>3 DEF ConfirmPaid, Rows
<1>4. CASE UNCHANGED <<row, status, cancelledAt>>
  BY <1>4 DEF Rows
<1>5. QED
  BY <1>1, <1>2, <1>3, <1>4 DEF Next, vars, priceAndCheck, BeginBooking, KeyTaken,
     AbortBooking, ReadStatus, CreateBlock, DeleteBlock

\* A transaction that found the rooms available leaves room for them on every night.
LEMMA AvailableFits ==
    ASSUME TypeOK, CancelledOK, NEW q \in Request, checkAvailability(q),
           NEW t \in q.from .. q.to - 1
    PROVE  Takes(row, Standing, q.unit, t) + q.rooms <= totalRooms(q.unit)
<1>1. IsFiniteSet(Rows) /\ Existing(q) \in SUBSET Rows /\ Standing \in SUBSET Rows
  BY DEF CancelledOK, Existing, Standing
<1> DEFINE seen == {k \in Existing(q) : row[k].from <= t /\ t < row[k].to}
           taking == {k \in {j \in Standing : row[j].unit = q.unit} :
                        row[k].from <= t /\ t < row[k].to}
<1>2. taking \in SUBSET seen
  <2> SUFFICES ASSUME NEW k \in Rows, k \notin cancelledAt, row[k].unit = q.unit,
                      row[k].from <= t, t < row[k].to
               PROVE  k \in Existing(q)
    BY DEF Standing
  <2>1. status[k] \in HOLDS_INVENTORY
    BY RowType DEF CancelledOK, TypeOK, Status
  <2>2. Counts(q, row[k])
    BY DEF Counts
  <2>3. Overlaps(row[k], q)
    BY RowType, RequestType DEF Overlaps
  <2>4. QED BY <2>1, <2>2, <2>3 DEF Existing
<1>3. Sold(Standing, q.unit, t) <= RoomsAt(Existing(q), t)
      /\ Sold(Standing, q.unit, t) \in Nat /\ RoomsAt(Existing(q), t) \in Nat
  <2>1. seen \in SUBSET Rows
    BY <1>1
  <2>2. QED BY <1>1, <1>2, <2>1, RoomsSum DEF RoomsAt, Sold
<1>4. RoomsAt(Existing(q), t) <= peakOccupancy(Existing(q), q)
      /\ peakOccupancy(Existing(q), q) \in Nat
  BY <1>1, PeakBounds
<1>5. q.rooms <= totalRooms(q.unit) - peakOccupancy(Existing(q), q)
  BY DEF checkAvailability
<1>6. q.rooms \in Nat /\ totalRooms(q.unit) \in Nat
  BY RequestType, totalRoomsType
<1>7. Sold(Standing, q.unit, t) = Takes(row, Standing, q.unit, t)
  BY <1>1, SoldIs
<1>8. QED BY <1>3, <1>4, <1>5, <1>6, <1>7

LEMMA SnapshotStands ==
    ASSUME TypeOK, LocalsOK, CancelledOK, SnapshotFits, StandingFits, NEW c \in Caller, CommitBooking(c)
    PROVE  StandingFits' /\ SnapshotFits'
<1> DEFINE q == attempt[c].request
           x == q.key
<1>1. /\ attempt[c].pc = "booking" /\ q \in Request /\ x \in Key /\ x \notin Rows /\ Serializable(c)
      /\ row' = [row EXCEPT ![x] = q] /\ UNCHANGED <<status, cancelledAt>>
  BY RequestType DEF CommitBooking, LocalsOK
<1>2. Rows' = Rows \cup {x} /\ row'[x] = q /\ \A k \in Rows : row'[k] = row[k]
  BY <1>1, RequestType DEF Rows, TypeOK
<1>3. Standing' = Standing \cup {x} /\ x \notin Standing /\ IsFiniteSet(Standing)
      /\ Standing \in SUBSET Rows
  BY <1>1, <1>2, FS_Subset DEF Standing, CancelledOK
<1>4. \A k \in Standing : row[k] \in Request /\ row'[k] = row[k]
  BY <1>2, <1>3, RowType
<1>5. ASSUME NEW u \in Unit, NEW t \in Nat
      PROVE  Takes(row', Standing \cup {x}, u, t) <= totalRooms(u)
  <2>1. Takes(row', Standing \cup {x}, u, t)
          = Takes(row, Standing, u, t) + (IF x \in Nights(row', {x}, u, t) THEN q.rooms ELSE 0)
    <3>1. row'[x] \in Request /\ \A k \in Standing : row[k] \in Request /\ row'[k] = row[k]
      BY <1>1, <1>2, <1>4
    <3> HIDE DEF x
    <3>2. Takes(row', Standing \cup {x}, u, t)
            = Takes(row, Standing, u, t) + (IF x \in Nights(row', {x}, u, t) THEN row'[x].rooms ELSE 0)
      BY <1>3, <3>1, TakesOneMore
    <3>3. row'[x].rooms = q.rooms
      BY <1>2
    <3>4. QED BY <3>2, <3>3
  <2>2. Takes(row, Standing, u, t) \in Nat /\ Takes(row, Standing, u, t) <= totalRooms(u)
    BY <1>3, <1>4, TakesMore DEF StandingFits
  <2>3. CASE x \notin Nights(row', {x}, u, t)
    BY <2>1, <2>2, <2>3
  <2>4. CASE x \in Nights(row', {x}, u, t)
    <3>1. q.unit = u /\ q.from <= t /\ t < q.to
      BY <1>2, <2>4 DEF Nights
    <3> DEFINE S == attempt[c].known \ cancelledAt
    <3>2. /\ S \in SUBSET Standing /\ IsFiniteSet(S)
          /\ Takes(row, S, u, t) + q.rooms <= totalRooms(u)
      <4>1. t \in q.from .. q.to - 1
        BY <1>1, <3>1, RequestType
      <4>2. attempt[c].known \subseteq Rows
            /\ Takes(row, S, q.unit, t) + q.rooms <= totalRooms(q.unit)
        BY <1>1, <4>1 DEF SnapshotFits
      <4>3. S \in SUBSET Standing /\ IsFiniteSet(S)
        BY <1>3, <4>2, FS_Subset DEF Standing
      <4> HIDE DEF S
      <4>4. QED BY <3>1, <4>2, <4>3
    <3>3. Nights(row, Standing, u, t) = Nights(row, S, u, t)
      <4> SUFFICES ASSUME NEW k \in Standing, k \notin attempt[c].known,
                          row[k].unit = u, row[k].from <= t, t < row[k].to
                   PROVE  FALSE
        BY <3>2 DEF Nights, Standing
      <4>1. Overlaps(row[k], q) /\ Counts(q, row[k]) /\ Counts(row[k], q)
        BY <1>1, <1>4, <3>1, RequestType DEF Overlaps, Counts
      <4>2. QED BY <1>1, <1>3, <4>1 DEF Serializable
    <3>4. Takes(row, Standing, u, t) = Takes(row, S, u, t)
      <4> DEFINE f == [k \in Standing |-> row[k].rooms]
                 g == [k \in S |-> row[k].rooms]
                 N == Nights(row, S, u, t)
      <4>1. IsFiniteSet(N) /\ \A k \in N : f[k] = g[k]
        BY <3>2, FS_Subset DEF Nights
      <4>2. Takes(row, Standing, u, t) = SumFunctionOnSet(f, N)
        BY <3>3, Zenon DEF Takes
      <4>3. Takes(row, S, u, t) = SumFunctionOnSet(g, N)
        BY DEF Takes
      <4> HIDE DEF f, g, N
      <4>4. QED BY <4>1, <4>2, <4>3, SumSame
    <3>5. QED BY <2>1, <2>4, <3>2, <3>4
  <2>5. QED BY <2>3, <2>4
<1>6. StandingFits'
  <2>1. \A u \in Unit, t \in Nat : Takes(row', Standing', u, t) <= totalRooms(u)
    BY <1>3, <1>5
  <2>2. QED BY <2>1 DEF StandingFits, totalRooms
<1>7. SnapshotFits'
  <2>1. ASSUME NEW d \in Caller, attempt'[d].pc = "booking"
        PROVE  attempt'[d] = attempt[d]
    BY <2>1, <1>1 DEF CommitBooking, Answers, TypeOK
  <2>2. ASSUME NEW d \in Caller, attempt'[d].pc = "booking",
               NEW t \in attempt[d].request.from .. attempt[d].request.to - 1
        PROVE  Takes(row', attempt[d].known \ cancelledAt, attempt[d].request.unit, t)
                 + attempt[d].request.rooms <= totalRooms(attempt[d].request.unit)
    <3> DEFINE S == attempt[d].known \ cancelledAt
               u == attempt[d].request.unit
    <3>1. /\ S \in SUBSET Rows /\ IsFiniteSet(S)
          /\ Takes(row, S, u, t) + attempt[d].request.rooms <= totalRooms(u)
          /\ attempt[d].request.rooms \in Nat /\ totalRooms(u) \in Nat
      BY <2>1, <2>2, FS_Subset, RequestType, totalRoomsType DEF SnapshotFits, CancelledOK, LocalsOK
    <3>2. \A k \in S : row[k] \in Request /\ row'[k] = row[k]
      BY <3>1, <1>2, RowType
    <3> HIDE DEF S, u
    <3>3. Takes(row', S, u, t) <= Takes(row, S, u, t) /\ Takes(row', S, u, t) \in Nat
          /\ Takes(row, S, u, t) \in Nat
      BY <3>1, <3>2, TakesMore, S \in SUBSET S
    <3>4. QED BY <3>1, <3>3 DEF S, u
  <2>3. \A d \in Caller : attempt'[d].pc = "booking" =>
          /\ attempt'[d] = attempt[d]
          /\ attempt[d].known \subseteq Rows'
    BY <2>1, <1>2 DEF SnapshotFits
  <2>4. QED BY <1>1, <2>2, <2>3 DEF SnapshotFits, totalRooms
<1>8. QED BY <1>6, <1>7

\* A step that makes no booking leaves what stands as it was, or cancels some of it.
LEMMA FitsWhileCancelling ==
    ASSUME TypeOK, LocalsOK, CancelledOK, SnapshotFits, StandingFits,
           row' = row, cancelledAt \subseteq cancelledAt',
           \A c \in Caller : attempt'[c].pc = "booking" =>
               \/ attempt'[c] = attempt[c]
               \/ /\ cancelledAt' = cancelledAt
                  /\ attempt[c].pc = "priced"
                  /\ attempt'[c].request = attempt[c].request
                  /\ attempt'[c].known = Rows
                  /\ checkAvailability(attempt[c].request)
    PROVE  StandingFits' /\ SnapshotFits'
<1>1. Rows' = Rows /\ Standing' = Rows \ cancelledAt' /\ Standing' \in SUBSET Standing
      /\ Standing \in SUBSET Rows /\ IsFiniteSet(Standing)
  BY FS_Subset DEF Rows, Standing, CancelledOK
<1>2. \A k \in Rows : row[k] \in Request
  BY RowType
<1>3. StandingFits'
  <2>1. ASSUME NEW u \in Unit, NEW t \in Nat PROVE Takes(row, Standing', u, t) <= totalRooms(u)
    <3> DEFINE S == Standing'
    <3>1. S \in SUBSET Standing /\ \A k \in Standing : row[k] \in Request
      BY <1>1, <1>2
    <3> HIDE DEF S
    <3>2. /\ Takes(row, S, u, t) \in Nat /\ Takes(row, Standing, u, t) \in Nat
          /\ Takes(row, S, u, t) <= Takes(row, Standing, u, t)
      BY <1>1, <3>1, TakesMore
    <3>3. Takes(row, Standing, u, t) <= totalRooms(u) /\ totalRooms(u) \in Nat
      BY totalRoomsType DEF StandingFits
    <3>4. Takes(row, S, u, t) <= totalRooms(u)
      BY <3>2, <3>3
    <3>5. QED BY <3>4 DEF S
  <2>2. QED BY <2>1 DEF StandingFits, totalRooms
<1>4. ASSUME NEW c \in Caller, attempt'[c].pc = "booking"
      PROVE  /\ attempt'[c].known \subseteq Rows
             /\ \A t \in attempt'[c].request.from .. attempt'[c].request.to - 1 :
                  Takes(row, attempt'[c].known \ cancelledAt', attempt'[c].request.unit, t)
                    + attempt'[c].request.rooms <= totalRooms(attempt'[c].request.unit)
  <2>1. CASE attempt'[c] = attempt[c]
    <3> DEFINE q == attempt[c].request
               S == attempt[c].known \ cancelledAt
               R == attempt[c].known \ cancelledAt'
    <3>1. q \in Request /\ attempt[c].known \subseteq Rows
      BY <1>4, <2>1 DEF LocalsOK, SnapshotFits
    <3>2. IsFiniteSet(S) /\ R \in SUBSET S /\ \A k \in S : row[k] \in Request
      BY <3>1, <1>2, FS_Subset DEF CancelledOK
    <3>3. ASSUME NEW t \in q.from .. q.to - 1
          PROVE  Takes(row, R, q.unit, t) + q.rooms <= totalRooms(q.unit)
      <4>1. Takes(row, S, q.unit, t) + q.rooms <= totalRooms(q.unit)
        BY <1>4, <2>1 DEF SnapshotFits
      <4> HIDE DEF R, S
      <4>2. /\ Takes(row, R, q.unit, t) \in Nat /\ Takes(row, S, q.unit, t) \in Nat
            /\ Takes(row, R, q.unit, t) <= Takes(row, S, q.unit, t)
        BY <3>2, TakesMore
      <4>3. q.rooms \in Nat /\ totalRooms(q.unit) \in Nat
        BY <3>1, RequestType, totalRoomsType
      <4> HIDE DEF q
      <4>4. QED BY <4>1, <4>2, <4>3
    <3>4. QED BY <2>1, <3>1, <3>3
  <2>2. CASE attempt'[c] # attempt[c]
    <3> DEFINE q == attempt[c].request
    <3>1. /\ cancelledAt' = cancelledAt /\ attempt'[c].request = q /\ attempt'[c].known = Rows
          /\ checkAvailability(q) /\ q \in Request
      BY <1>4, <2>2 DEF LocalsOK
    <3>2. \A t \in q.from .. q.to - 1 : Takes(row, Standing, q.unit, t) + q.rooms <= totalRooms(q.unit)
      BY <3>1, AvailableFits
    <3>3. QED BY <3>1, <3>2 DEF Standing
  <2>3. QED BY <2>1, <2>2
<1>5. SnapshotFits'
  BY <1>1, <1>4 DEF SnapshotFits, totalRooms
<1>6. QED BY <1>3, <1>5

LEMMA InventoryStep ==
    ASSUME TypeOK, LocalsOK, CancelledOK, SnapshotFits, StandingFits, [Next]_vars
    PROVE  StandingFits' /\ SnapshotFits'
<1>1. ASSUME NEW c \in Caller, CommitBooking(c) PROVE StandingFits' /\ SnapshotFits'
  BY <1>1, SnapshotStands
<1>2. ASSUME NEW c \in Caller, BeginBooking(c) PROVE StandingFits' /\ SnapshotFits'
  <2>1. row' = row /\ cancelledAt' = cancelledAt
    BY <1>2 DEF BeginBooking
  <2>2. ASSUME NEW d \in Caller, attempt'[d].pc = "booking", attempt'[d] # attempt[d]
        PROVE  /\ attempt[d].pc = "priced"
               /\ attempt'[d].request = attempt[d].request
               /\ attempt'[d].known = Rows
               /\ checkAvailability(attempt[d].request)
    <3>1. CASE Answers(c, "conflict")
      BY <3>1, <2>2 DEF Answers, TypeOK
    <3>2. CASE checkAvailability(attempt[c].request)
               /\ attempt' = [attempt EXCEPT ![c].pc = "booking", ![c].known = Rows]
      BY <3>2, <2>2, <1>2 DEF BeginBooking, TypeOK, Attempt
    <3>3. QED BY <1>2, <3>1, <3>2 DEF BeginBooking
  <2>3. QED BY <2>1, <2>2, FitsWhileCancelling
<1>3. ASSUME NEW c \in Caller, priceAndCheck(c) \/ KeyTaken(c) \/ AbortBooking(c)
      PROVE  StandingFits' /\ SnapshotFits'
  <2>1. row' = row /\ cancelledAt' = cancelledAt
    BY <1>3 DEF priceAndCheck, KeyTaken, AbortBooking
  <2>2. \A d \in Caller : attempt'[d].pc = "booking" => attempt'[d] = attempt[d]
    <3>1. CASE priceAndCheck(c)
      <4>1. PICK q \in Request : attempt' = [attempt EXCEPT ![c] =
               [pc |-> IF checkAvailability(q) THEN "priced" ELSE "conflict",
                request |-> q, known |-> {}]]
        BY <3>1 DEF priceAndCheck
      <4>2. QED BY <4>1 DEF TypeOK
    <3>2. CASE KeyTaken(c) \/ AbortBooking(c)
      <4>1. PICK a \in {"reused", "conflict"} : Answers(c, a)
        BY <3>2 DEF KeyTaken, AbortBooking
      <4>2. QED BY <4>1 DEF Answers, TypeOK
    <3>3. QED BY <1>3, <3>1, <3>2
  <2>3. QED BY <2>1, <2>2, FitsWhileCancelling
<1>4. CASE UNCHANGED <<row, attempt>> /\ cancelledAt \subseteq cancelledAt'
  BY <1>4, FitsWhileCancelling
<1>5. QED
  BY <1>1, <1>2, <1>3, <1>4 DEF Next, vars, ReadStatus, WriteStatus, ConfirmPaid,
     CreateBlock, DeleteBlock

LEMMA InventoryInit == Init => CancelledOK /\ StandingFits /\ SnapshotFits
<1> SUFFICES ASSUME Init PROVE CancelledOK /\ StandingFits /\ SnapshotFits
  OBVIOUS
<1>1. Rows = {} /\ Standing = {} /\ CancelledOK
  BY FS_EmptySet DEF Init, Rows, Standing, CancelledOK
<1>2. SnapshotFits
  BY DEF Init, SnapshotFits
<1>3. ASSUME NEW u, NEW t PROVE Takes(row, Standing, u, t) = 0
  <2>1. Nights(row, Standing, u, t) = {}
    BY <1>1 DEF Nights
  <2>2. QED BY <2>1, SumEmpty DEF Takes
<1>4. StandingFits
  BY <1>3, totalRoomsType DEF StandingFits
<1>5. QED BY <1>1, <1>2, <1>4

LEMMA SoldFits == ASSUME TypeOK, CancelledOK, StandingFits PROVE SoldWithinInventory
<1> SUFFICES ASSUME NEW u \in Unit, NEW t \in Instants
             PROVE  Sold(Held \ Revived, u, t) <= totalRooms(u)
  BY DEF SoldWithinInventory
<1>1. t \in Nat
  BY RowType, RequestType DEF Instants
<1> DEFINE S == Held \ Revived
<1>2. S \in SUBSET Standing /\ S \in SUBSET Rows /\ IsFiniteSet(Standing) /\ IsFiniteSet(Rows)
      /\ \A k \in Standing : row[k] \in Request
  BY FS_Subset, RowType DEF Held, Revived, Standing, CancelledOK
<1> HIDE DEF S
<1>3. /\ Takes(row, S, u, t) \in Nat /\ Takes(row, Standing, u, t) \in Nat
      /\ Takes(row, S, u, t) <= Takes(row, Standing, u, t)
  BY <1>2, TakesMore
<1>4. Sold(S, u, t) = Takes(row, S, u, t)
  BY <1>2, SoldIs
<1>5. Takes(row, Standing, u, t) <= totalRooms(u) /\ totalRooms(u) \in Nat
  BY <1>1, totalRoomsType DEF StandingFits
<1>6. Sold(S, u, t) <= totalRooms(u)
  BY <1>3, <1>4, <1>5
<1>7. QED BY <1>6 DEF S

\* What stands has room, and every open transaction has read so, however many guests ask for
\* the last room at once (createBooking's Serializable transaction).
THEOREM InventoryHolds == Spec => [](CancelledOK /\ StandingFits /\ SnapshotFits)
<1>1. TypeOK /\ LocalsOK /\ CancelledOK /\ StandingFits /\ SnapshotFits /\ [Next]_vars
        => CancelledOK' /\ StandingFits' /\ SnapshotFits'
  BY CancelledStep, InventoryStep
<1>2. QED BY <1>1, InventoryInit, BookingTypes, PTL DEF Spec

\* No night is sold beyond the inventory, for every catalogue, every set of requests and any
\* number of handlers (createBooking).
THEOREM SoldWithinInventoryAlways == Spec => []SoldWithinInventory
  BY SoldFits, InventoryHolds, BookingTypes, PTL

\* Measuring occupancy where stays begin finds the busiest night, whatever has been sold
\* (peakOccupancy).
THEOREM PeakIsTheBusiestNightAlways == Spec => []PeakIsTheBusiestNight
<1>1. TypeOK /\ CancelledOK => PeakIsTheBusiestNight
  BY PeakStep DEF CancelledOK
<1>2. QED BY <1>1, InventoryHolds, BookingTypes, PTL

-----------------------------------------------------------------------------
(* Groups: splitting an amount. *)

\* The place of m in S.
Place(S, m) == Cardinality({k \in S : k <= m})

LEMMA PlaceType == ASSUME NEW S, IsFiniteSet(S), NEW m PROVE Place(S, m) \in Nat
<1>1. IsFiniteSet({k \in S : k <= m})
  BY FS_Subset
<1>2. QED BY <1>1, FS_CardinalityType DEF Place

\* Dealing c to each of S and one more to the first e of them deals out all of it.
LEMMA DealtOut ==
    ASSUME NEW N \in Nat, NEW S \in SUBSET (1 .. N), NEW c \in Int, NEW e \in Nat
    PROVE  SumFunctionOnSet([m \in S |-> c + (IF Place(S, m) <= e THEN 1 ELSE 0)], S)
             = Cardinality(S) * c + (IF e <= Cardinality(S) THEN e ELSE Cardinality(S))
<1> DEFINE Deal(s) == [m \in s |-> c + (IF Place(s, m) <= e THEN 1 ELSE 0)]
           n(s) == Cardinality(s)
           Done(s) == SumFunctionOnSet(Deal(s), s) = n(s) * c + (IF e <= n(s) THEN e ELSE n(s))
           B == {s \in SUBSET S : ~ Done(s)}
<1>0. IsFiniteSet(S)
  <2>1. IsFiniteSet(1 .. N)
    BY FS_Interval
  <2>2. QED BY <2>1, FS_Subset
<1> SUFFICES ASSUME B # {} PROVE FALSE
  BY S \in SUBSET S
<1>1. \E s \in B : \A u \in SUBSET s : u # s => u \notin B
  <2>1. B \in SUBSET SUBSET S
    OBVIOUS
  <2> HIDE DEF B
  <2>2. QED BY <1>0, <2>1, SmallestSet
<1> HIDE DEF Done
<1>2. PICK s \in SUBSET S : ~ Done(s) /\ \A u \in SUBSET s : u # s => Done(u)
  BY <1>1
<1> USE DEF Done
<1>3. IsFiniteSet(s) /\ n(s) \in Nat
  BY <1>0, FS_Subset, FS_CardinalityType
<1>4. ASSUME s = {} PROVE FALSE
  <2>1. SumFunctionOnSet(Deal(s), s) = 0 /\ n(s) = 0
    BY <1>4, SumEmpty, FS_EmptySet
  <2>2. QED BY <1>2, <2>1
<1> DEFINE M == Max(s)
           u == s \ {M}
<1>5. M \in s /\ \A k \in s : k <= M
  <2>1. s \in SUBSET Nat /\ s # {} /\ \A k \in s : k <= N
    BY <1>4
  <2>2. QED BY <2>1, MaxOfNaturals
<1>6. s \subseteq Nat /\ M \in Nat
  <2>1. s \subseteq Nat
    OBVIOUS
  <2>2. QED BY <1>5, <2>1
<1> HIDE DEF M
<1>7. Done(u)
  BY <1>2, <1>5
<1>8. IsFiniteSet(u) /\ n(u) = n(s) - 1 /\ n(u) \in Nat
  BY <1>3, <1>5, FS_RemoveElement, FS_CardinalityType
<1>9. Place(s, M) = n(s)
  <2>1. {k \in s : k <= M} = s
    BY <1>5
  <2>2. QED BY <2>1, Zenon DEF Place
<1>10. ASSUME NEW m \in u PROVE Place(s, m) = Place(u, m)
  <2>1. m <= M /\ m # M /\ m \in Nat
    BY <1>5, <1>6
  <2>2. {k \in s : k <= m} = {k \in u : k <= m}
    BY <1>6, <2>1
  <2>3. QED BY <2>2, Zenon DEF Place
<1>11. \A m \in s : Deal(s)[m] \in Int
  BY <1>3, PlaceType
<1>12. SumFunctionOnSet(Deal(s), s) = Deal(s)[M] + SumFunctionOnSet(Deal(s), u)
  <2> DEFINE f == Deal(s)
  <2>1. \A m \in s : f[m] \in Int
    BY <1>11
  <2> HIDE DEF f
  <2>2. SumFunctionOnSet(f, s) = f[M] + SumFunctionOnSet(f, s \ {M})
    BY <1>3, <1>5, <2>1, SumRemove
  <2>3. QED BY <2>2 DEF f
<1>13. SumFunctionOnSet(Deal(s), u) = SumFunctionOnSet(Deal(u), u)
  <2> DEFINE f == Deal(s)
             g == Deal(u)
  <2>1. \A m \in u : f[m] = g[m]
    BY <1>10
  <2> HIDE DEF f, g
  <2>2. SumFunctionOnSet(f, u) = SumFunctionOnSet(g, u)
    BY <1>8, <2>1, SumSame
  <2>3. QED BY <2>2 DEF f, g
<1>14. Deal(s)[M] = c + (IF n(s) <= e THEN 1 ELSE 0)
  BY <1>5, <1>9
<1>15. SumFunctionOnSet(Deal(u), u) = n(u) * c + (IF e <= n(u) THEN e ELSE n(u))
  BY <1>7
<1> HIDE DEF Deal, n
<1>16. n(s) * c = n(u) * c + c
  BY ONLY <1>8, <1>3, c \in Int
<1>17. n(u) * c \in Int
  BY <1>8
<1>18. SumFunctionOnSet(Deal(s), s) = n(s) * c + (IF e <= n(s) THEN e ELSE n(s))
  BY <1>3, <1>8, <1>12, <1>13, <1>14, <1>15, <1>16, <1>17
<1>19. QED BY <1>2, <1>18

\* splitEvenly deals out exactly what there is, negative amounts included.
LEMMA SplitEvenly ==
    ASSUME NEW S \in SUBSET Traveller, S # {}, NEW total \in Int
    PROVE  /\ \A m \in S : Part(total, S, m) \in Int
           /\ SumFunctionOnSet([m \in S |-> Part(total, S, m)], S) = total
<1> DEFINE n == Cardinality(S)
           c == total \div n
           e == total % n
<1>1. MaxTravellers \in Nat /\ IsFiniteSet(Traveller) /\ S \in SUBSET (1 .. MaxTravellers)
  BY GroupAssumption, FS_Interval DEF Traveller
<1>2. IsFiniteSet(S) /\ n \in Nat /\ n # 0
  BY <1>1, FS_Subset, FS_CardinalityType, FS_EmptySet
<1> HIDE DEF n
<1>3. c \in Int /\ e \in Nat /\ e < n /\ total = n * c + e
  BY <1>2
<1> HIDE DEF c, e
<1>4. \A m \in S : Part(total, S, m) = c + (IF Place(S, m) <= e THEN 1 ELSE 0)
  BY DEF Part, Place, n, c, e
<1>5. \A m \in S : Part(total, S, m) \in Int
  BY <1>2, <1>3, <1>4, PlaceType
<1>6. SumFunctionOnSet([m \in S |-> c + (IF Place(S, m) <= e THEN 1 ELSE 0)], S) = n * c + e
  <2> DEFINE deal == SumFunctionOnSet([m \in S |-> c + (IF Place(S, m) <= e THEN 1 ELSE 0)], S)
  <2>1. deal = Cardinality(S) * c + (IF e <= Cardinality(S) THEN e ELSE Cardinality(S))
    BY <1>1, <1>3, DealtOut
  <2> HIDE DEF deal
  <2>2. deal = n * c + (IF e <= n THEN e ELSE n)
    BY <2>1 DEF n
  <2>3. deal = n * c + e
    BY <1>2, <1>3, <2>2
  <2>4. QED BY <2>3 DEF deal
<1>7. [m \in S |-> Part(total, S, m)] = [m \in S |-> c + (IF Place(S, m) <= e THEN 1 ELSE 0)]
  BY <1>4
<1>8. QED BY <1>3, <1>5, <1>6, <1>7
-----------------------------------------------------------------------------
\* Whom a handler is about to write is in the group.
GroupLocalsOK ==
    \A r \in Handler :
        /\ request[r].pc \in {"pay", "unpay", "start"} => request[r].who \in Travellers
        /\ request[r].pc = "add" => request[r].unpaid \subseteq Travellers

\* What an addition that no other has outdated is about to deal is what the others leave.
SharesOK ==
    /\ ~ disturbed => SumFunctionOnSet(share, Travellers) = Payable
    /\ \A r \in Handler : request[r].pc = "add" /\ request[r].fresh =>
           request[r].left + SumFunctionOnSet(share, Travellers \ request[r].unpaid) = Payable

\* Once a confirmation has read the group, or made it confirmed, it has collected what it owes.
ConfirmedOK ==
    /\ groupStatus = "CONFIRMED" \/ \E r \in Handler : request[r].pc = "confirm"
    /\ ~ reversed /\ ~ late
    /\ \A m \in paid : share[m] >= 0
    => SumFunctionOnSet(share, paid) >= Payable

HandlerState == [pc : {"idle", "add", "pay", "unpay", "start", "confirm"},
                 who : 0 .. MaxTravellers, unpaid : SUBSET Traveller,
                 left : Int, fresh : BOOLEAN]

LEMMA IdleType == /\ Idle \in HandlerState /\ Idle.pc = "idle"
                  /\ \A m \in 0 .. MaxTravellers, s \in {"pay", "unpay", "start", "confirm"} :
                       At(s, m) \in HandlerState /\ At(s, m).pc = s /\ At(s, m).who = m
<1>1. 0 \in 0 .. MaxTravellers
  BY GroupAssumption
<1>2. Idle \in HandlerState /\ Idle.pc = "idle"
  BY <1>1 DEF Idle, HandlerState
<1>3. ASSUME NEW m \in 0 .. MaxTravellers, NEW s \in {"pay", "unpay", "start", "confirm"}
      PROVE  At(s, m) \in HandlerState /\ At(s, m).pc = s /\ At(s, m).who = m
  BY <1>2 DEF At, HandlerState
<1>4. QED BY <1>2, <1>3

LEMMA SharesSum == ASSUME GroupTypeOK, NEW S \in SUBSET Travellers
                   PROVE  /\ IsFiniteSet(S) /\ IsFiniteSet(Travellers) /\ S \in SUBSET Traveller
                          /\ \A m \in Travellers : share[m] \in Int
                          /\ SumFunctionOnSet(share, S) \in Int
<1>1. party \in Nat /\ party <= MaxTravellers /\ MaxTravellers \in Nat
  BY GroupAssumption DEF GroupTypeOK, Traveller
<1>2. IsFiniteSet(Travellers) /\ Travellers \in SUBSET Traveller
  BY <1>1, FS_Interval DEF Travellers, Traveller
<1>3. IsFiniteSet(S) /\ \A m \in Travellers : share[m] \in Int
  BY <1>2, FS_Subset DEF GroupTypeOK
<1>4. QED BY <1>2, <1>3, SumType

\* One handler moves on, and nobody joins.
Moves(r, new) ==
    /\ request' = [request EXCEPT ![r] = new]
    /\ UNCHANGED <<party, share, disturbed, late>>

LEMMA MovesStep ==
    ASSUME GroupTypeOK, GroupLocalsOK, SharesOK, NEW r \in Handler, NEW new \in HandlerState,
           Moves(r, new),
           new.pc \in {"pay", "unpay", "start"} => new.who \in Travellers,
           new.pc = "add" => /\ new.unpaid \subseteq Travellers
                             /\ new.left + SumFunctionOnSet(share, Travellers \ new.unpaid) = Payable
    PROVE  /\ request' \in [Handler -> HandlerState] /\ Travellers' = Travellers
           /\ GroupLocalsOK' /\ SharesOK'
<1>1. request \in [Handler -> HandlerState]
  BY DEF GroupTypeOK, HandlerState
<1>2. request' \in [Handler -> HandlerState] /\ Travellers' = Travellers
  BY <1>1 DEF Moves, Travellers
<1>3. \A q \in Handler : request'[q] = IF q = r THEN new ELSE request[q]
  BY <1>1 DEF Moves
<1>4. GroupLocalsOK'
  BY <1>2, <1>3 DEF GroupLocalsOK
<1>5. SharesOK'
  BY <1>2, <1>3 DEF SharesOK, Moves
<1>6. QED BY <1>2, <1>4, <1>5

LEMMA ReadToAddStep == ASSUME GroupTypeOK, GroupLocalsOK, SharesOK, NEW r \in Handler, ReadToAdd(r)
                       PROVE  /\ request' \in [Handler -> HandlerState] /\ Travellers' = Travellers
                              /\ GroupLocalsOK' /\ SharesOK'
<1> DEFINE new == [pc |-> "add", who |-> 0, unpaid |-> Travellers \ paid,
                   left |-> Payable - Collected, fresh |-> TRUE]
<1>1. paid \in SUBSET Travellers
  BY DEF GroupTypeOK
<1>2. Collected \in Int /\ Collected = SumFunctionOnSet(share, paid)
  BY <1>1, SharesSum DEF Collected, SumOver
<1>3. new \in HandlerState
  BY <1>1, <1>2, SharesSum, GroupAssumption DEF HandlerState
<1>4. SumFunctionOnSet(share, Travellers \ (Travellers \ paid)) = SumFunctionOnSet(share, paid)
  <2>1. Travellers \ (Travellers \ paid) = paid
    BY <1>1
  <2>2. QED BY <2>1, Zenon
<1>5. new.left + SumFunctionOnSet(share, Travellers \ new.unpaid) = Payable
  BY <1>2, <1>4, GroupAssumption
<1>6. Moves(r, new)
  BY DEF ReadToAdd, Moves, shareVars
<1>7. new.pc = "add" /\ new.unpaid \subseteq Travellers
  OBVIOUS
<1> HIDE DEF new
<1>8. QED BY <1>3, <1>5, <1>6, <1>7, MovesStep

\* The shares after an addition that dealt out what was left over the unpaid and the new one.
LEMMA DealtShares ==
    ASSUME GroupTypeOK, NEW U \in SUBSET Travellers, NEW left \in Int, party < MaxTravellers,
           NEW new, new = [m \in Traveller |-> IF m \in U \cup {party + 1}
                                              THEN Part(left, U \cup {party + 1}, m) ELSE share[m]]
    PROVE  /\ new \in [Traveller -> Int]
           /\ SumFunctionOnSet(new, 1 .. party + 1) = left + SumFunctionOnSet(share, Travellers \ U)
<1> DEFINE D == U \cup {party + 1}
           K == Travellers \ U
           f == [m \in D |-> Part(left, D, m)]
<1>1. party \in Nat /\ party + 1 \in Traveller /\ Travellers \subseteq Traveller
      /\ 1 .. party + 1 = K \cup D /\ K \cap D = {} /\ D \in SUBSET Traveller /\ D # {}
  <2>1. party \in Nat /\ MaxTravellers \in Nat /\ party + 1 \in 1 .. MaxTravellers
    BY GroupAssumption DEF GroupTypeOK, Traveller
  <2>2. Travellers = 1 .. party /\ Traveller = 1 .. MaxTravellers
    BY DEF Travellers, Traveller
  <2>3. Travellers \subseteq Traveller /\ 1 .. party + 1 = Travellers \cup {party + 1}
        /\ party + 1 \notin Travellers
    BY <2>1, <2>2
  <2>4. QED BY <2>1, <2>2, <2>3
<1>2. IsFiniteSet(K) /\ IsFiniteSet(D) /\ \A m \in K : share[m] \in Int
  BY SharesSum, FS_AddElement
<1>3. (\A m \in D : Part(left, D, m) \in Int) /\ SumFunctionOnSet(f, D) = left
  BY <1>1, SplitEvenly
<1>4. new \in [Traveller -> Int]
  BY <1>3 DEF GroupTypeOK
<1>5. (\A m \in D : new[m] = f[m]) /\ (\A m \in K : new[m] = share[m])
  BY <1>1
<1> HIDE DEF f
<1>6. (\A m \in K \cup D : new[m] \in Int)
  BY <1>1, <1>4
<1> HIDE DEF D, K
<1>7. SumFunctionOnSet(new, K \cup D) = SumFunctionOnSet(new, K) + SumFunctionOnSet(new, D)
  BY <1>1, <1>2, <1>6, SumDisjoint
<1>8. SumFunctionOnSet(new, K) = SumFunctionOnSet(share, K) /\ SumFunctionOnSet(new, D) = left
  BY <1>2, <1>3, <1>5, SumSame
<1>9. SumFunctionOnSet(share, K) \in Int
  BY <1>2, SumType
<1>10. SumFunctionOnSet(new, 1 .. party + 1) = SumFunctionOnSet(new, K \cup D)
  BY <1>1, Zenon
<1>11. SumFunctionOnSet(new, 1 .. party + 1) = left + SumFunctionOnSet(share, K)
  BY <1>7, <1>8, <1>9, <1>10
<1>12. QED BY <1>4, <1>11 DEF K

LEMMA JoinStep ==
    ASSUME GroupTypeOK, GroupLocalsOK, NEW r \in Handler, NEW newShare \in [Traveller -> Int],
           Join(r, newShare), disturbed' \in BOOLEAN,
           ~ disturbed' => SumFunctionOnSet(newShare, 1 .. party + 1) = Payable
    PROVE  GroupTypeOK' /\ GroupLocalsOK' /\ SharesOK'
<1>1. party' = party + 1 /\ party' \in Traveller /\ Travellers \subseteq Travellers'
      /\ Travellers' = 1 .. party + 1
  BY GroupAssumption DEF GroupTypeOK, Join, Traveller, Travellers
<1>2. request \in [Handler -> HandlerState]
  BY DEF GroupTypeOK, HandlerState
<1>3. \A q \in Handler : /\ request'[q] \in HandlerState
                         /\ request'[q].pc = "idle" \/ /\ request'[q].pc = request[q].pc
                                                       /\ request'[q].who = request[q].who
                                                       /\ request'[q].unpaid = request[q].unpaid
                         /\ request'[q].pc = "add" => ~ request'[q].fresh
  <2> SUFFICES ASSUME NEW q \in Handler
               PROVE  /\ request'[q] \in HandlerState
                      /\ request'[q].pc = "idle" \/ /\ request'[q].pc = request[q].pc
                                                    /\ request'[q].who = request[q].who
                                                    /\ request'[q].unpaid = request[q].unpaid
                      /\ request'[q].pc = "add" => ~ request'[q].fresh
    OBVIOUS
  <2>1. request[q] \in HandlerState
    BY <1>2
  <2>2. request'[q] = IF q = r THEN Idle
                      ELSE IF request[q].pc = "add" THEN [request[q] EXCEPT !.fresh = FALSE]
                      ELSE request[q]
    BY DEF Join
  <2>3. CASE q = r
    BY <2>2, <2>3, IdleType
  <2>4. CASE q # r /\ request[q].pc = "add"
    <3> DEFINE new == [request[q] EXCEPT !.fresh = FALSE]
    <3>1. /\ new \in HandlerState /\ new.pc = request[q].pc /\ new.who = request[q].who
          /\ new.unpaid = request[q].unpaid /\ ~ new.fresh
      BY <2>1 DEF HandlerState
    <3>2. request'[q] = new
      BY <2>2, <2>4
    <3> HIDE DEF new
    <3>3. QED BY <3>1, <3>2
  <2>5. CASE q # r /\ request[q].pc # "add"
    BY <2>1, <2>2, <2>5
  <2>6. QED BY <2>3, <2>4, <2>5
<1>4. request' \in [Handler -> HandlerState]
  BY <1>3 DEF Join
<1>5. GroupTypeOK'
  <2>1. late' \in BOOLEAN
    BY DEF Join, GroupTypeOK
  <2>2. UNCHANGED <<groupStatus, paid, started, redeemed, reversed>> /\ share' = newShare
    BY DEF Join, payVars
  <2>3. QED BY <1>1, <1>4, <2>1, <2>2 DEF GroupTypeOK, HandlerState
<1>6. GroupLocalsOK'
  BY <1>1, <1>3 DEF GroupLocalsOK
<1>7. SharesOK'
  BY <1>1, <1>3 DEF SharesOK, Join
<1>8. QED BY <1>5, <1>6, <1>7

LEMMA SharesStep ==
    ASSUME GroupTypeOK, GroupLocalsOK, SharesOK, [GroupNext]_groupVars
    PROVE  GroupTypeOK' /\ GroupLocalsOK' /\ SharesOK'
<1> DEFINE Goal == GroupTypeOK' /\ GroupLocalsOK' /\ SharesOK'
<1>0. /\ request \in [Handler -> HandlerState] /\ paid \subseteq Travellers
      /\ started \subseteq Travellers /\ Travellers \subseteq Traveller
      /\ Travellers \subseteq 0 .. MaxTravellers
  <2>1. party \in 1 .. MaxTravellers /\ MaxTravellers \in Nat
    BY GroupAssumption DEF GroupTypeOK, Traveller
  <2>2. Travellers \subseteq Traveller /\ Travellers \subseteq 0 .. MaxTravellers
    BY <2>1 DEF Travellers, Traveller
  <2>3. QED BY <2>2 DEF GroupTypeOK, HandlerState
<1>1. ASSUME request' \in [Handler -> HandlerState] /\ Travellers' = Travellers
               /\ GroupLocalsOK' /\ SharesOK',
             UNCHANGED <<party, share, disturbed, late>>,
             groupStatus' \in {"COLLECTING", "CONFIRMED"},
             paid' \subseteq Travellers, started' \subseteq Travellers,
             redeemed' \in Nat, reversed' \in BOOLEAN
      PROVE  Goal
  BY <1>1 DEF GroupTypeOK, HandlerState
<1>2. ASSUME NEW r \in Handler, ReadToAdd(r) PROVE Goal
  <2>1. UNCHANGED <<groupStatus, party, share, disturbed, late, paid, started, reversed, redeemed>>
    BY <1>2 DEF ReadToAdd, shareVars, payVars
  <2>2. QED BY <1>1, <1>2, <2>1, ReadToAddStep DEF GroupTypeOK
<1>3. ASSUME NEW r \in Handler, NEW new \in HandlerState, Moves(r, new), new.pc # "add",
             new.pc \in {"pay", "unpay", "start"} => new.who \in Travellers,
             groupStatus' \in {"COLLECTING", "CONFIRMED"},
             paid' \subseteq Travellers, started' \subseteq Travellers,
             redeemed' \in Nat, reversed' \in BOOLEAN
      PROVE  Goal
  <2>1. request' \in [Handler -> HandlerState] /\ Travellers' = Travellers
        /\ GroupLocalsOK' /\ SharesOK'
    BY <1>3, MovesStep
  <2>2. QED BY <1>1, <1>3, <2>1 DEF Moves
<1>4. ASSUME NEW r \in Handler, NEW m \in Traveller, ReadToPay(r, m) \/ ReadToUnpay(r, m) \/ ReadToStart(r, m)
      PROVE  Goal
  <2>1. PICK s \in {"pay", "unpay", "start"} : Moves(r, At(s, m)) /\ m \in Travellers
    BY <1>4 DEF ReadToPay, ReadToUnpay, ReadToStart, Moves, shareVars
  <2>2. UNCHANGED <<groupStatus, paid, started, reversed, redeemed>>
    BY <1>4 DEF ReadToPay, ReadToUnpay, ReadToStart, payVars
  <2>3. At(s, m) \in HandlerState /\ At(s, m).pc = s /\ At(s, m).who = m
    BY <1>0, <2>1, IdleType
  <2>4. QED BY <1>0, <1>3, <2>1, <2>2, <2>3 DEF GroupTypeOK
<1>5. ASSUME NEW r \in Handler, Pay(r) \/ Unpay(r) \/ StartCardPayment(r) PROVE Goal
  <2>1. Moves(r, Idle) /\ request[r].who \in Travellers
    BY <1>5 DEF Pay, Unpay, StartCardPayment, Moves, shareVars, GroupLocalsOK
  <2>2. /\ paid' \subseteq paid \cup {request[r].who} /\ started' \subseteq started \cup {request[r].who}
        /\ reversed' \in BOOLEAN /\ UNCHANGED <<groupStatus, redeemed>>
    BY <1>5 DEF Pay, Unpay, StartCardPayment, GroupTypeOK
  <2>3. QED BY <1>0, <1>3, <2>1, <2>2, IdleType DEF GroupTypeOK
<1>6. ASSUME NEW r \in Handler, ReadToConfirm(r) PROVE Goal
  <2>1. Moves(r, At("confirm", 0))
    BY <1>6 DEF ReadToConfirm, Moves, shareVars
  <2>2. UNCHANGED <<groupStatus, paid, started, reversed, redeemed>>
    BY <1>6 DEF ReadToConfirm, payVars
  <2>3. 0 \in 0 .. MaxTravellers
    BY GroupAssumption
  <2>4. At("confirm", 0) \in HandlerState /\ At("confirm", 0).pc = "confirm"
    BY <2>3, IdleType
  <2>5. QED BY <1>0, <1>3, <2>1, <2>2, <2>4 DEF GroupTypeOK
<1>7. ASSUME NEW r \in Handler, Confirm(r) \/ RequestDies(r) PROVE Goal
  <2>1. Moves(r, Idle)
    BY <1>7 DEF Confirm, RequestDies, Moves, shareVars
  <2>2. /\ UNCHANGED <<paid, started, reversed>> /\ redeemed' \in Nat
        /\ groupStatus' \in {"COLLECTING", "CONFIRMED"}
    BY <1>7 DEF Confirm, RequestDies, payVars, GroupTypeOK
  <2>3. QED BY <1>0, <1>3, <2>1, <2>2, IdleType DEF GroupTypeOK
<1>8. ASSUME NEW r \in Handler, AddRebalancing(r) PROVE Goal
  <2> DEFINE U == request[r].unpaid
             new == [m \in Traveller |-> IF m \in U \cup {party + 1}
                        THEN Part(request[r].left, U \cup {party + 1}, m) ELSE share[m]]
  <2>1. /\ request[r].pc = "add" /\ party < MaxTravellers /\ Join(r, new)
        /\ disturbed' = ~ request[r].fresh
    BY <1>8 DEF AddRebalancing, Join
  <2>2. U \in SUBSET Travellers /\ request[r].left \in Int /\ disturbed' \in BOOLEAN
    BY <1>0, <2>1 DEF GroupLocalsOK, HandlerState
  <2> HIDE DEF new
  <2>3. /\ new \in [Traveller -> Int]
        /\ SumFunctionOnSet(new, 1 .. party + 1)
             = request[r].left + SumFunctionOnSet(share, Travellers \ U)
    BY <2>1, <2>2, DealtShares DEF new
  <2>4. ~ disturbed' => SumFunctionOnSet(new, 1 .. party + 1) = Payable
    BY <2>1, <2>3 DEF SharesOK
  <2>5. QED BY <2>1, <2>2, <2>3, <2>4, JoinStep
<1>9. ASSUME NEW r \in Handler, NEW h \in HandShare, AddByHand(r, h) PROVE Goal
  <2>1. Join(r, [share EXCEPT ![party + 1] = h]) /\ disturbed' = TRUE
    BY <1>9 DEF AddByHand
  <2>2. [share EXCEPT ![party + 1] = h] \in [Traveller -> Int]
    BY GroupAssumption DEF GroupTypeOK
  <2>3. QED BY <2>1, <2>2, JoinStep
<1>10. ASSUME NEW m \in Traveller, CardPays(m) PROVE Goal
  <2>1. /\ UNCHANGED <<groupStatus, shareVars, started, reversed, redeemed, request>>
        /\ paid' = paid \cup {m} /\ m \in Travellers
    BY <1>0, <1>10 DEF CardPays
  <2>2. QED
    BY <2>1 DEF shareVars, GroupTypeOK, GroupLocalsOK, SharesOK, Travellers
<1>11. CASE UNCHANGED groupVars
  BY <1>11 DEF groupVars, shareVars, payVars, GroupTypeOK, GroupLocalsOK, SharesOK, Travellers
<1>12. QED
  BY <1>2, <1>4, <1>5, <1>6, <1>7, <1>8, <1>9, <1>10, <1>11 DEF GroupNext

LEMMA GroupInitHolds == GroupInit => GroupTypeOK /\ GroupLocalsOK /\ SharesOK /\ ConfirmedOK
<1> SUFFICES ASSUME GroupInit PROVE GroupTypeOK /\ GroupLocalsOK /\ SharesOK /\ ConfirmedOK
  OBVIOUS
<1>1. /\ party \in Traveller /\ paid = {} /\ started = {} /\ redeemed = 0 /\ reversed = FALSE
      /\ late = FALSE /\ groupStatus = "COLLECTING" /\ request = [r \in Handler |-> Idle]
  BY DEF GroupInit
<1>2. request \in [Handler -> HandlerState] /\ \A r \in Handler : request[r].pc = "idle"
  BY <1>1, IdleType
<1>3. Travellers \in SUBSET Traveller /\ Travellers # {} /\ IsFiniteSet(Travellers)
      /\ \A m \in Traveller : m <= party <=> m \in Travellers
  <2>1. party \in Nat /\ 1 <= party /\ party <= MaxTravellers /\ MaxTravellers \in Nat
    BY <1>1, GroupAssumption DEF Traveller
  <2>2. IsFiniteSet(1 .. party)
    BY <2>1, FS_Interval
  <2>3. 1 .. party \subseteq 1 .. MaxTravellers /\ 1 \in 1 .. party
        /\ \A m \in 1 .. MaxTravellers : m <= party <=> m \in 1 .. party
    BY <2>1
  <2>4. QED BY <2>2, <2>3 DEF Travellers, Traveller
<1>4. share \in [Traveller -> Int] /\ disturbed \in BOOLEAN
      /\ (~ disturbed => SumFunctionOnSet(share, Travellers) = Payable)
  <2>1. CASE /\ share = [m \in Traveller |-> IF m <= party THEN Part(Payable, Travellers, m) ELSE 0]
             /\ disturbed = FALSE
    <3> DEFINE f == [m \in Travellers |-> Part(Payable, Travellers, m)]
    <3>1. Payable \in Int
      BY GroupAssumption
    <3>2. (\A m \in Travellers : Part(Payable, Travellers, m) \in Int)
          /\ SumFunctionOnSet(f, Travellers) = Payable
      BY <1>3, <3>1, SplitEvenly
    <3>3. \A m \in Travellers : share[m] = f[m]
      BY <1>3, <2>1
    <3> HIDE DEF f
    <3>4. SumFunctionOnSet(share, Travellers) = Payable
      BY <1>3, <3>2, <3>3, SumSame
    <3>5. \A m \in Traveller : (IF m <= party THEN Part(Payable, Travellers, m) ELSE 0) \in Int
      BY <1>3, <3>2
    <3>6. QED BY <2>1, <3>4, <3>5
  <2>2. CASE /\ \E h \in HandShare : share = [m \in Traveller |-> IF m <= party THEN h ELSE 0]
             /\ disturbed = TRUE
    BY <2>2, GroupAssumption
  <2>3. QED BY <2>1, <2>2 DEF GroupInit
<1>5. QED
  BY <1>1, <1>2, <1>3, <1>4 DEF GroupTypeOK, GroupLocalsOK, SharesOK, ConfirmedOK, HandlerState

\* Every variable keeps its type, and the invariant about shares holds throughout (Groups).
THEOREM GroupTypes == GroupSpec => [](GroupTypeOK /\ GroupLocalsOK /\ SharesOK)
  BY GroupInitHolds, SharesStep, PTL DEF GroupSpec

\* The shares add up to what is payable, whatever the amount, the party and the order of
\* additions and payments, unless they were last written by hand or from an outdated read
\* (splitEvenly and the rebalancing of members).
THEOREM SharesCoverTheTotalAlways == GroupSpec => []SharesCoverTheTotal
<1>1. SharesOK => SharesCoverTheTotal
  BY DEF SharesOK, SharesCoverTheTotal, SumOver
<1>2. QED BY <1>1, GroupTypes, PTL

-----------------------------------------------------------------------------
\* Nobody is added, shares stand, and whoever pays, pays something: what was collected stays.
LEMMA ConfirmedKept ==
    ASSUME GroupTypeOK, ConfirmedOK, share' = share, reversed' = reversed, late' = late,
           paid \subseteq paid', paid' \subseteq Travellers,
           groupStatus' = "CONFIRMED" \/ (\E r \in Handler : request'[r].pc = "confirm")
             => groupStatus = "CONFIRMED" \/ \E r \in Handler : request[r].pc = "confirm"
    PROVE  ConfirmedOK'
<1> SUFFICES ASSUME groupStatus' = "CONFIRMED" \/ \E r \in Handler : request'[r].pc = "confirm",
                    ~ reversed, ~ late, \A m \in paid' : share[m] >= 0
             PROVE  SumFunctionOnSet(share, paid') >= Payable
  BY DEF ConfirmedOK
<1> DEFINE S == paid'
<1>1. S \in SUBSET Travellers /\ paid \in SUBSET S
  OBVIOUS
<1> HIDE DEF S
<1>2. IsFiniteSet(S) /\ \A m \in S : share[m] \in Int /\ share[m] >= 0
  BY <1>1, SharesSum DEF S
<1>3. SumFunctionOnSet(share, paid) >= Payable
  BY <1>1, <1>2 DEF ConfirmedOK
<1>4. SumFunctionOnSet(share, paid) <= SumFunctionOnSet(share, S)
  BY <1>1, <1>2, SumMonotone
<1>5. SumFunctionOnSet(share, paid) \in Int /\ SumFunctionOnSet(share, S) \in Int /\ Payable \in Int
  <2>1. paid \in SUBSET Travellers
    BY <1>1
  <2>2. QED BY <1>1, <2>1, SharesSum, GroupAssumption
<1>6. SumFunctionOnSet(share, S) >= Payable
  BY <1>3, <1>4, <1>5
<1>7. QED BY <1>6 DEF S

LEMMA ConfirmedStep ==
    ASSUME GroupTypeOK, GroupLocalsOK, ConfirmedOK, [GroupNext]_groupVars
    PROVE  ConfirmedOK'
<1>0. request \in [Handler -> HandlerState] /\ paid \subseteq Travellers /\ started \subseteq Travellers
  BY DEF GroupTypeOK, HandlerState
<1>1. ASSUME NEW r \in Handler, NEW newShare, Join(r, newShare) PROVE ConfirmedOK'
  <2>1. ASSUME NEW q \in Handler, request'[q].pc = "confirm" PROVE request[q].pc = "confirm"
    <3>1. request'[q] = IF q = r THEN Idle
                        ELSE IF request[q].pc = "add" THEN [request[q] EXCEPT !.fresh = FALSE]
                        ELSE request[q]
      BY <1>1 DEF Join
    <3>2. [request[q] EXCEPT !.fresh = FALSE].pc = request[q].pc
      BY <1>0 DEF HandlerState
    <3>3. QED BY <2>1, <3>1, <3>2, IdleType
  <2>2. groupStatus' = "CONFIRMED" \/ (\E q \in Handler : request'[q].pc = "confirm") => late'
    BY <1>1, <2>1 DEF Join
  <2>3. QED BY <2>2 DEF ConfirmedOK
<1>2. ASSUME NEW r \in Handler, ReadToConfirm(r) PROVE ConfirmedOK'
  <2>1. Payable - SumFunctionOnSet(share, paid) <= 0 /\ UNCHANGED <<shareVars, payVars>>
    BY <1>2 DEF ReadToConfirm, Collected, SumOver
  <2>2. SumFunctionOnSet(share, paid) \in Int /\ Payable \in Int
    BY <1>0, SharesSum, GroupAssumption
  <2>3. QED BY <2>1, <2>2 DEF ConfirmedOK, shareVars, payVars
<1>3. ASSUME NEW r \in Handler, Unpay(r) PROVE ConfirmedOK'
  BY <1>3 DEF Unpay, ConfirmedOK
<1>4. ASSUME NEW r \in Handler, Confirm(r) PROVE ConfirmedOK'
  <2>1. groupStatus = "CONFIRMED" \/ \E q \in Handler : request[q].pc = "confirm"
    BY <1>4 DEF Confirm
  <2>2. QED BY <1>0, <1>4, <2>1, ConfirmedKept DEF Confirm, shareVars, payVars
<1>5. ASSUME NEW r \in Handler, NEW new, request' = [request EXCEPT ![r] = new], new.pc # "confirm",
             UNCHANGED <<groupStatus, share, late, reversed>>, paid \subseteq paid',
             paid' \subseteq Travellers
      PROVE  ConfirmedOK'
  <2>1. \A q \in Handler : request'[q].pc = "confirm" => request[q].pc = "confirm"
    BY <1>0, <1>5
  <2>2. QED BY <1>5, <2>1, ConfirmedKept
<1>6. ASSUME NEW r \in Handler, NEW m \in Traveller, ReadToPay(r, m) \/ ReadToUnpay(r, m) \/ ReadToStart(r, m)
      PROVE  ConfirmedOK'
  <2>1. PICK s \in {"pay", "unpay", "start"} : request' = [request EXCEPT ![r] = At(s, m)]
    BY <1>6 DEF ReadToPay, ReadToUnpay, ReadToStart
  <2>2. At(s, m).pc # "confirm"
    BY DEF At, Idle
  <2>3. UNCHANGED <<groupStatus, share, late, reversed, paid>>
    BY <1>6 DEF ReadToPay, ReadToUnpay, ReadToStart, shareVars, payVars
  <2>4. QED BY <1>0, <1>5, <2>1, <2>2, <2>3
<1>7. ASSUME NEW r \in Handler, ReadToAdd(r) PROVE ConfirmedOK'
  <2> DEFINE new == [pc |-> "add", who |-> 0, unpaid |-> Travellers \ paid,
                     left |-> Payable - Collected, fresh |-> TRUE]
  <2>1. request' = [request EXCEPT ![r] = new] /\ new.pc # "confirm"
        /\ UNCHANGED <<groupStatus, share, late, reversed, paid>>
    BY <1>7 DEF ReadToAdd, shareVars, payVars
  <2> HIDE DEF new
  <2>2. QED BY <1>0, <1>5, <2>1
<1>8. ASSUME NEW r \in Handler, Pay(r) \/ StartCardPayment(r) \/ RequestDies(r) PROVE ConfirmedOK'
  <2>1. request' = [request EXCEPT ![r] = Idle] /\ Idle.pc # "confirm"
    BY <1>8, IdleType DEF Pay, StartCardPayment, RequestDies
  <2>2. UNCHANGED <<groupStatus, share, late, reversed>>
    BY <1>8 DEF Pay, StartCardPayment, RequestDies, shareVars, payVars
  <2>3. paid \subseteq paid' /\ paid' \subseteq Travellers
    BY <1>0, <1>8 DEF Pay, StartCardPayment, RequestDies, payVars, GroupLocalsOK
  <2>4. QED BY <1>5, <2>1, <2>2, <2>3
<1>9. ASSUME NEW m \in Traveller, CardPays(m) PROVE ConfirmedOK'
  <2>1. /\ UNCHANGED <<groupStatus, shareVars, reversed, request>>
        /\ paid' = paid \cup {m} /\ m \in Travellers
    BY <1>0, <1>9 DEF CardPays
  <2>2. QED BY <1>0, <2>1, ConfirmedKept DEF shareVars
<1>10. CASE UNCHANGED groupVars
  BY <1>10 DEF groupVars, shareVars, payVars, ConfirmedOK
<1>11. QED
  BY <1>1, <1>2, <1>3, <1>4, <1>6, <1>7, <1>8, <1>9, <1>10
     DEF GroupNext, AddRebalancing, AddByHand

\* A confirmed group has collected what it owes, unless a payment was taken back, a traveller
\* was added meanwhile or paid a share below nothing, whatever the shares and however many
\* handlers overlap (the confirmation's read and its transaction).
THEOREM ConfirmedIsCollectedAlways == GroupSpec => []ConfirmedIsCollected
<1>1. ConfirmedOK => ConfirmedIsCollected
  BY DEF ConfirmedOK, ConfirmedIsCollected, Collected, SumOver
<1>2. QED BY <1>1, GroupInitHolds, ConfirmedStep, GroupTypes, PTL DEF GroupSpec
=============================================================================
