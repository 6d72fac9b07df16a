--------------------------- MODULE InjectionProofs --------------------------
(***************************************************************************)
(* What Injection makes of a pod: the environment that each language gets, *)
(* the containers and volumes that are added, and what is left alone, for  *)
(* all pods, instances and containers.                                     *)
(***************************************************************************)
EXTENDS InjectionShapes, WellFoundedInduction, TLAPS

\* The prover of a leaf that names none.
USE ZenonT(60)

-----------------------------------------------------------------------------
(* Induction, and the loops.                                               *)

\* Induction over the natural numbers, with a set for the property.
LEMMA SetInduction ==
    ASSUME NEW P, 0 \in P, \A n \in Nat : n \in P => n + 1 \in P
    PROVE  Nat \subseteq P
<1> DEFINE T == Nat \ P
           R == OpToRel(<, Nat)
<1> SUFFICES ASSUME T # {} PROVE FALSE
  OBVIOUS
<1>1. IsWellFoundedOn(R, Nat)
  BY NatLessThanWellFounded
<1>2. PICK x \in T : \A y \in T : ~(<<y, x>> \in R)
  <2> HIDE DEF R
  <2>1. T \subseteq Nat
    OBVIOUS
  <2> HIDE DEF T
  <2> QED
    BY <1>1, <2>1, WFMin
<1>3. \A y \in T : ~(y < x)
  BY <1>2 DEF OpToRel
<1>4. x # 0 /\ x - 1 \in Nat
  BY SMTT(30)
<1>5. x - 1 \in T
  BY SMTT(30)
<1> QED
  BY <1>3, <1>4, <1>5, SMTT(30)

LEMMA MaxLast ==
    ASSUME NEW n \in Nat, NEW s \in SUBSET (1..n), n \in s
    PROVE  Max(s) = n
<1>1. \A y \in s : n >= y
  BY SMTT(30)
<1>2. \A x \in s : (\A y \in s : x >= y) => x = n
  <2> SUFFICES ASSUME NEW x \in s, \A y \in s : x >= y PROVE x = n
    OBVIOUS
  <2>1. x \in Int /\ x >= n /\ x <= n
    BY SMTT(30)
  <2> QED
    BY <2>1, SMTT(30)
<1> QED
  BY <1>1, <1>2 DEF Max

LEMMA Prefix ==
    ASSUME NEW n \in Nat \ {0}
    PROVE  (1..n) \ {n} = 1..(n - 1)
<1>1. \A k \in Int : k \in (1..n) \ {n} <=> k \in 1..(n - 1)
  BY SMTT(30)
<1>2. (1..n) \ {n} \subseteq Int /\ 1..(n - 1) \subseteq Int
  BY SMTT(30)
<1> QED
  BY <1>1, <1>2

LEMMA InjectRun ==
    ASSUME NEW insts, NEW input, NEW found, NEW v, NEW n \in Nat, DOMAIN v = 1..n
    PROVE  \E F : InjectsRun(F, insts, input, v, found, n)
<1> DEFINE Step(f, s) == IF s = {} THEN input ELSE inject(insts, f[s \ {Max(s)}], v[Max(s)], found)
           Iter(k, f) == f = [s \in SUBSET (1..k) |-> Step(f, s)]
           P == {k \in Nat : \E f : Iter(k, f)}
<1>1. 0 \in P
  <2>1. Iter(0, [s \in SUBSET (1..0) |-> input])
    BY SMTT(30)
  <2> HIDE DEF Iter
  <2> QED
    BY <2>1
<1>2. ASSUME NEW k \in Nat, k \in P
      PROVE  k + 1 \in P
  <2>1. PICK f : Iter(k, f)
    BY <1>2
  <2>2. \A s \in SUBSET (1..k) : f[s] = Step(f, s)
    BY <2>1
  <2> DEFINE g == [s \in SUBSET (1..(k + 1)) |->
                      IF k + 1 \in s THEN inject(insts, f[s \ {k + 1}], v[k + 1], found) ELSE f[s]]
  <2>3. ASSUME NEW s \in SUBSET (1..(k + 1))
        PROVE  g[s] = Step(g, s)
    <3>1. CASE k + 1 \in s
      <4>1. Max(s) = k + 1
        BY <3>1, MaxLast, SMTT(30)
      <4>2. s \ {k + 1} \in SUBSET (1..k) /\ k + 1 \notin s \ {k + 1} /\ s # {}
        BY <3>1, SMTT(30)
      <4>3. g[s \ {k + 1}] = f[s \ {k + 1}]
        BY <4>2
      <4> QED
        BY <3>1, <4>1, <4>2, <4>3
    <3>2. CASE k + 1 \notin s
      <4>1. s \in SUBSET (1..k)
        BY <3>2, SMTT(30)
      <4>2. g[s] = f[s]
        BY <3>2
      <4>3. f[s] = Step(f, s)
        BY <2>2, <4>1
      <4>4. g[s \ {Max(s)}] = f[s \ {Max(s)}]
        BY <3>2
      <4> HIDE DEF g
      <4> QED
        BY <4>2, <4>3, <4>4
    <3> QED
      BY <3>1, <3>2
  <2>4. g = [s \in DOMAIN g |-> g[s]] /\ DOMAIN g = SUBSET (1..(k + 1))
    OBVIOUS
  <2> HIDE DEF g, Step
  <2>5. Iter(k + 1, g)
    BY <2>3, <2>4
  <2> HIDE DEF Iter
  <2> QED
    BY <2>5, SMTT(30)
<1>3. n \in P
  <2> HIDE DEF P
  <2> QED
    BY <1>1, <1>2, SetInduction
<1> DEFINE h == CHOOSE h : Iter(n, h)
<1>4. Iter(n, h)
  <2> HIDE DEF Iter
  <2> QED
    BY <1>3
<1>5. InjectAll(insts, input, v, found) = h[1..n]
  BY DEF InjectAll, FoldLeft, MapThenFoldSet
<1>6. \A s \in SUBSET (1..n) : h[s] = Step(h, s)
  BY <1>4
<1> HIDE DEF h
<1> DEFINE F == [k \in 0..n |-> h[1..k]]
<1>7. F[0] = input
  <2>1. 1..0 = {} /\ 0 \in 0..n /\ {} \in SUBSET (1..n)
    BY SMTT(30)
  <2>2. F[0] = h[{}]
    BY <2>1
  <2> QED
    BY <1>6, <2>1, <2>2
<1>8. ASSUME NEW k \in 1..n
      PROVE  F[k] = inject(insts, F[k - 1], v[k], found)
  <2>1. Max(1..k) = k /\ (1..k) \ {k} = 1..(k - 1)
    BY MaxLast, Prefix, SMTT(30)
  <2>2. k \in 1..k /\ 1..k \in SUBSET (1..n) /\ k - 1 \in 0..n /\ k \in 0..n
    BY SMTT(30)
  <2>3. h[1..k] = inject(insts, h[(1..k) \ {Max(1..k)}], v[Max(1..k)], found)
    BY <1>6, <2>2
  <2>4. F[k] = h[1..k] /\ F[k - 1] = h[1..(k - 1)]
    BY <2>2
  <2> HIDE DEF F
  <2> QED
    BY <2>1, <2>3, <2>4
<1>9. F[n] = h[1..n]
  BY SMTT(30)
<1> HIDE DEF F
<1>10. InjectsRun(F, insts, input, v, found, n)
  BY <1>5, <1>7, <1>8, <1>9 DEF InjectsRun
<1> QED
  BY <1>10

LEMMA StepsFold ==
    ASSUME NEW insts, NEW input, NEW i, NEW found, NEW n \in Nat, DOMAIN Order = 1..n
    PROVE  \E F : FoldRun(F, insts, input, i, found, n)
<1> DEFINE Step(f, s) == IF s = {} THEN input ELSE LanguageStep(Order[Max(s)], insts, f[s \ {Max(s)}], i, found)
           Iter(k, f) == f = [s \in SUBSET (1..k) |-> Step(f, s)]
           P == {k \in Nat : \E f : Iter(k, f)}
<1>1. 0 \in P
  <2>1. Iter(0, [s \in SUBSET (1..0) |-> input])
    BY SMTT(30)
  <2> HIDE DEF Iter
  <2> QED
    BY <2>1
<1>2. ASSUME NEW k \in Nat, k \in P
      PROVE  k + 1 \in P
  <2>1. PICK f : Iter(k, f)
    BY <1>2
  <2>2. \A s \in SUBSET (1..k) : f[s] = Step(f, s)
    BY <2>1
  <2> DEFINE g == [s \in SUBSET (1..(k + 1)) |->
                      IF k + 1 \in s THEN LanguageStep(Order[k + 1], insts, f[s \ {k + 1}], i, found) ELSE f[s]]
  <2>3. ASSUME NEW s \in SUBSET (1..(k + 1))
        PROVE  g[s] = Step(g, s)
    <3>1. CASE k + 1 \in s
      <4>1. Max(s) = k + 1
        BY <3>1, MaxLast, SMTT(30)
      <4>2. s \ {k + 1} \in SUBSET (1..k) /\ k + 1 \notin s \ {k + 1} /\ s # {}
        BY <3>1, SMTT(30)
      <4>3. g[s \ {k + 1}] = f[s \ {k + 1}]
        BY <4>2
      <4> QED
        BY <3>1, <4>1, <4>2, <4>3
    <3>2. CASE k + 1 \notin s
      <4>1. s \in SUBSET (1..k)
        BY <3>2, SMTT(30)
      <4>2. g[s] = f[s]
        BY <3>2
      <4>3. f[s] = Step(f, s)
        BY <2>2, <4>1
      <4>4. g[s \ {Max(s)}] = f[s \ {Max(s)}]
        BY <3>2
      <4> HIDE DEF g
      <4> QED
        BY <4>2, <4>3, <4>4
    <3> QED
      BY <3>1, <3>2
  <2>4. g = [s \in DOMAIN g |-> g[s]] /\ DOMAIN g = SUBSET (1..(k + 1))
    OBVIOUS
  <2> HIDE DEF g, Step
  <2>5. Iter(k + 1, g)
    BY <2>3, <2>4
  <2> HIDE DEF Iter
  <2> QED
    BY <2>5, SMTT(30)
<1>3. n \in P
  <2> HIDE DEF P
  <2> QED
    BY <1>1, <1>2, SetInduction
<1> DEFINE h == CHOOSE h : Iter(n, h)
<1>4. Iter(n, h)
  <2> HIDE DEF Iter
  <2> QED
    BY <1>3
<1>5. LanguageSteps(insts, input, i, found) = h[1..n]
  BY DEF LanguageSteps, FoldLeft, MapThenFoldSet
<1>6. \A s \in SUBSET (1..n) : h[s] = Step(h, s)
  BY <1>4
<1> HIDE DEF h
<1> DEFINE F == [k \in 0..n |-> h[1..k]]
<1>7. F[0] = input
  <2>1. 1..0 = {} /\ 0 \in 0..n /\ {} \in SUBSET (1..n)
    BY SMTT(30)
  <2>2. F[0] = h[{}]
    BY <2>1
  <2> QED
    BY <1>6, <2>1, <2>2
<1>8. ASSUME NEW k \in 1..n
      PROVE  F[k] = LanguageStep(Order[k], insts, F[k - 1], i, found)
  <2>1. Max(1..k) = k /\ (1..k) \ {k} = 1..(k - 1)
    BY MaxLast, Prefix, SMTT(30)
  <2>2. k \in 1..k /\ 1..k \in SUBSET (1..n) /\ k - 1 \in 0..n /\ k \in 0..n
    BY SMTT(30)
  <2>3. h[1..k] = LanguageStep(Order[Max(1..k)], insts, h[(1..k) \ {Max(1..k)}], i, found)
    BY <1>6, <2>2
  <2>4. F[k] = h[1..k] /\ F[k - 1] = h[1..(k - 1)]
    BY <2>2
  <2> HIDE DEF F
  <2> QED
    BY <2>1, <2>3, <2>4
<1>9. F[n] = h[1..n]
  BY SMTT(30)
<1> HIDE DEF F
<1>10. FoldRun(F, insts, input, i, found, n)
  BY <1>5, <1>7, <1>8, <1>9 DEF FoldRun
<1> QED
  BY <1>10

-----------------------------------------------------------------------------
(* Sequences.                                                              *)

LEMMA SeqDomain ==
    ASSUME NEW s, IsSeq(s)
    PROVE  Len(s) \in Nat /\ DOMAIN s = 1..Len(s)
BY SMTT(30) DEF IsSeq

LEMMA IsSeqOf ==
    ASSUME NEW S, NEW s \in Seq(S)
    PROVE  IsSeq(s)
<1>1. Len(s) \in Nat /\ DOMAIN s = 1..Len(s) /\ s = [i \in 1..Len(s) |-> s[i]]
  BY SMTT(30)
<1>2. \A i \in 1..Len(s) : s[i] \in Range(s)
  BY <1>1 DEF Range
<1>3. s \in [1..Len(s) -> Range(s)]
  BY <1>1, <1>2
<1> QED
  BY <1>1, <1>3, SMTT(30) DEF IsSeq

LEMMA FunctionSeq ==
    ASSUME NEW n \in Nat, NEW s, s = [i \in 1..n |-> s[i]]
    PROVE  IsSeq(s) /\ Len(s) = n
<1>1. DOMAIN s = 1..n
  OBVIOUS
<1>2. \A i \in 1..n : s[i] \in Range(s)
  BY <1>1 DEF Range
<1>3. s \in [1..n -> Range(s)]
  BY <1>1, <1>2
<1> QED
  BY <1>3, SMTT(30) DEF IsSeq

LEMMA NullSeq == IsSeq(<<>>) /\ Len(<<>>) = 0 /\ Range(<<>>) = {}
<1>1. <<>> \in Seq({}) /\ Len(<<>>) = 0 /\ DOMAIN <<>> = {}
  BY SMTT(30)
<1>2. Range(<<>>) = {}
  BY <1>1 DEF Range
<1> QED
  BY <1>1, <1>2 DEF IsSeq

LEMMA AppendSeq ==
    ASSUME NEW s, IsSeq(s), NEW e
    PROVE  /\ IsSeq(Append(s, e)) /\ Len(Append(s, e)) = Len(s) + 1
           /\ Append(s, e)[Len(s) + 1] = e
           /\ \A i \in 1..Len(s) : Append(s, e)[i] = s[i]
           /\ Range(Append(s, e)) = Range(s) \cup {e}
<1> DEFINE S == Range(s) \cup {e}
           r == Append(s, e)
<1>1. s \in Seq(S) /\ e \in S
  BY SMTT(30) DEF IsSeq
<1> HIDE DEF S
<1>2. /\ r \in Seq(S) /\ Len(r) = Len(s) + 1 /\ r[Len(s) + 1] = e
      /\ \A i \in 1..Len(s) : r[i] = s[i]
  BY <1>1, SMTT(30)
<1>3. /\ Len(s) \in Nat /\ DOMAIN s = 1..Len(s) /\ DOMAIN r = 1..(Len(s) + 1)
  BY <1>1, <1>2, SMTT(30)
<1> HIDE DEF r
<1>4. 1..(Len(s) + 1) = 1..Len(s) \cup {Len(s) + 1}
  BY <1>3, SMTT(30)
<1>5. Range(r) = Range(s) \cup {e}
  <2>1. \A i \in DOMAIN r : r[i] \in Range(s) \cup {e}
    BY <1>2, <1>3, <1>4 DEF Range
  <2>2. Range(s) \subseteq Range(r)
    BY <1>2, <1>3, <1>4 DEF Range
  <2>3. e \in Range(r)
    BY <1>2, <1>3, <1>4 DEF Range
  <2> QED
    BY <2>1, <2>2, <2>3 DEF Range
<1>6. IsSeq(r)
  BY <1>2, IsSeqOf
<1> QED
  BY <1>2, <1>5, <1>6 DEF r

LEMMA ConcatSeq ==
    ASSUME NEW s, IsSeq(s), NEW t, IsSeq(t)
    PROVE  /\ IsSeq(s \o t) /\ Len(s \o t) = Len(s) + Len(t)
           /\ \A i \in 1..Len(s) : (s \o t)[i] = s[i]
           /\ \A i \in 1..Len(t) : (s \o t)[Len(s) + i] = t[i]
           /\ Range(s \o t) = Range(s) \cup Range(t)
<1> DEFINE S == Range(s) \cup Range(t)
           r == s \o t
<1>1. s \in Seq(S) /\ t \in Seq(S)
  BY SMTT(30) DEF IsSeq
<1> HIDE DEF S
<1>2. /\ r \in Seq(S) /\ Len(r) = Len(s) + Len(t)
      /\ \A i \in 1..Len(s) : r[i] = s[i]
      /\ \A i \in 1..Len(t) : r[Len(s) + i] = t[i]
  BY <1>1, SMTT(30)
<1>3. /\ Len(s) \in Nat /\ DOMAIN s = 1..Len(s) /\ Len(t) \in Nat /\ DOMAIN t = 1..Len(t)
      /\ DOMAIN r = 1..(Len(s) + Len(t))
  BY <1>1, <1>2, SMTT(30)
<1> HIDE DEF r
<1>4. \A i \in DOMAIN r : i \in 1..Len(s) \/ (i - Len(s) \in 1..Len(t) /\ i = Len(s) + (i - Len(s)))
  BY <1>3, SMTT(30)
<1>5. \A i \in 1..Len(s) : i \in DOMAIN r
  BY <1>3, SMTT(30)
<1>6. \A i \in 1..Len(t) : Len(s) + i \in DOMAIN r
  BY <1>3, SMTT(30)
<1>7. Range(s) \subseteq Range(r) /\ Range(t) \subseteq Range(r)
  BY <1>2, <1>3, <1>5, <1>6 DEF Range
<1>8. \A i \in DOMAIN r : r[i] \in Range(s) \cup Range(t)
  BY <1>2, <1>3, <1>4 DEF Range
<1>9. Range(r) = Range(s) \cup Range(t)
  BY <1>7, <1>8 DEF Range
<1>10. IsSeq(r)
  BY <1>2, IsSeqOf
<1> QED
  BY <1>2, <1>9, <1>10 DEF r

LEMMA RemoveAtSeq ==
    ASSUME NEW s, IsSeq(s), NEW k \in 1..Len(s), NEW r, r = RemoveAt(s, k)
    PROVE  /\ IsSeq(r) /\ Len(r) = Len(s) - 1
           /\ \A i \in 1..(k - 1) : r[i] = s[i]
           /\ \A i \in (k + 1)..Len(s) : r[i - 1] = s[i]
<1> DEFINE a == SubSeq(s, 1, k - 1)
           b == SubSeq(s, k + 1, Len(s))
<1>1. s \in Seq(Range(s)) /\ Len(s) \in Nat
  BY SMTT(30) DEF IsSeq
<1>2. /\ a \in Seq(Range(s)) /\ Len(a) = k - 1
      /\ \A i \in 1..(k - 1) : a[i] = s[i]
  BY <1>1, SMTT(30)
<1>3. /\ b \in Seq(Range(s)) /\ Len(b) = Len(s) - k
      /\ \A i \in 1..(Len(s) - k) : b[i] = s[k + i]
  BY <1>1, SMTT(30)
<1> HIDE DEF a, b
<1>4. /\ IsSeq(a \o b) /\ Len(a \o b) = Len(s) - 1
      /\ \A i \in 1..(k - 1) : (a \o b)[i] = s[i]
      /\ \A i \in 1..(Len(s) - k) : (a \o b)[k - 1 + i] = s[k + i]
  <2>1. IsSeq(a) /\ IsSeq(b)
    BY <1>2, <1>3, IsSeqOf
  <2>2. /\ IsSeq(a \o b) /\ Len(a \o b) = Len(a) + Len(b)
        /\ \A i \in 1..Len(a) : (a \o b)[i] = a[i]
        /\ \A i \in 1..Len(b) : (a \o b)[Len(a) + i] = b[i]
    BY <2>1, ConcatSeq, SMTT(20)
  <2> QED
    BY <1>1, <1>2, <1>3, <2>2, SMTT(30)
<1>5. ASSUME NEW i \in (k + 1)..Len(s)
      PROVE  (a \o b)[i - 1] = s[i]
  <2>1. i - k \in 1..(Len(s) - k) /\ k - 1 + (i - k) = i - 1 /\ k + (i - k) = i
    BY <1>1, SMTT(30)
  <2> QED
    BY <1>4, <2>1
<1>6. RemoveAt(s, k) = a \o b
  BY DEF RemoveAt, a, b
<1> QED
  BY <1>4, <1>5, <1>6

LEMMA OneSeq ==
    ASSUME NEW a
    PROVE  IsSeq(<<a>>) /\ Len(<<a>>) = 1 /\ <<a>>[1] = a /\ Range(<<a>>) = {a}
<1>1. <<a>> \in Seq({a}) /\ DOMAIN <<a>> = 1..1
  BY SMTT(30)
<1>2. Range(<<a>>) = {a}
  BY <1>1, SMTT(30) DEF Range
<1>3. IsSeq(<<a>>)
  BY <1>1, IsSeqOf
<1> QED
  BY <1>2, <1>3

LEMMA TwoSeq ==
    ASSUME NEW a, NEW b
    PROVE  /\ IsSeq(<<a, b>>) /\ Len(<<a, b>>) = 2 /\ <<a, b>>[1] = a /\ <<a, b>>[2] = b
           /\ Range(<<a, b>>) = {a, b}
<1>1. <<a, b>> \in Seq({a, b}) /\ DOMAIN <<a, b>> = 1..2 /\ Len(<<a, b>>) = 2
  BY SMTT(30)
<1>2. Range(<<a, b>>) = {a, b}
  BY <1>1, SMTT(30) DEF Range
<1>3. IsSeq(<<a, b>>)
  BY <1>1, IsSeqOf
<1> QED
  BY <1>1, <1>2, <1>3

-----------------------------------------------------------------------------
(* Environments.                                                           *)

LEMMA EnvVars ==
    ASSUME NEW env, IsEnv(env)
    PROVE  /\ IsSeq(env) /\ Len(env) \in Nat /\ DOMAIN env = 1..Len(env)
           /\ \A i \in 1..Len(env) : IsVar(env[i])
<1>1. IsSeq(env) /\ Len(env) \in Nat /\ DOMAIN env = 1..Len(env)
  BY SeqDomain DEF IsEnv
<1> QED
  BY <1>1 DEF IsEnv, IsVar, Range

LEMMA IsEnvOf ==
    ASSUME NEW env, IsSeq(env), \A i \in 1..Len(env) : IsVar(env[i])
    PROVE  IsEnv(env)
<1>1. DOMAIN env = 1..Len(env)
  BY SeqDomain
<1> QED
  BY <1>1 DEF IsEnv, IsVar, Range

LEMMA VarIsVar ==
    ASSUME NEW name, NEW value
    PROVE  /\ IsVar(Var(name, value)) /\ IsVar(FieldRef(name))
           /\ Var(name, value).name = name /\ Var(name, value).from = FALSE
           /\ Var(name, value).value = value
           /\ FieldRef(name).name = name /\ FieldRef(name).from = TRUE
           /\ FieldRef(name).value = {}
BY DEF IsVar, Var, FieldRef

LEMMA Minimum ==
    ASSUME NEW T \in SUBSET Nat, T # {}
    PROVE  Min(T) \in T /\ \A y \in T : Min(T) <= y
<1> DEFINE R == OpToRel(<, Nat)
<1>1. IsWellFoundedOn(R, Nat)
  BY NatLessThanWellFounded
<1>2. PICK x \in T : \A y \in T : ~(<<y, x>> \in R)
  <2> HIDE DEF R
  <2> QED
    BY <1>1, WFMin
<1>3. \A y \in T : ~(y < x)
  BY <1>2 DEF OpToRel
<1>4. \A y \in T : x <= y
  BY <1>3, SMTT(30)
<1> QED
  BY <1>4 DEF Min

\* The first variable of a name, 0 if there is none.
LEMMA IndexOfEnv ==
    ASSUME NEW env, IsEnv(env), NEW name, NEW k, k = getIndexOfEnv(env, name)
    PROVE  \/ k = 0 /\ \A j \in 1..Len(env) : env[j].name # name
           \/ /\ k \in 1..Len(env) /\ env[k].name = name
              /\ \A j \in 1..(k - 1) : env[j].name # name
<1> DEFINE I == {i \in 1..Len(env) : env[i].name = name}
<1>1. Len(env) \in Nat /\ DOMAIN env = 1..Len(env)
  BY EnvVars
<1>2. k = IF I = {} THEN 0 ELSE Min(I)
  BY <1>1 DEF getIndexOfEnv, FirstIndex
<1>3. CASE I = {}
  BY <1>2, <1>3
<1>4. CASE I # {}
  <2>1. I \in SUBSET Nat
    BY <1>1, SMTT(30)
  <2>2. k \in I /\ \A y \in I : k <= y
    <3> HIDE DEF I
    <3>1. k = Min(I)
      BY <1>2, <1>4
    <3> QED
      BY <1>4, <2>1, <3>1, Minimum, SMTT(30)
  <2>3. ASSUME NEW j \in 1..(k - 1)
        PROVE  env[j].name # name
    <3>1. j \in 1..Len(env) /\ ~(k <= j)
      BY <1>1, <2>2, SMTT(30)
    <3> QED
      BY <2>2, <3>1
  <2> QED
    BY <2>2, <2>3
<1> QED
  BY <1>3, <1>4

LEMMA AddedNothing ==
    ASSUME NEW env, IsEnv(env), NEW S
    PROVE  Added(env, env, S)
<1>1. Len(env) \in Nat
  BY EnvVars
<1> QED
  BY <1>1, SMTT(30) DEF Added

LEMMA AddedTwice ==
    ASSUME NEW a, IsEnv(a), NEW b, NEW c, NEW S, Added(a, b, S), Added(b, c, S)
    PROVE  Added(a, c, S)
<1>1. Len(a) \in Nat /\ Len(b) \in Nat /\ Len(c) \in Nat
  BY EnvVars DEF Added
<1>2. Len(a) <= Len(b) /\ Len(b) <= Len(c) /\ IsEnv(c)
  BY DEF Added
<1>3. ASSUME NEW i \in 1..Len(a)
      PROVE  c[i] = a[i]
  <2>1. i \in 1..Len(b)
    BY <1>1, <1>2, SMTT(30)
  <2> QED
    BY <2>1 DEF Added
<1>4. ASSUME NEW i \in (Len(a) + 1)..Len(c)
      PROVE  c[i] \in S
  <2>1. (i \in (Len(a) + 1)..Len(b) /\ i \in 1..Len(b)) \/ i \in (Len(b) + 1)..Len(c)
    BY <1>1, <1>2, SMTT(30)
  <2> QED
    BY <2>1 DEF Added
<1> QED
  BY <1>1, <1>2, <1>3, <1>4, SMTT(30) DEF Added

LEMMA AddedMore ==
    ASSUME NEW a, NEW b, NEW S, NEW T, Added(a, b, S), S \subseteq T
    PROVE  Added(a, b, T)
BY DEF Added

LEMMA AppendEnv ==
    ASSUME NEW env, IsEnv(env), NEW v, IsVar(v)
    PROVE  /\ Added(env, Append(env, v), {v}) /\ Len(Append(env, v)) = Len(env) + 1
           /\ Append(env, v)[Len(env) + 1] = v
<1> DEFINE r == Append(env, v)
<1>1. /\ IsSeq(r) /\ Len(r) = Len(env) + 1 /\ r[Len(env) + 1] = v
      /\ \A i \in 1..Len(env) : r[i] = env[i]
  BY EnvVars, AppendSeq, SMTT(30)
<1>2. Len(env) \in Nat /\ \A i \in 1..Len(env) : IsVar(env[i])
  BY EnvVars
<1> HIDE DEF r
<1>3. \A i \in 1..Len(r) : i \in 1..Len(env) \/ i = Len(env) + 1
  BY <1>1, <1>2, SMTT(30)
<1>4. \A i \in 1..Len(r) : IsVar(r[i])
  BY <1>1, <1>2, <1>3
<1>5. IsEnv(r)
  BY <1>1, <1>4, IsEnvOf
<1>6. \A i \in (Len(env) + 1)..Len(r) : i = Len(env) + 1
  BY <1>1, <1>2, SMTT(30)
<1>7. Added(env, r, {v})
  BY <1>1, <1>2, <1>5, <1>6, SMTT(30) DEF Added
<1> QED
  BY <1>1, <1>7 DEF r

LEMMA AddMissingEnv ==
    ASSUME NEW env, IsEnv(env), NEW v, IsVar(v), NEW new, new = AddMissing(env, v)
    PROVE  /\ Added(env, new, {v})
           /\ \E j \in 1..Len(new) : new[j].name = v.name
           /\ JustAdded(env, new, v)
<1> DEFINE k == getIndexOfEnv(env, v.name)
<1>1. \/ k = 0 /\ \A j \in 1..Len(env) : env[j].name # v.name
      \/ k \in 1..Len(env) /\ env[k].name = v.name
  BY IndexOfEnv, SMTT(30)
<1>2. Len(env) \in Nat
  BY EnvVars
<1>3. new = IF k # 0 THEN env ELSE Append(env, v)
  BY DEF AddMissing, Has
<1> HIDE DEF k
<1>4. CASE k # 0
  BY <1>1, <1>3, <1>4, AddedNothing DEF JustAdded
<1>5. CASE k = 0
  <2>1. /\ Added(env, new, {v}) /\ Len(new) = Len(env) + 1 /\ new[Len(env) + 1] = v
    BY <1>3, <1>5, AppendEnv
  <2>2. Len(env) + 1 \in 1..Len(new)
    BY <1>2, <2>1, SMTT(30)
  <2> QED
    BY <1>1, <1>2, <1>5, <2>1, <2>2, SMTT(30) DEF JustAdded
<1> QED
  BY <1>4, <1>5

LEMMA AllMissingAdded ==
    \A env, v :
        IsEnv(env) /\ IsEnv(v)
        => Added(env, AddAllMissing(env, v), Firsts(v)) /\ IsEnv(AddAllMissing(env, v))
<1>AddAllMissingRun.
      ASSUME NEW env, NEW v, NEW n \in Nat, DOMAIN v = 1..n
      PROVE  \E F : AddRun(F, env, v, n)
  <2> USE <1>AddAllMissingRun
  <2> DEFINE Step(f, s) == IF s = {} THEN env ELSE AddMissing(f[s \ {Max(s)}], v[Max(s)])
             Iter(k, f) == f = [s \in SUBSET (1..k) |-> Step(f, s)]
             P == {k \in Nat : \E f : Iter(k, f)}
  <2>1. 0 \in P
    <3>1. Iter(0, [s \in SUBSET (1..0) |-> env])
      BY SMTT(30)
    <3> HIDE DEF Iter
    <3> QED
      BY <3>1
  <2>2. ASSUME NEW k \in Nat, k \in P
        PROVE  k + 1 \in P
    <3>1. PICK f : Iter(k, f)
      BY <2>2
    <3>2. \A s \in SUBSET (1..k) : f[s] = Step(f, s)
      BY <3>1
    <3> DEFINE g == [s \in SUBSET (1..(k + 1)) |->
                        IF k + 1 \in s THEN AddMissing(f[s \ {k + 1}], v[k + 1]) ELSE f[s]]
    <3>3. ASSUME NEW s \in SUBSET (1..(k + 1))
          PROVE  g[s] = Step(g, s)
      <4>1. CASE k + 1 \in s
        <5>1. Max(s) = k + 1
          BY <4>1, MaxLast, SMTT(30)
        <5>2. s \ {k + 1} \in SUBSET (1..k) /\ k + 1 \notin s \ {k + 1} /\ s # {}
          BY <4>1, SMTT(30)
        <5>3. g[s \ {k + 1}] = f[s \ {k + 1}]
          BY <5>2
        <5> QED
          BY <4>1, <5>1, <5>2, <5>3
      <4>2. CASE k + 1 \notin s
        <5>1. s \in SUBSET (1..k)
          BY <4>2, SMTT(30)
        <5>2. g[s] = f[s]
          BY <4>2
        <5>3. f[s] = Step(f, s)
          BY <3>2, <5>1
        <5>4. g[s \ {Max(s)}] = f[s \ {Max(s)}]
          BY <4>2
        <5> HIDE DEF g
        <5> QED
          BY <5>2, <5>3, <5>4
      <4> QED
        BY <4>1, <4>2
    <3>4. g = [s \in DOMAIN g |-> g[s]] /\ DOMAIN g = SUBSET (1..(k + 1))
      OBVIOUS
    <3> HIDE DEF g, Step
    <3>5. Iter(k + 1, g)
      BY <3>3, <3>4
    <3> HIDE DEF Iter
    <3> QED
      BY <3>5, SMTT(30)
  <2>3. n \in P
    <3> HIDE DEF P
    <3> QED
      BY <2>1, <2>2, SetInduction
  <2> DEFINE h == CHOOSE h : Iter(n, h)
  <2>4. Iter(n, h)
    <3> HIDE DEF Iter
    <3> QED
      BY <2>3
  <2>5. AddAllMissing(env, v) = h[1..n]
    BY DEF AddAllMissing, FoldLeft, MapThenFoldSet
  <2>6. \A s \in SUBSET (1..n) : h[s] = Step(h, s)
    BY <2>4
  <2> HIDE DEF h
  <2> DEFINE F == [k \in 0..n |-> h[1..k]]
  <2>7. F[0] = env
    <3>1. 1..0 = {} /\ 0 \in 0..n /\ {} \in SUBSET (1..n)
      BY SMTT(30)
    <3>2. F[0] = h[{}]
      BY <3>1
    <3> QED
      BY <2>6, <3>1, <3>2
  <2>8. ASSUME NEW k \in 1..n
        PROVE  F[k] = AddMissing(F[k - 1], v[k])
    <3>1. Max(1..k) = k /\ (1..k) \ {k} = 1..(k - 1)
      BY MaxLast, Prefix, SMTT(30)
    <3>2. k \in 1..k /\ 1..k \in SUBSET (1..n) /\ k - 1 \in 0..n /\ k \in 0..n
      BY SMTT(30)
    <3>3. h[1..k] = AddMissing(h[(1..k) \ {Max(1..k)}], v[Max(1..k)])
      BY <2>6, <3>2
    <3>4. F[k] = h[1..k] /\ F[k - 1] = h[1..(k - 1)]
      BY <3>2
    <3> HIDE DEF F
    <3> QED
      BY <3>1, <3>3, <3>4
  <2>9. F[n] = h[1..n]
    BY SMTT(30)
  <2> HIDE DEF F
  <2>10. AddRun(F, env, v, n)
    BY <2>5, <2>7, <2>8, <2>9 DEF AddRun
  <2> QED
    BY <2>10
<1>AddAllMissingEnv.
      ASSUME NEW env, IsEnv(env), NEW v, IsEnv(v), NEW new, new = AddAllMissing(env, v)
      PROVE  /\ Added(env, new, Firsts(v))
             /\ \A m \in 1..Len(v) : \E j \in 1..Len(new) : new[j].name = v[m].name
             /\ \A i \in (Len(env) + 1)..Len(new) : \A j \in 1..Len(env) :
                   env[j].name # new[i].name
  <2> USE <1>AddAllMissingEnv
  <2>1. Len(v) \in Nat /\ DOMAIN v = 1..Len(v) /\ \A i \in 1..Len(v) : IsVar(v[i])
    BY EnvVars
  <2>2. Len(env) \in Nat
    BY EnvVars
  <2>3. PICK F : AddRun(F, env, v, Len(v))
    BY <2>1, <1>AddAllMissingRun
  <2> DEFINE Names(n) == \A m \in 1..n : \E j \in 1..Len(F[n]) : F[n][j].name = v[m].name
             Fresh(n) == \A i \in (Len(env) + 1)..Len(F[n]) : \A j \in 1..Len(env) :
                            env[j].name # F[n][i].name
             P == {n \in Nat : n <= Len(v) => Added(env, F[n], Firsts(v)) /\ Names(n) /\ Fresh(n)}
  <2>4. 0 \in P
    <3>1. Added(env, F[0], Firsts(v))
      BY <2>3, AddedNothing DEF AddRun
    <3>2. Names(0)
      BY SMTT(30)
    <3>3. Fresh(0)
      BY <2>2, <2>3, SMTT(30) DEF AddRun
    <3> QED
      BY <3>1, <3>2, <3>3
  <2>5. ASSUME NEW n \in Nat, n \in P
        PROVE  n + 1 \in P
    <3> SUFFICES ASSUME n + 1 <= Len(v)
                 PROVE  Added(env, F[n + 1], Firsts(v)) /\ Names(n + 1) /\ Fresh(n + 1)
      BY SMTT(30)
    <3> DEFINE x == v[n + 1]
               a == F[n]
               b == F[n + 1]
    <3>1. /\ n + 1 \in 1..Len(v) /\ n <= Len(v) /\ (n + 1) - 1 = n
      BY <2>1, SMTT(30)
    <3>2. Added(env, a, Firsts(v)) /\ Names(n) /\ Fresh(n)
      BY <2>5, <3>1
    <3>3. b = AddMissing(a, x) /\ IsVar(x) /\ IsEnv(a)
      BY <2>1, <2>3, <3>1, <3>2 DEF Added, AddRun
    <3>4. /\ Added(a, b, {x})
          /\ \E j \in 1..Len(b) : b[j].name = x.name
          /\ \/ b = a
             \/ /\ \A j \in 1..Len(a) : a[j].name # x.name
                /\ Len(b) = Len(a) + 1 /\ b[Len(a) + 1] = x
      <4> HIDE DEF a, b, x
      <4>1. Added(a, b, {x}) /\ \E j \in 1..Len(b) : b[j].name = x.name
        BY <3>3, AddMissingEnv, SMTT(30)
      <4>2. JustAdded(a, b, x)
        BY <3>3, AddMissingEnv
      <4> QED
        BY <4>1, <4>2 DEF JustAdded
    <3>5. Len(a) \in Nat /\ Len(b) \in Nat /\ Len(a) <= Len(b) /\ Len(env) <= Len(a)
      BY <3>2, <3>3, <3>4, EnvVars DEF Added
    <3>6. \A i \in 1..Len(a) : i \in 1..Len(b) /\ b[i] = a[i]
      BY <3>4, <3>5, SMTT(30) DEF Added
    <3>7. Names(n + 1)
      <4> SUFFICES ASSUME NEW m \in 1..(n + 1)
                   PROVE  \E j \in 1..Len(b) : b[j].name = v[m].name
        OBVIOUS
      <4>1. CASE m = n + 1
        BY <3>4, <4>1
      <4>2. CASE m \in 1..n
        <5>1. PICK j \in 1..Len(a) : a[j].name = v[m].name
          BY <3>2, <4>2
        <5> QED
          BY <3>6, <5>1
      <4> QED
        BY <4>1, <4>2, SMTT(30)
    <3>8. CASE b = a
      BY <3>2, <3>7, <3>8
    <3>9. CASE /\ \A j \in 1..Len(a) : a[j].name # x.name
               /\ Len(b) = Len(a) + 1 /\ b[Len(a) + 1] = x
      <4>1. \A j \in 1..n : v[j].name # x.name
        BY <3>2, <3>9
      <4>2. x \in Firsts(v)
        BY <3>1, <4>1 DEF Firsts
      <4>3. Added(a, b, Firsts(v))
        BY <3>4, <4>2, AddedMore
      <4>4. Added(env, b, Firsts(v))
        <5> HIDE DEF a, b
        <5> QED
          BY <3>2, <4>3, AddedTwice
      <4>5. Fresh(n + 1)
        <5> SUFFICES ASSUME NEW i \in (Len(env) + 1)..Len(b), NEW j \in 1..Len(env)
                     PROVE  env[j].name # b[i].name
          OBVIOUS
        <5>1. j \in 1..Len(a) /\ a[j] = env[j]
          BY <2>2, <3>2, <3>5, SMTT(30) DEF Added
        <5>2. CASE i \in 1..Len(a)
          <6>1. b[i] = a[i] /\ i \in (Len(env) + 1)..Len(a)
            BY <2>2, <3>5, <3>6, <5>2, SMTT(30)
          <6> QED
            BY <3>2, <6>1
        <5>3. CASE i = Len(a) + 1
          BY <3>9, <5>1, <5>3
        <5> QED
          BY <2>2, <3>5, <3>9, <5>2, <5>3, SMTT(30)
      <4> QED
        BY <3>7, <4>4, <4>5
    <3> QED
      BY <3>4, <3>8, <3>9
  <2>6. Nat \subseteq P
    <3> HIDE DEF P
    <3> QED
      BY <2>4, <2>5, SetInduction
  <2>7. Added(env, F[Len(v)], Firsts(v)) /\ Names(Len(v)) /\ Fresh(Len(v))
    BY <2>1, <2>6, SMTT(30)
  <2> QED
    BY <2>3, <2>7, SMTT(30) DEF AddRun
<1> SUFFICES ASSUME NEW env, IsEnv(env), NEW v, IsEnv(v)
             PROVE  Added(env, AddAllMissing(env, v), Firsts(v)) /\ IsEnv(AddAllMissing(env, v))
  OBVIOUS
<1> DEFINE new == AddAllMissing(env, v)
<1>1. new = AddAllMissing(env, v)
  OBVIOUS
<1> HIDE DEF new
<1>2. Added(env, new, Firsts(v))
  BY <1>1, <1>AddAllMissingEnv
<1>3. IsEnv(new)
  BY <1>2 DEF Added
<1> QED
  BY <1>1, <1>2, <1>3

LEMMA PutEnv ==
    ASSUME NEW env, IsEnv(env), NEW k \in 1..Len(env), NEW new,
           new = [i \in 1..Len(env) |-> new[i]], IsVar(new[k]),
           \A i \in 1..Len(env) : i # k => new[i] = env[i]
    PROVE  IsEnv(new) /\ Len(new) = Len(env)
<1>1. Len(env) \in Nat /\ \A i \in 1..Len(env) : IsVar(env[i])
  BY EnvVars
<1>2. IsSeq(new) /\ Len(new) = Len(env)
  BY <1>1, FunctionSeq
<1>3. \A i \in 1..Len(env) : IsVar(new[i])
  BY <1>1
<1> QED
  BY <1>2, <1>3, IsEnvOf

LEMMA ConcatEnv ==
    ASSUME NEW env, IsEnv(env), NEW v, IsVar(v), NEW new, new = Concat(env, v),
           NEW k, k = getIndexOfEnv(env, v.name)
    PROVE  /\ IsEnv(new)
           /\ k = 0 => new = Append(env, v)
           /\ k # 0 => /\ Len(new) = Len(env)
                       /\ new[k] = [env[k] EXCEPT !.value = @ \cup v.value]
                       /\ \A i \in 1..Len(env) : i # k => new[i] = env[i]
<1>1. \/ k = 0
      \/ k \in 1..Len(env) /\ env[k].name = v.name
  BY IndexOfEnv, SMTT(30)
<1>2. new = IF k # 0 THEN [env EXCEPT ![k].value = @ \cup v.value] ELSE Append(env, v)
  BY DEF Concat, Has
<1>3. CASE k = 0
  BY <1>2, <1>3, AppendEnv, SMTT(30) DEF Added
<1>4. CASE k # 0
  <2> DEFINE w == [env[k] EXCEPT !.value = @ \cup v.value]
  <2>1. k \in 1..Len(env) /\ IsVar(env[k]) /\ DOMAIN env = 1..Len(env)
    BY <1>1, <1>4, EnvVars
  <2>2. IsVar(w)
    BY <2>1 DEF IsVar
  <2>3. /\ new = [i \in 1..Len(env) |-> new[i]] /\ new[k] = w
        /\ \A i \in 1..Len(env) : i # k => new[i] = env[i]
    BY <1>2, <1>4, <2>1
  <2> HIDE DEF w
  <2>4. IsEnv(new) /\ Len(new) = Len(env)
    BY <2>1, <2>2, <2>3, PutEnv
  <2> QED
    BY <1>4, <2>3, <2>4 DEF w
<1> QED
  BY <1>3, <1>4

LEMMA ConcatIsEnv ==
    ASSUME NEW env, IsEnv(env), NEW v, IsVar(v), NEW new, new = Concat(env, v)
    PROVE  IsEnv(new)
<1> DEFINE k == getIndexOfEnv(env, v.name)
<1>1. k = getIndexOfEnv(env, v.name)
  OBVIOUS
<1> HIDE DEF k
<1> QED
  BY <1>1, ConcatEnv

-----------------------------------------------------------------------------
(* Pods.                                                                   *)

LEMMA PodParts ==
    ASSUME NEW p, IsPod(p)
    PROVE  /\ Len(p.containers) \in Nat /\ DOMAIN p.containers = 1..Len(p.containers)
           /\ Len(p.inits) \in Nat /\ DOMAIN p.inits = 1..Len(p.inits)
           /\ \A i \in 1..Len(p.containers) : IsContainer(p.containers[i])
           /\ \A i \in 1..Len(p.inits) : IsContainer(p.inits[i])
<1>1. /\ Len(p.containers) \in Nat /\ DOMAIN p.containers = 1..Len(p.containers)
      /\ Len(p.inits) \in Nat /\ DOMAIN p.inits = 1..Len(p.inits)
  BY SeqDomain DEF IsPod
<1> QED
  BY <1>1 DEF IsPod, Range

LEMMA EditPod ==
    ASSUME NEW p, IsPod(p), NEW q, NEW i \in 1..Len(p.containers), Edit(p, q, i),
           IsContainer(q.containers[i]), IsSeq(q.inits), IsSeq(q.volumes),
           \A c \in Range(q.inits) : IsContainer(c)
    PROVE  IsPod(q) /\ Len(q.containers) = Len(p.containers)
<1>1. /\ Len(p.containers) \in Nat /\ DOMAIN p.containers = 1..Len(p.containers)
      /\ \A j \in 1..Len(p.containers) : IsContainer(p.containers[j])
  BY PodParts
<1> DEFINE n == Len(p.containers)
           cs == q.containers
<1>2. cs = [j \in 1..n |-> cs[j]]
  BY <1>1 DEF Edit
<1>3. IsSeq(cs) /\ Len(cs) = n /\ DOMAIN cs = 1..n
  <2> HIDE DEF n, cs
  <2>1. n \in Nat
    BY <1>1 DEF n
  <2>2. IsSeq(cs) /\ Len(cs) = n
    BY <1>2, <2>1, FunctionSeq
  <2> QED
    BY <2>2, SeqDomain
<1>4. \A j \in 1..n : IsContainer(cs[j])
  BY <1>1 DEF Edit
<1>5. \A c \in Range(cs) : IsContainer(c)
  BY <1>3, <1>4 DEF Range
<1>6. DOMAIN q = DOMAIN p
  BY DEF Edit, Rest
<1> QED
  BY <1>3, <1>5, <1>6 DEF IsPod

LEMMA EnvContainer ==
    ASSUME NEW c, IsContainer(c), NEW env, IsEnv(env), NEW d, d = [c EXCEPT !.env = env]
    PROVE  /\ IsContainer(d) /\ d.env = env
           /\ d.name = c.name /\ d.agent = c.agent /\ d.mounts = c.mounts /\ d.probe = c.probe
           /\ d.ports = c.ports
<1>1. DOMAIN c = {"name", "agent", "env", "mounts", "probe", "ports"} /\ IsSeq(c.mounts)
  BY DEF IsContainer
<1>2. /\ DOMAIN d = DOMAIN c /\ d.env = env
      /\ d.name = c.name /\ d.agent = c.agent /\ d.mounts = c.mounts /\ d.probe = c.probe
      /\ d.ports = c.ports
  BY <1>1
<1> QED
  BY <1>1, <1>2 DEF IsContainer

LEMMA EnvSetPod ==
    ASSUME NEW p, IsPod(p), NEW q, NEW i \in 1..Len(p.containers), NEW env, IsEnv(env),
           EnvSet(p, q, i, env)
    PROVE  IsPod(q) /\ Len(q.containers) = Len(p.containers)
<1>1. IsContainer(p.containers[i])
  BY PodParts
<1>2. IsContainer(q.containers[i])
  BY <1>1, EnvContainer, SMTT(30) DEF EnvSet
<1>3. Edit(p, q, i) /\ q.inits = p.inits /\ q.volumes = p.volumes
  BY DEF EnvSet
<1>4. IsSeq(q.inits) /\ IsSeq(q.volumes) /\ \A c \in Range(q.inits) : IsContainer(c)
  BY <1>3 DEF IsPod
<1> QED
  BY <1>2, <1>3, <1>4, EditPod

-----------------------------------------------------------------------------
(* The configuration that all have in common.                              *)

LEMMA ConcatAdded ==
    ASSUME NEW env, IsEnv(env), NEW r, IsEnv(r)
    PROVE  Joined(env, r, env \o r)
<1> DEFINE new == env \o r
<1>1. /\ IsSeq(env) /\ Len(env) \in Nat /\ IsSeq(r) /\ Len(r) \in Nat
      /\ DOMAIN r = 1..Len(r)
      /\ \A i \in 1..Len(env) : IsVar(env[i])
      /\ \A i \in 1..Len(r) : IsVar(r[i])
  BY EnvVars
<1>2. /\ IsSeq(new) /\ Len(new) = Len(env) + Len(r)
      /\ \A i \in 1..Len(env) : new[i] = env[i]
      /\ \A i \in 1..Len(r) : new[Len(env) + i] = r[i]
  BY <1>1, ConcatSeq, SMTT(30)
<1>3. ASSUME NEW i \in (Len(env) + 1)..Len(new)
      PROVE  IsVar(new[i]) /\ new[i] \in Range(r)
  <2>1. i - Len(env) \in 1..Len(r) /\ Len(env) + (i - Len(env)) = i
    BY <1>1, <1>2, SMTT(30)
  <2>2. new[i] = r[i - Len(env)]
    BY <1>2, <2>1
  <2> QED
    BY <1>1, <2>1, <2>2 DEF Range
<1>4. \A i \in 1..Len(new) : IsVar(new[i])
  BY <1>1, <1>2, <1>3, SMTT(30)
<1>5. IsEnv(new)
  BY <1>2, <1>4, IsEnvOf
<1> QED
  BY <1>1, <1>2, <1>3, <1>5, SMTT(30) DEF Added, Joined

LEMMA DownwardSeq ==
    /\ Range(Downward) = {Downward[1], Downward[2], Downward[3]}
    /\ Downward[1] = [key |-> <<"pod", "name">>, var |-> "OTEL_RESOURCE_ATTRIBUTES_POD_NAME"]
    /\ Downward[2] = [key |-> <<"pod", "uid">>, var |-> "OTEL_RESOURCE_ATTRIBUTES_POD_UID"]
    /\ Downward[3] = [key |-> <<"node", "name">>, var |-> "OTEL_RESOURCE_ATTRIBUTES_NODE_NAME"]
<1>1. DOMAIN Downward = {1, 2, 3}
  BY SMTT(30) DEF Downward
<1>2. Range(Downward) = {Downward[1], Downward[2], Downward[3]}
  BY <1>1 DEF Range
<1> QED
  BY <1>2 DEF Downward

LEMMA SettingVars ==
    ASSUME NEW inst, NEW input, NEW app, NEW res,
           NEW v \in Settings(inst, input, app, res) \cup FieldRefs(inst, res)
    PROVE  IsVar(v) /\ v.name \in SettingNames
<1>1. CASE v \in Settings(inst, input, app, res)
  <2>1. PICK name, value : v = Var(name, value) /\ name \in SettingNames
    BY <1>1 DEF Settings, SettingNames
  <2>2. IsVar(Var(name, value)) /\ Var(name, value).name = name
    BY VarIsVar
  <2> QED
    BY <2>1, <2>2
<1>2. CASE v \in FieldRefs(inst, res)
  <2>1. PICK d \in Range(Downward) : v = FieldRef(d.var)
    BY <1>2 DEF FieldRefs
  <2>2. d.var \in SettingNames
    BY <2>1, DownwardSeq, SMTT(30) DEF SettingNames
  <2> QED
    BY <2>1, <2>2, VarIsVar
<1> QED
  BY <1>1, <1>2

\* What CommonEnv makes of an environment.
LEMMA CommonEnvShape ==
    \A inst, input, env, app, res, new, S :
        /\ IsEnv(env) /\ new = CommonEnv(inst, input, env, app, res)
        /\ S = Settings(inst, input, app, res) \cup FieldRefs(inst, res)
        => /\ Configured(env, new, S, Attributes(inst, res))
           /\ \A v \in FieldRefs(inst, res) : \E j \in 1..(Len(new) - 1) : new[j] = v
<1>MoveEnv.
      ASSUME NEW env, IsEnv(env), NEW k \in 1..Len(env), NEW new, new = moveEnvToListEnd(env, k)
      PROVE  /\ IsEnv(new) /\ Len(new) = Len(env) /\ new[Len(env)] = env[k]
             /\ \A i \in 1..(k - 1) : new[i] = env[i]
             /\ \A i \in (k + 1)..Len(env) : new[i - 1] = env[i]
  <2> USE <1>MoveEnv
  <2> DEFINE r == RemoveAt(env, k)
  <2>1. /\ IsSeq(env) /\ Len(env) \in Nat /\ DOMAIN env = 1..Len(env)
        /\ \A i \in 1..Len(env) : IsVar(env[i])
    BY EnvVars
  <2>2. /\ IsSeq(r) /\ Len(r) = Len(env) - 1
        /\ \A i \in 1..(k - 1) : r[i] = env[i]
        /\ \A i \in (k + 1)..Len(env) : r[i - 1] = env[i]
    BY <2>1, RemoveAtSeq
  <2>3. new = Append(r, env[k])
    BY <2>1 DEF moveEnvToListEnd
  <2> HIDE DEF r
  <2>4. ASSUME NEW i \in 1..Len(r)
        PROVE  IsVar(r[i])
    <3>1. CASE i \in 1..(k - 1)
      <4>1. i \in 1..Len(env)
        BY <2>1, <3>1, SMTT(30)
      <4> QED
        BY <2>1, <2>2, <3>1, <4>1
    <3>2. CASE i \in k..Len(r)
      <4>1. i + 1 \in (k + 1)..Len(env) /\ i + 1 \in 1..Len(env) /\ (i + 1) - 1 = i
        BY <2>1, <2>2, <3>2, SMTT(30)
      <4> QED
        BY <2>1, <2>2, <4>1
    <3> QED
      BY <2>1, <2>2, <3>1, <3>2, SMTT(30)
  <2>5. IsEnv(r)
    BY <2>2, <2>4, IsEnvOf
  <2>6. /\ Added(r, new, {env[k]}) /\ Len(new) = Len(env) /\ new[Len(env)] = env[k]
    <3>1. IsVar(env[k])
      BY <2>1
    <3>2. /\ Added(r, new, {env[k]}) /\ Len(new) = Len(r) + 1 /\ new[Len(r) + 1] = env[k]
      BY <2>3, <2>5, <3>1, AppendEnv
    <3> QED
      BY <2>1, <2>2, <3>2, SMTT(30)
  <2>7. \A i \in 1..(k - 1) : i \in 1..Len(r)
    BY <2>1, <2>2, SMTT(30)
  <2>8. \A i \in (k + 1)..Len(env) : i - 1 \in 1..Len(r)
    BY <2>1, <2>2, SMTT(30)
  <2> QED
    BY <2>2, <2>6, <2>7, <2>8 DEF Added
<1>IndexIs.
      ASSUME NEW env, IsEnv(env), NEW name, NEW k \in 1..Len(env), env[k].name = name,
             \A j \in 1..(k - 1) : env[j].name # name
      PROVE  getIndexOfEnv(env, name) = k
  <2> USE <1>IndexIs
  <2> DEFINE i == getIndexOfEnv(env, name)
  <2>1. \/ i = 0 /\ \A j \in 1..Len(env) : env[j].name # name
        \/ /\ i \in 1..Len(env) /\ env[i].name = name
           /\ \A j \in 1..(i - 1) : env[j].name # name
    BY IndexOfEnv, SMTT(30)
  <2>2. Len(env) \in Nat
    BY EnvVars
  <2> HIDE DEF i
  <2>3. i = k
    BY <2>1, <2>2, SMTT(30)
  <2> QED
    BY <2>3 DEF i
<1>IndexNone.
      ASSUME NEW env, IsEnv(env), NEW name, \A j \in 1..Len(env) : env[j].name # name
      PROVE  getIndexOfEnv(env, name) = 0
  <2> USE <1>IndexNone
  <2> DEFINE i == getIndexOfEnv(env, name)
  <2>1. i = 0 \/ (i \in 1..Len(env) /\ env[i].name = name)
    BY IndexOfEnv, SMTT(30)
  <2> HIDE DEF i
  <2>2. i = 0
    BY <2>1
  <2> QED
    BY <2>2 DEF i
<1>ConfiguredNew.
      ASSUME NEW env, IsEnv(env), NEW S, \A v \in S : v.name # ORA, NEW W,
             getIndexOfEnv(env, ORA) = 0,
             NEW a, Added(env, a, S), NEW b, b = Concat(a, Var(ORA, W)),
             NEW c, Added(b, c, S), NEW new, new = moveEnvToListEnd(c, getIndexOfEnv(c, ORA))
      PROVE  Configured(env, new, S, W) /\ StillThere(env, a, new)
  <2> USE <1>ConfiguredNew
  <2>1. \A j \in 1..Len(env) : env[j].name # ORA
    <3> DEFINE k == getIndexOfEnv(env, ORA)
    <3>1. k = 0 /\ (k \in 1..Len(env) => 0 \in 1..Len(env))
      OBVIOUS
    <3>2. Len(env) \in Nat
      BY EnvVars
    <3> QED
      BY <3>1, <3>2, IndexOfEnv, SMTT(30)
  <2>2. /\ Len(env) \in Nat /\ Len(a) \in Nat /\ Len(env) <= Len(a) /\ IsEnv(a)
        /\ \A i \in 1..Len(env) : a[i] = env[i]
        /\ \A i \in (Len(env) + 1)..Len(a) : a[i] \in S
    BY EnvVars DEF Added
  <2>3. \A j \in 1..Len(a) : a[j].name # ORA
    BY <2>1, <2>2, SMTT(30)
  <2>4. getIndexOfEnv(a, ORA) = 0
    BY <2>2, <2>3, <1>IndexNone
  <2> DEFINE x == Var(ORA, W)
  <2>5. IsVar(x) /\ x.name = ORA
    BY VarIsVar
  <2> HIDE DEF x
  <2>6. b = Append(a, x) /\ IsEnv(b)
    <3>1. b = Concat(a, x)
      BY DEF x
    <3>2. getIndexOfEnv(a, x.name) = 0
      BY <2>4, <2>5
    <3>3. b = Append(a, x)
      BY <3>1, <3>2 DEF Concat, Has
    <3> QED
      BY <2>2, <2>5, <3>3, AppendEnv, SMTT(30) DEF Added
  <2>7. /\ Len(b) = Len(a) + 1 /\ b[Len(a) + 1] = x
        /\ \A i \in 1..Len(a) : b[i] = a[i]
    BY <2>2, <2>5, <2>6, AppendEnv, SMTT(30) DEF Added
  <2>8. /\ Len(c) \in Nat /\ Len(b) <= Len(c) /\ IsEnv(c)
        /\ \A i \in 1..Len(b) : c[i] = b[i]
        /\ \A i \in (Len(b) + 1)..Len(c) : c[i] \in S
    BY EnvVars DEF Added
  <2> DEFINE p == Len(a) + 1
  <2>9. /\ p \in 1..Len(b) /\ p \in 1..Len(c) /\ c[p] = x
    BY <2>2, <2>7, <2>8, SMTT(30)
  <2>10. \A i \in 1..(p - 1) : c[i] = a[i] /\ i \in 1..Len(a)
    BY <2>2, <2>7, <2>8, SMTT(30)
  <2>11. getIndexOfEnv(c, ORA) = p
    <3>1. c[p].name = ORA /\ \A i \in 1..(p - 1) : c[i].name # ORA
      BY <2>3, <2>5, <2>9, <2>10
    <3> HIDE DEF p
    <3> QED
      BY <2>8, <2>9, <3>1, <1>IndexIs, SMTT(30)
  <2>12. /\ IsEnv(new) /\ Len(new) = Len(c) /\ new[Len(c)] = c[p]
         /\ \A i \in 1..(p - 1) : new[i] = c[i]
         /\ \A i \in (p + 1)..Len(c) : new[i - 1] = c[i]
    <3> HIDE DEF p
    <3>1. new = moveEnvToListEnd(c, p)
      BY <2>11
    <3> QED
      BY <2>8, <2>9, <3>1, <1>MoveEnv, SMTT(30)
  <2>13. \A i \in 1..Len(a) : new[i] = a[i] /\ i \in 1..(Len(new) - 1)
    BY <2>2, <2>7, <2>8, <2>10, <2>12, SMTT(30)
  <2>14. ASSUME NEW i \in p..(Len(new) - 1)
         PROVE  new[i] \in S
    <3>1. /\ i + 1 \in (p + 1)..Len(c) /\ (i + 1) - 1 = i /\ i + 1 \in (Len(b) + 1)..Len(c)
      BY <2>2, <2>7, <2>8, <2>12, SMTT(30)
    <3>2. c[i + 1] \in S
      BY <2>8, <3>1
    <3> QED
      BY <2>12, <3>1, <3>2
  <2>15. ASSUME NEW i \in (Len(env) + 1)..(Len(new) - 1)
         PROVE  new[i] \in S
    <3>1. CASE i \in 1..Len(a)
      BY <2>2, <2>13, <3>1, SMTT(30)
    <3>2. CASE i \in p..(Len(new) - 1)
      BY <2>14, <3>2
    <3> QED
      BY <2>2, <2>8, <2>12, <3>1, <3>2, SMTT(30)
  <2>16. \A i \in 1..Len(env) : new[i] = env[i]
    BY <2>2, <2>13, SMTT(30)
  <2>17. Len(env) < Len(new) /\ Len(new) \in Nat
    BY <2>2, <2>7, <2>8, <2>12, SMTT(30)
  <2>18. Configured(env, new, S, W)
    BY <2>2, <2>9, <2>12, <2>15, <2>16, <2>17, SMTT(30) DEF Configured, x
  <2>19. StillThere(env, a, new)
    BY <2>2, <2>13, SMTT(30) DEF StillThere
  <2> QED
    BY <2>18, <2>19
<1>ConfiguredOld.
      ASSUME NEW env, IsEnv(env), NEW S, \A v \in S : v.name # ORA, NEW W,
             getIndexOfEnv(env, ORA) # 0,
             NEW a, Added(env, a, S), NEW b, b = Concat(a, Var(ORA, W)),
             NEW c, Added(b, c, S), NEW new, new = moveEnvToListEnd(c, getIndexOfEnv(c, ORA))
      PROVE  Configured(env, new, S, W) /\ StillThere(env, a, new)
  <2> USE <1>ConfiguredOld
  <2> DEFINE k == getIndexOfEnv(env, ORA)
  <2>1. /\ k \in 1..Len(env) /\ env[k].name = ORA
        /\ \A j \in 1..(k - 1) : env[j].name # ORA
    BY IndexOfEnv, SMTT(30)
  <2> HIDE DEF k
  <2>2. /\ Len(env) \in Nat /\ Len(a) \in Nat /\ Len(env) <= Len(a) /\ IsEnv(a)
        /\ \A i \in 1..Len(env) : a[i] = env[i]
        /\ \A i \in (Len(env) + 1)..Len(a) : a[i] \in S
    BY EnvVars DEF Added
  <2>3. /\ k \in 1..Len(a) /\ a[k].name = ORA /\ a[k] = env[k]
        /\ \A j \in 1..(k - 1) : a[j].name # ORA
    BY <2>1, <2>2, SMTT(30)
  <2>4. getIndexOfEnv(a, ORA) = k
    BY <2>2, <2>3, <1>IndexIs
  <2> DEFINE x == Var(ORA, W)
  <2>5. IsVar(x) /\ x.name = ORA /\ x.value = W
    BY VarIsVar
  <2> HIDE DEF x
  <2> DEFINE w == [env[k] EXCEPT !.value = @ \cup W]
  <2>6. IsEnv(b) /\ Len(b) = Len(a) /\ b[k] = w /\ \A i \in 1..Len(a) : i # k => b[i] = a[i]
    <3>1. /\ IsEnv(b) /\ Len(b) = Len(a) /\ b[k] = [a[k] EXCEPT !.value = @ \cup x.value]
          /\ \A i \in 1..Len(a) : i # k => b[i] = a[i]
      <4>1. k = getIndexOfEnv(a, x.name) /\ b = Concat(a, x) /\ k # 0
        BY <2>3, <2>4, <2>5, SMTT(30) DEF x
      <4> QED
        BY <2>2, <2>5, <4>1, ConcatEnv, SMTT(30)
    <3> QED
      BY <2>3, <2>5, <3>1
  <2>7. w.name = ORA
    <3>1. IsVar(env[k])
      BY <2>1, EnvVars
    <3> QED
      BY <2>1, <3>1 DEF IsVar
  <2> HIDE DEF w
  <2>8. /\ Len(c) \in Nat /\ Len(b) <= Len(c) /\ IsEnv(c)
        /\ \A i \in 1..Len(b) : c[i] = b[i]
        /\ \A i \in (Len(b) + 1)..Len(c) : c[i] \in S
    BY EnvVars DEF Added
  <2>9. /\ k \in 1..Len(c) /\ c[k] = w
        /\ \A i \in 1..Len(a) : i # k => c[i] = a[i]
    BY <2>2, <2>3, <2>6, <2>8, SMTT(30)
  <2>10. getIndexOfEnv(c, ORA) = k
    <3>1. c[k].name = ORA /\ \A i \in 1..(k - 1) : c[i].name # ORA
      BY <2>2, <2>3, <2>7, <2>9, SMTT(30)
    <3> QED
      BY <2>8, <2>9, <3>1, <1>IndexIs
  <2>11. /\ IsEnv(new) /\ Len(new) = Len(c) /\ new[Len(c)] = w
         /\ \A i \in 1..(k - 1) : new[i] = c[i]
         /\ \A i \in (k + 1)..Len(c) : new[i - 1] = c[i]
    <3>1. new = moveEnvToListEnd(c, k)
      BY <2>10
    <3> QED
      BY <2>8, <2>9, <3>1, <1>MoveEnv, SMTT(30)
  <2>12. \A i \in 1..(k - 1) : new[i] = env[i]
    BY <2>1, <2>2, <2>9, <2>11, SMTT(30)
  <2>13. ASSUME NEW i \in (k + 1)..Len(a)
         PROVE  new[i - 1] = a[i]
    <3>1. i \in (k + 1)..Len(c) /\ i \in 1..Len(a) /\ i # k
      BY <2>1, <2>2, <2>6, <2>8, SMTT(30)
    <3> QED
      BY <2>9, <2>11, <3>1
  <2>14. \A i \in (k + 1)..Len(env) : new[i - 1] = env[i]
    BY <2>1, <2>2, <2>13, SMTT(30)
  <2>15. ASSUME NEW i \in Len(env)..(Len(new) - 1)
         PROVE  new[i] \in S
    <3>1. /\ i + 1 \in (k + 1)..Len(c) /\ (i + 1) - 1 = i /\ i + 1 \in (Len(env) + 1)..Len(c)
      BY <2>1, <2>2, <2>11, <2>8, SMTT(30)
    <3>2. CASE i + 1 \in 1..Len(a)
      <4>1. i + 1 \in (k + 1)..Len(a) /\ i + 1 \in (Len(env) + 1)..Len(a)
        BY <3>1, <3>2, SMTT(30)
      <4> QED
        BY <2>2, <2>13, <3>1, <4>1
    <3>3. CASE i + 1 \in (Len(b) + 1)..Len(c)
      BY <2>8, <2>11, <3>1, <3>3
    <3> QED
      BY <2>2, <2>6, <2>8, <3>1, <3>2, <3>3, SMTT(30)
  <2>16. Len(env) <= Len(new) /\ Len(new) \in Nat /\ Len(new) # 0
    BY <2>1, <2>2, <2>6, <2>8, <2>11, SMTT(30)
  <2>17. Configured(env, new, S, W)
    BY <2>11, <2>12, <2>14, <2>15, <2>16 DEF Configured, k, w
  <2>18. StillThere(env, a, new)
    <3> SUFFICES ASSUME NEW i \in (Len(env) + 1)..Len(a)
                 PROVE  \E j \in 1..(Len(new) - 1) : new[j] = a[i]
      BY DEF StillThere
    <3>1. i \in (k + 1)..Len(a) /\ i - 1 \in 1..(Len(new) - 1)
      BY <2>1, <2>2, <2>6, <2>8, <2>11, SMTT(30)
    <3> QED
      BY <2>13, <3>1
  <2> QED
    BY <2>17, <2>18
<1>UnknownSeq.
      ASSUME NEW inst, NEW res, NEW d, NEW u, u = Unknown(inst, res, d)
      PROVE  IsSeq(u) /\ Range(u) = {x \in {d} : Needed(inst, res, d)}
  <2> USE <1>UnknownSeq
  <2>1. CASE Needed(inst, res, d)
    <3>1. u = <<d>>
      BY <2>1 DEF Unknown, Needed
    <3> QED
      BY <2>1, <3>1, OneSeq
  <2>2. CASE ~Needed(inst, res, d)
    <3>1. u = <<>>
      BY <2>2 DEF Unknown, Needed
    <3> QED
      BY <2>2, <3>1, NullSeq
  <2> QED
    BY <2>1, <2>2
<1>MissingSeq.
      ASSUME NEW inst, NEW res, NEW m, m = Missing(inst, res)
      PROVE  /\ IsSeq(m)
             /\ Range(m) = {d \in Range(Downward) : Needed(inst, res, d)}
  <2> USE <1>MissingSeq
  <2> DEFINE u == Unknown(inst, res, Downward[1])
             v == Unknown(inst, res, Downward[2])
             w == Unknown(inst, res, Downward[3])
  <2>1. /\ IsSeq(u) /\ Range(u) = {x \in {Downward[1]} : Needed(inst, res, Downward[1])}
        /\ IsSeq(v) /\ Range(v) = {x \in {Downward[2]} : Needed(inst, res, Downward[2])}
        /\ IsSeq(w) /\ Range(w) = {x \in {Downward[3]} : Needed(inst, res, Downward[3])}
    BY <1>UnknownSeq, SMTT(30)
  <2>2. m = (u \o v) \o w
    BY DEF Missing
  <2> HIDE DEF u, v, w
  <2>3. IsSeq(u \o v) /\ Range(u \o v) = Range(u) \cup Range(v)
    BY <2>1, ConcatSeq
  <2>4. IsSeq(m) /\ Range(m) = (Range(u) \cup Range(v)) \cup Range(w)
    <3> DEFINE x == u \o v
    <3>1. IsSeq(x) /\ IsSeq(w) /\ m = x \o w /\ Range(x) = Range(u) \cup Range(v)
      BY <2>1, <2>2, <2>3
    <3> HIDE DEF x
    <3>2. IsSeq(m) /\ Range(m) = Range(x) \cup Range(w)
      BY <3>1, ConcatSeq
    <3> QED
      BY <3>1, <3>2
  <2>5. Range(Downward) = {Downward[1], Downward[2], Downward[3]}
    BY DownwardSeq
  <2>6. Range(m) = {d \in Range(Downward) : Needed(inst, res, d)}
    <3>1. \A d : d \in Range(m) <=> d \in {x \in Range(Downward) : Needed(inst, res, x)}
      BY <2>1, <2>4, <2>5
    <3> QED
      BY <3>1
  <2> QED
    BY <2>4, <2>6
<1>AddSamplerEnv.
      ASSUME NEW env, IsEnv(env), NEW inst, NEW new, new = AddSampler(env, inst)
      PROVE  Added(env, new, {Var("OTEL_TRACES_SAMPLER", {<<"", "", inst.sampler>>}),
                              Var("OTEL_TRACES_SAMPLER_ARG", {<<"", "", inst.samplerArgument>>})})
  <2> USE <1>AddSamplerEnv
  <2> DEFINE v == Var("OTEL_TRACES_SAMPLER", {<<"", "", inst.sampler>>})
             w == Var("OTEL_TRACES_SAMPLER_ARG", {<<"", "", inst.samplerArgument>>})
             S == {v, w}
  <2> SUFFICES Added(env, new, S)
    OBVIOUS
  <2>1. IsVar(v) /\ IsVar(w)
    BY VarIsVar
  <2>2. \/ new = env \/ new = env \o <<v>> \o <<>> \/ new = env \o <<v>> \o <<w>>
    BY DEF AddSampler
  <2> HIDE DEF v, w
  <2>3. CASE new = env
    BY <2>3, AddedNothing
  <2>4. /\ IsEnv(<<v>>) /\ IsEnv(<<w>>) /\ IsEnv(<<>>)
        /\ Range(<<v>>) = {v} /\ Range(<<w>>) = {w} /\ Range(<<>>) = {}
    <3>1. /\ IsSeq(<<v>>) /\ Range(<<v>>) = {v} /\ IsSeq(<<w>>) /\ Range(<<w>>) = {w}
          /\ IsSeq(<<>>) /\ Range(<<>>) = {}
      BY OneSeq, NullSeq
    <3> QED
      BY <2>1, <3>1 DEF IsEnv, IsVar
  <2> DEFINE a == env \o <<v>>
  <2>5. Joined(env, <<v>>, a)
    BY <2>4, ConcatAdded
  <2>6. Added(env, a, S) /\ IsEnv(a)
    BY <2>4, <2>5 DEF Added, Joined
  <2> HIDE DEF a
  <2>7. CASE new = env \o <<v>> \o <<>>
    <3>1. Joined(a, <<>>, new)
      BY <2>4, <2>6, <2>7, ConcatAdded DEF a
    <3>2. Added(a, new, S)
      BY <2>4, <3>1, AddedMore DEF Joined
    <3> HIDE DEF S
    <3> QED
      BY <2>6, <3>2, AddedTwice
  <2>8. CASE new = env \o <<v>> \o <<w>>
    <3>1. Joined(a, <<w>>, new)
      BY <2>4, <2>6, <2>8, ConcatAdded DEF a
    <3>2. Added(a, new, S)
      BY <2>4, <3>1, AddedMore DEF Joined
    <3> HIDE DEF S
    <3> QED
      BY <2>6, <3>2, AddedTwice
  <2> QED
    BY <2>2, <2>3, <2>7, <2>8
<1>NeededRefs.
      ASSUME NEW inst, NEW res, NEW m, m = Missing(inst, res), NEW r,
             r = [d \in DOMAIN m |-> FieldRef(m[d].var)]
      PROVE  IsEnv(r) /\ Range(r) = FieldRefs(inst, res)
  <2> USE <1>NeededRefs
  <2>1. IsSeq(m) /\ Range(m) = {d \in Range(Downward) : Needed(inst, res, d)}
    BY <1>MissingSeq
  <2>2. Len(m) \in Nat /\ DOMAIN m = 1..Len(m)
    BY <2>1, SeqDomain
  <2>3. /\ r = [d \in 1..Len(m) |-> r[d]] /\ DOMAIN r = 1..Len(m)
        /\ \A d \in 1..Len(m) : r[d] = FieldRef(m[d].var)
    BY <2>2
  <2>4. IsSeq(r) /\ Len(r) = Len(m)
    BY <2>2, <2>3, FunctionSeq
  <2>5. \A i \in 1..Len(r) : IsVar(r[i])
    BY <2>3, <2>4, VarIsVar
  <2>6. IsEnv(r)
    BY <2>4, <2>5, IsEnvOf
  <2>7. Range(r) = {FieldRef(d.var) : d \in Range(m)}
    BY <2>2, <2>3, SMTT(30) DEF Range
  <2> QED
    BY <2>1, <2>6, <2>7 DEF FieldRefs
<1> TAKE inst, input, env, app, res, new, S
<1> HAVE /\ IsEnv(env) /\ new = CommonEnv(inst, input, env, app, res)
         /\ S = Settings(inst, input, app, res) \cup FieldRefs(inst, res)
<1> DEFINE m == Missing(inst, res)
           refs == [d \in DOMAIN m |-> FieldRef(m[d].var)]
           W == Attributes(inst, res)
           name == Var("OTEL_SERVICE_NAME", {<<"", "", chooseServiceName(input, res, app)>>})
           named == AddMissing(env, name)
           endpoint == Var("OTEL_EXPORTER_OTLP_ENDPOINT", {<<"", "", inst.endpoint>>})
           exported == IF inst.endpoint = "" THEN named ELSE AddMissing(named, endpoint)
           a == exported \o refs
           b == Concat(a, Var(ORA, W))
           propagators == Var("OTEL_PROPAGATORS", inst.propagators)
           propagated == IF inst.propagators = {} THEN b ELSE AddMissing(b, propagators)
           c == AddSampler(propagated, inst)
<1>1. new = moveEnvToListEnd(c, getIndexOfEnv(c, ORA))
  <2>1. Range(m) = {d \in Range(Downward) : Needed(inst, res, d)}
    BY <1>MissingSeq
  <2>2. W = resourceMapToStr(Over(res, References(Range(m))))
    BY <2>1 DEF Attributes
  <2> HIDE DEF W, m
  <2> QED
    BY <2>2 DEF CommonEnv, m, ORA
<1>2. \A v \in S : IsVar(v) /\ v.name # ORA
  <2>1. ORA \notin SettingNames
    BY DEF ORA, SettingNames
  <2> QED
    BY <2>1, SettingVars
<1>3. name \in S /\ endpoint \in S /\ propagators \in S /\ FieldRefs(inst, res) \subseteq S
  BY DEF Settings
<1>4. IsEnv(refs) /\ Range(refs) = FieldRefs(inst, res)
  BY <1>NeededRefs
<1>5. {Var("OTEL_TRACES_SAMPLER", {<<"", "", inst.sampler>>}),
       Var("OTEL_TRACES_SAMPLER_ARG", {<<"", "", inst.samplerArgument>>})} \subseteq S
  BY DEF Settings
<1> HIDE DEF name, endpoint, propagators, refs
<1>6. Added(env, named, S) /\ IsEnv(named)
  <2>1. Added(env, named, {name})
    BY <1>2, <1>3, AddMissingEnv
  <2> QED
    BY <1>3, <2>1 DEF Added
<1>7. Added(env, exported, S) /\ IsEnv(exported)
  <2> HIDE DEF named
  <2>1. Added(named, AddMissing(named, endpoint), {endpoint})
    BY <1>2, <1>3, <1>6, AddMissingEnv
  <2>2. Added(named, AddMissing(named, endpoint), S)
    BY <1>3, <2>1 DEF Added
  <2>3. Added(env, AddMissing(named, endpoint), S)
    BY <1>6, <2>2, AddedTwice
  <2>4. exported = named \/ exported = AddMissing(named, endpoint)
    OBVIOUS
  <2> HIDE DEF exported
  <2> QED
    BY <1>6, <2>3, <2>4 DEF Added
<1> HIDE DEF exported
<1>8. /\ Added(exported, a, S) /\ Len(a) = Len(exported) + Len(refs)
      /\ \A i \in 1..Len(refs) : a[Len(exported) + i] = refs[i]
  <2>1. Joined(exported, refs, a)
    BY <1>4, <1>7, ConcatAdded
  <2> HIDE DEF a
  <2> QED
    BY <1>3, <1>4, <2>1 DEF Added, Joined
<1> HIDE DEF a
<1>9. Added(env, a, S) /\ IsEnv(a)
  <2>1. Added(env, a, S)
    BY <1>7, <1>8, AddedTwice
  <2> QED
    BY <2>1 DEF Added
<1>10. IsEnv(b)
  <2>1. IsVar(Var(ORA, W))
    BY VarIsVar
  <2> QED
    BY <1>9, <2>1, ConcatIsEnv
<1> HIDE DEF b
<1>11. Added(b, propagated, S) /\ IsEnv(propagated)
  <2>1. Added(b, AddMissing(b, propagators), {propagators})
    BY <1>2, <1>3, <1>10, AddMissingEnv
  <2>2. Added(b, AddMissing(b, propagators), S)
    BY <1>3, <2>1 DEF Added
  <2>3. Added(b, b, S)
    BY <1>10, AddedNothing
  <2> QED
    BY <1>10, <2>2, <2>3 DEF Added
<1> HIDE DEF propagated
<1>12. Added(b, c, S)
  <2> DEFINE T == {Var("OTEL_TRACES_SAMPLER", {<<"", "", inst.sampler>>}),
                   Var("OTEL_TRACES_SAMPLER_ARG", {<<"", "", inst.samplerArgument>>})}
  <2>1. Added(propagated, c, T)
    BY <1>11, <1>AddSamplerEnv
  <2>2. T \subseteq S
    BY <1>5
  <2> HIDE DEF T, c
  <2>3. Added(propagated, c, S)
    BY <2>1, <2>2, AddedMore
  <2> QED
    BY <1>10, <1>11, <2>3, AddedTwice
<1>13. b = Concat(a, Var(ORA, W))
  BY DEF b
<1> HIDE DEF c, W
<1>14. Configured(env, new, S, W) /\ StillThere(env, a, new)
  <2>1. CASE getIndexOfEnv(env, ORA) = 0
    BY <1>1, <1>2, <1>9, <1>12, <1>13, <2>1, <1>ConfiguredNew
  <2>2. CASE getIndexOfEnv(env, ORA) # 0
    BY <1>1, <1>2, <1>9, <1>12, <1>13, <2>2, <1>ConfiguredOld
  <2> QED
    BY <2>1, <2>2
<1>15. ASSUME NEW v \in FieldRefs(inst, res)
       PROVE  \E j \in 1..(Len(new) - 1) : new[j] = v
  <2>1. DOMAIN refs = 1..Len(refs) /\ Len(refs) \in Nat
    BY <1>4, EnvVars
  <2>2. PICK i \in 1..Len(refs) : refs[i] = v
    BY <1>4, <2>1 DEF Range
  <2>3. /\ Len(env) \in Nat /\ Len(exported) \in Nat /\ Len(env) <= Len(exported)
    BY <1>7, EnvVars DEF Added
  <2>4. Len(exported) + i \in (Len(env) + 1)..Len(a) /\ a[Len(exported) + i] = v
    BY <1>8, <2>1, <2>2, <2>3, SMTT(30)
  <2> QED
    BY <1>14, <2>4 DEF StillThere
<1> QED
  BY <1>14, <1>15 DEF W

LEMMA ConfigureEnv ==
    \A p, inst, app, found, q : \A agent \in 1..Len(p.containers) :
        IsPod(p) /\ IsEnv(inst.env) /\ q = Configure(inst, p, agent, app, found)
        => /\ IsEnv(Base(inst, p, agent)) /\ IsEnv(FullEnv(inst, p, agent, app, found))
           /\ EnvSet(p, q, agent, FullEnv(inst, p, agent, app, found)) /\ IsPod(q)
           /\ EnvSet(p, injectCommonEnvVar(inst, p, agent), agent, Base(inst, p, agent))
<1>SetEnv.
      ASSUME NEW p, IsPod(p), NEW i \in 1..Len(p.containers), NEW env,
             NEW q, q = [p EXCEPT !.containers[i].env = env]
      PROVE  EnvSet(p, q, i, env)
  <2> USE <1>SetEnv
  <2>1. DOMAIN p = {"containers", "inits", "volumes", "shareProcessNamespace", "containerNames",
                    "goExe", "owner", "annotations", "meta"}
    BY DEF IsPod
  <2>2. DOMAIN p.containers = 1..Len(p.containers)
    BY PodParts
  <2>3. Rest(p, q) /\ q.shareProcessNamespace = p.shareProcessNamespace
    BY <2>1 DEF Rest
  <2>4. q.inits = p.inits /\ q.volumes = p.volumes
    BY <2>1
  <2>5. q.containers = [p.containers EXCEPT ![i].env = env]
    BY <2>1
  <2>6. /\ q.containers = [j \in DOMAIN p.containers |-> q.containers[j]]
        /\ \A j \in DOMAIN p.containers : j # i => q.containers[j] = p.containers[j]
        /\ q.containers[i] = [p.containers[i] EXCEPT !.env = env]
    BY <2>2, <2>5
  <2> QED
    BY <2>3, <2>4, <2>6 DEF EnvSet, Edit
  \* Written twice.
<1>EnvSetTwice.
      ASSUME NEW p, IsPod(p), NEW i \in 1..Len(p.containers), NEW q, NEW a, EnvSet(p, q, i, a),
             NEW r, NEW b, EnvSet(q, r, i, b)
      PROVE  EnvSet(p, r, i, b)
  <2> USE <1>EnvSetTwice
  <2>1. /\ Rest(p, q) /\ Rest(q, r) /\ q.shareProcessNamespace = p.shareProcessNamespace
        /\ r.shareProcessNamespace = q.shareProcessNamespace
        /\ q.inits = p.inits /\ q.volumes = p.volumes /\ r.inits = q.inits /\ r.volumes = q.volumes
    BY DEF EnvSet, Edit
  <2>2. Rest(p, r)
    BY <2>1 DEF Rest
  <2>3. /\ q.containers = [j \in DOMAIN p.containers |-> q.containers[j]]
        /\ \A j \in DOMAIN p.containers : j # i => q.containers[j] = p.containers[j]
        /\ q.containers[i] = [p.containers[i] EXCEPT !.env = a]
        /\ r.containers = [j \in DOMAIN q.containers |-> r.containers[j]]
        /\ \A j \in DOMAIN q.containers : j # i => r.containers[j] = q.containers[j]
        /\ r.containers[i] = [q.containers[i] EXCEPT !.env = b]
    BY DEF EnvSet, Edit
  <2>4. DOMAIN q.containers = DOMAIN p.containers
    BY <2>3
  <2>5. r.containers = [j \in DOMAIN p.containers |-> r.containers[j]]
    BY <2>3, <2>4
  <2>6. \A j \in DOMAIN p.containers : j # i => r.containers[j] = p.containers[j]
    BY <2>3, <2>4
  <2>7. r.containers[i] = [p.containers[i] EXCEPT !.env = b]
    <3>1. DOMAIN p.containers[i] = {"name", "agent", "env", "mounts", "probe", "ports"}
      BY PodParts DEF IsContainer
    <3> QED
      BY <2>3, <3>1
  <2> QED
    BY <2>1, <2>2, <2>5, <2>6, <2>7 DEF EnvSet, Edit
<1> SUFFICES ASSUME NEW p, IsPod(p), NEW agent \in 1..Len(p.containers), NEW inst, IsEnv(inst.env),
                    NEW app, NEW found, NEW q, q = Configure(inst, p, agent, app, found)
             PROVE  /\ IsEnv(Base(inst, p, agent)) /\ IsEnv(FullEnv(inst, p, agent, app, found))
                    /\ EnvSet(p, q, agent, FullEnv(inst, p, agent, app, found)) /\ IsPod(q)
                    /\ EnvSet(p, injectCommonEnvVar(inst, p, agent), agent, Base(inst, p, agent))
  BY SMTT(30)
<1> DEFINE env == p.containers[agent].env
           a == Base(inst, p, agent)
           p1 == injectCommonEnvVar(inst, p, agent)
           new == FullEnv(inst, p, agent, app, found)
<1>1. IsEnv(env)
  BY PodParts DEF IsContainer
<1>2. IsEnv(a)
  BY <1>1, AllMissingAdded DEF Base
<1>3. EnvSet(p, p1, agent, a)
  <2>1. p1 = [p EXCEPT !.containers[agent].env = a]
    BY DEF injectCommonEnvVar, Base
  <2> HIDE DEF p1, a
  <2> QED
    BY <2>1, <1>SetEnv
<1>4. IsPod(p1) /\ Len(p1.containers) = Len(p.containers)
  <2> HIDE DEF p1, a
  <2> QED
    BY <1>2, <1>3, EnvSetPod
<1>5. p1.containers[agent].env = a
  <2> HIDE DEF p1, a
  <2> QED
    BY <1>2, <1>3, PodParts, EnvContainer, SMTT(30) DEF EnvSet
<1>6. IsEnv(new)
  <2> DEFINE res == Known(inst, p, agent, app, found)
             S == Settings(inst, p1, app, res) \cup FieldRefs(inst, res)
  <2>1. new = CommonEnv(inst, p1, a, app, res)
    BY DEF FullEnv
  <2>2. S = Settings(inst, p1, app, res) \cup FieldRefs(inst, res)
    OBVIOUS
  <2> HIDE DEF p1, a, res, new, S
  <2>3. Configured(a, new, S, Attributes(inst, res))
    BY <1>2, <2>1, <2>2, CommonEnvShape
  <2> QED
    BY <2>3 DEF Configured
<1>7. q = [p1 EXCEPT !.containers[agent].env = new]
  <2> DEFINE res == Known(inst, p, agent, app, found)
  <2>1. new = CommonEnv(inst, p1, a, app, res)
    BY DEF FullEnv
  <2>2. q = [p1 EXCEPT !.containers[agent].env = CommonEnv(inst, p1, @, app, res)]
    BY DEF Configure, Known
  <2> HIDE DEF p1, a, res, new
  <2> QED
    BY <1>5, <2>1, <2>2
<1> HIDE DEF p1, new, a
<1>8. EnvSet(p1, q, agent, new)
  BY <1>4, <1>7, <1>SetEnv
<1>9. EnvSet(p, q, agent, new)
  BY <1>3, <1>8, <1>EnvSetTwice
<1>10. IsPod(q)
  BY <1>6, <1>9, EnvSetPod
<1> QED
  BY <1>2, <1>3, <1>6, <1>9, <1>10 DEF a, p1, new

-----------------------------------------------------------------------------
(* What a pod keeps.                                                       *)

LEMMA GrownSelf ==
    ASSUME NEW p, IsPod(p)
    PROVE  Grown(p, p)
<1>1. Len(p.containers) \in Nat
  BY PodParts
<1> QED
  BY <1>1, SMTT(30) DEF Grown, Kept, Rest, SameHost

LEMMA GrownTwice ==
    ASSUME NEW p, IsPod(p), NEW q, NEW r, Grown(p, q), Grown(q, r)
    PROVE  Grown(p, r)
<1>1. /\ IsPod(q) /\ IsPod(r) /\ Len(p.containers) \in Nat /\ Len(q.containers) \in Nat
      /\ Len(r.containers) \in Nat
  BY PodParts DEF Grown
<1>2. Len(p.containers) <= Len(q.containers) /\ Len(q.containers) <= Len(r.containers)
  BY DEF Grown
<1>3. Rest(p, r)
  BY DEF Grown, Rest
<1>4. \A i \in 1..Len(p.containers) : Kept(p.containers[i], q.containers[i])
  BY DEF Grown
<1>5. \A i \in 1..Len(q.containers) : Kept(q.containers[i], r.containers[i])
  BY DEF Grown
<1>6. \A i \in 1..Len(p.containers) : Kept(p.containers[i], r.containers[i])
  BY <1>1, <1>2, <1>4, <1>5, SMTT(30) DEF Kept
<1>7. ASSUME NEW i \in (Len(p.containers) + 1)..Len(r.containers)
      PROVE  r.containers[i].name = AutoInstrumentation /\ r.containers[i].agent = "go"
  <2>1. CASE i \in 1..Len(q.containers)
    <3>1. q.containers[i].name = AutoInstrumentation /\ q.containers[i].agent = "go"
      BY <1>1, <1>2, <2>1, SMTT(30) DEF Grown
    <3> QED
      BY <1>5, <2>1, <3>1 DEF Kept
  <2>2. CASE i \in (Len(q.containers) + 1)..Len(r.containers)
    BY <2>2 DEF Grown
  <2> QED
    BY <1>1, <1>2, <2>1, <2>2, SMTT(30)
<1>8. SameHost(p, r) \/ \E i \in 1..Len(r.containers) : r.containers[i].agent = "go"
  <2>1. CASE SameHost(p, q) /\ SameHost(q, r)
    BY <2>1 DEF SameHost
  <2>2. CASE \E i \in 1..Len(q.containers) : q.containers[i].agent = "go"
    BY <1>1, <1>2, <1>5, <2>2, SMTT(30) DEF Kept
  <2> QED
    BY <2>1, <2>2 DEF Grown
<1> QED
  BY <1>1, <1>2, <1>3, <1>6, <1>7, <1>8, SMTT(30) DEF Grown

LEMMA GrownEdit ==
    ASSUME NEW p, IsPod(p), NEW q, IsPod(q), NEW i \in 1..Len(p.containers), Edit(p, q, i),
           Len(q.containers) = Len(p.containers), Kept(p.containers[i], q.containers[i]),
           "kernel-debug" \in Range(q.volumes) => "kernel-debug" \in Range(p.volumes)
    PROVE  Grown(p, q)
<1>1. DOMAIN p.containers = 1..Len(p.containers) /\ Len(p.containers) \in Nat
  BY PodParts
<1>2. Rest(p, q) /\ SameHost(p, q)
  BY DEF Edit, SameHost
<1>3. \A j \in 1..Len(p.containers) : Kept(p.containers[j], q.containers[j])
  BY <1>1 DEF Edit, Kept
<1> QED
  BY <1>1, <1>2, <1>3, SMTT(30) DEF Grown

LEMMA GrownEnvSet ==
    ASSUME NEW p, IsPod(p), NEW q, NEW i \in 1..Len(p.containers), NEW env, IsEnv(env),
           EnvSet(p, q, i, env)
    PROVE  Grown(p, q) /\ Len(q.containers) = Len(p.containers)
<1>1. IsPod(q) /\ Len(q.containers) = Len(p.containers)
  BY EnvSetPod
<1>2. IsContainer(p.containers[i])
  BY PodParts
<1>3. Kept(p.containers[i], q.containers[i])
  BY <1>2, EnvContainer, SMTT(30) DEF EnvSet, Kept
<1>4. Edit(p, q, i) /\ q.volumes = p.volumes
  BY DEF EnvSet
<1> QED
  BY <1>1, <1>3, <1>4, GrownEdit

-----------------------------------------------------------------------------
(* The agents that are files.                                              *)

LEMMA OptionVar ==
    ASSUME NEW name, NEW agent
    PROVE  IsVar(AgentOption(name, agent)) /\ AgentOption(name, agent).name = name
BY VarIsVar DEF AgentOption

\* The languages whose agents are files: the pod stays as it is, or gets the agent.
LEMMA FilesLanguage ==
    \A inst, p, found, q : \A lang \in Files : \A i \in 1..Len(p.containers) :
        IsInst(inst) /\ IsPod(p) /\ q = injectLanguage(lang, inst, p, i, found)
        => IF Declines(lang, inst, p.containers[i].env) THEN q = p
           ELSE Injects(lang, inst, p, i, found, q)
<1>FilesConcat.
      ASSUME NEW lang \in Files, NEW inst, IsInst(inst), NEW env, IsEnv(env), NEW x,
             Added(env, x, Firsts(inst.langEnv[lang]) \cup Extra(lang)),
             NEW y, y = Concat(x, AgentOption(OptionName(lang), lang)),
             NEW new, Added(y, new, Extra(lang))
      PROVE  FilesShape(lang, inst, env, new)
  BY <1>FilesConcat DEF FilesShape
<1>LangEnvAdded.
      ASSUME NEW lang \in Files, NEW inst, IsInst(inst), NEW env, IsEnv(env), NEW x,
             x = AddAllMissing(env, inst.langEnv[lang]),
             NEW y, y = Concat(x, AgentOption(OptionName(lang), lang))
      PROVE  /\ Added(env, x, Firsts(inst.langEnv[lang]) \cup Extra(lang)) /\ IsEnv(x)
             /\ IsEnv(y)
  <2> USE <1>LangEnvAdded
  <2>1. IsEnv(inst.langEnv[lang])
    BY DEF IsInst, Files, Language
  <2>2. Added(env, x, Firsts(inst.langEnv[lang])) /\ IsEnv(x)
    BY <2>1, AllMissingAdded
  <2>3. Added(env, x, Firsts(inst.langEnv[lang]) \cup Extra(lang))
    BY <2>2, AddedMore
  <2>4. IsVar(AgentOption(OptionName(lang), lang))
    BY OptionVar
  <2>5. IsEnv(y)
    BY <2>2, <2>4, ConcatIsEnv
  <2> QED
    BY <2>2, <2>3, <2>5
<1>FilesPlain.
      ASSUME NEW lang \in Files, NEW inst, IsInst(inst), NEW env, IsEnv(env), NEW new,
             new = Concat(AddAllMissing(env, inst.langEnv[lang]), AgentOption(OptionName(lang), lang))
      PROVE  FilesShape(lang, inst, env, new)
  <2> USE <1>FilesPlain
  <2> DEFINE x == AddAllMissing(env, inst.langEnv[lang])
  <2>1. x = AddAllMissing(env, inst.langEnv[lang])
    OBVIOUS
  <2> HIDE DEF x
  <2>2. /\ Added(env, x, Firsts(inst.langEnv[lang]) \cup Extra(lang)) /\ IsEnv(new)
        /\ new = Concat(x, AgentOption(OptionName(lang), lang))
    BY <2>1, <1>LangEnvAdded
  <2>3. Added(new, new, Extra(lang))
    BY <2>2, AddedNothing
  <2> QED
    BY <2>2, <2>3, <1>FilesConcat
<1>FourVars.
      ASSUME NEW a, IsVar(a), NEW b, IsVar(b), NEW c, IsVar(c), NEW d, IsVar(d)
      PROVE  IsEnv(<<a, b, c, d>>) /\ Firsts(<<a, b, c, d>>) \subseteq {a, b, c, d}
  <2> USE <1>FourVars
  <2> DEFINE v == <<a, b, c, d>>
  <2>1. v \in Seq({a, b, c, d}) /\ Len(v) = 4
    BY SMTT(30)
  <2>2. IsSeq(v)
    BY <2>1, IsSeqOf
  <2>3. \A i \in 1..4 : v[i] \in {a, b, c, d}
    BY SMTT(30)
  <2> HIDE DEF v
  <2>4. \A i \in 1..Len(v) : IsVar(v[i])
    BY <2>1, <2>3
  <2>5. IsEnv(v)
    BY <2>2, <2>4, IsEnvOf
  <2>6. Firsts(v) \subseteq {a, b, c, d}
    BY <2>1, <2>3 DEF Firsts
  <2> QED
    BY <2>5, <2>6 DEF v
<1>PythonSeq. IsEnv(PythonEnv) /\ Firsts(PythonEnv) \subseteq Extra("python")
  <2> DEFINE a == Var("OTEL_TRACES_EXPORTER", {<<"", "", "otlp">>})
             b == Var("OTEL_EXPORTER_OTLP_TRACES_PROTOCOL", {<<"", "", "http/protobuf">>})
             c == Var("OTEL_METRICS_EXPORTER", {<<"", "", "otlp">>})
             d == Var("OTEL_EXPORTER_OTLP_METRICS_PROTOCOL", {<<"", "", "http/protobuf">>})
  <2>1. IsVar(a) /\ IsVar(b) /\ IsVar(c) /\ IsVar(d)
    BY VarIsVar
  <2>2. PythonEnv = <<a, b, c, d>>
    BY DEF PythonEnv
  <2>3. {a, b, c, d} = Extra("python")
    BY DEF Extra, PythonVars
  <2> HIDE DEF a, b, c, d
  <2>4. IsEnv(<<a, b, c, d>>) /\ Firsts(<<a, b, c, d>>) \subseteq {a, b, c, d}
    BY <2>1, <1>FourVars
  <2> QED
    BY <2>2, <2>3, <2>4
<1>FilesPython.
      ASSUME NEW inst, IsInst(inst), NEW env, IsEnv(env), NEW new,
             new = AddAllMissing(Concat(AddAllMissing(env, inst.langEnv["python"]),
                                        AgentOption("PYTHONPATH", "python")), PythonEnv)
      PROVE  FilesShape("python", inst, env, new)
  <2> USE <1>FilesPython
  <2> DEFINE x == AddAllMissing(env, inst.langEnv["python"])
             y == Concat(x, AgentOption("PYTHONPATH", "python"))
  <2>1. OptionName("python") = "PYTHONPATH" /\ "python" \in Files
    BY DEF OptionName, Files
  <2>2. x = AddAllMissing(env, inst.langEnv["python"])
    OBVIOUS
  <2>3. y = Concat(x, AgentOption(OptionName("python"), "python"))
    BY <2>1
  <2>4. new = AddAllMissing(y, PythonEnv)
    OBVIOUS
  <2> HIDE DEF x, y
  <2>5. Added(env, x, Firsts(inst.langEnv["python"]) \cup Extra("python")) /\ IsEnv(y)
    BY <2>1, <2>2, <2>3, <1>LangEnvAdded
  <2>6. Added(y, new, Firsts(PythonEnv))
    BY <2>4, <2>5, <1>PythonSeq, AllMissingAdded
  <2>7. Added(y, new, Extra("python"))
    BY <2>6, <1>PythonSeq, AddedMore
  <2> QED
    BY <2>1, <2>3, <2>5, <2>7, <1>FilesConcat
<1>FilesDotNet.
      ASSUME NEW inst, IsInst(inst), NEW env, IsEnv(env), NEW new,
             new = setDotNetEnvVar(
                       setDotNetEnvVar(
                           setDotNetEnvVar(AddAllMissing(env, inst.langEnv["dotnet"]),
                               AgentOption("CORECLR_PROFILER", "dotnet"), FALSE),
                           AgentOption("DOTNET_STARTUP_HOOKS", "dotnet"), TRUE),
                       AgentOption("OTEL_DOTNET_AUTO_HOME", "dotnet"), FALSE)
      PROVE  FilesShape("dotnet", inst, env, new)
  <2> USE <1>FilesDotNet
  <2> DEFINE own == inst.langEnv["dotnet"]
             profiler == AgentOption("CORECLR_PROFILER", "dotnet")
             home == AgentOption("OTEL_DOTNET_AUTO_HOME", "dotnet")
             hook == AgentOption("DOTNET_STARTUP_HOOKS", "dotnet")
             w == AddAllMissing(env, own)
             x == AddMissing(w, profiler)
             y == Concat(x, hook)
             S == Firsts(own) \cup Extra("dotnet")
  <2>1. /\ OptionName("dotnet") = "DOTNET_STARTUP_HOOKS" /\ "dotnet" \in Files
        /\ "dotnet" \in Language
    BY DEF OptionName, Files, Language
  <2>2. new = AddMissing(y, home)
    BY DEF setDotNetEnvVar
  <2>3. IsVar(profiler) /\ IsVar(home) /\ IsVar(hook)
    BY OptionVar
  <2>4. Extra("dotnet") = {profiler, home}
    BY DEF Extra
  <2>5. IsEnv(own)
    BY <2>1 DEF IsInst
  <2>6. y = Concat(x, AgentOption(OptionName("dotnet"), "dotnet"))
    BY <2>1
  <2> HIDE DEF own, profiler, home, hook
  <2>7. Added(env, w, S) /\ IsEnv(w)
    <3>1. Added(env, w, Firsts(own)) /\ IsEnv(w)
      BY <2>5, AllMissingAdded
    <3> QED
      BY <3>1, AddedMore
  <2> HIDE DEF w
  <2>8. Added(w, x, {profiler})
    BY <2>3, <2>7, AddMissingEnv
  <2>9. Added(w, x, S) /\ IsEnv(x)
    BY <2>4, <2>8 DEF Added
  <2> HIDE DEF x, S
  <2>10. Added(env, x, S)
    BY <2>7, <2>9, AddedTwice
  <2>11. IsEnv(y)
    BY <2>3, <2>9, ConcatIsEnv
  <2> HIDE DEF y
  <2>12. Added(y, new, {home})
    BY <2>2, <2>3, <2>11, AddMissingEnv
  <2>13. Added(y, new, Extra("dotnet"))
    BY <2>4, <2>12, AddedMore
  <2> QED
    BY <2>1, <2>6, <2>10, <2>13, <1>FilesConcat DEF S, own
<1> SUFFICES ASSUME NEW lang \in Files, NEW inst, IsInst(inst), NEW p, IsPod(p),
                    NEW i \in 1..Len(p.containers), NEW found,
                    NEW q, q = injectLanguage(lang, inst, p, i, found)
             PROVE  IF Declines(lang, inst, p.containers[i].env) THEN q = p
                    ELSE Injects(lang, inst, p, i, found, q)
  OBVIOUS
<1> DEFINE env == p.containers[i].env
<1>1. IsEnv(env)
  BY PodParts DEF IsContainer
<1>2. lang # "go" /\ lang # "sdk" /\ lang # "apache"
  BY DEF Files
<1> DEFINE r == injectFilesAgent(lang, inst, p, i)
<1>3. q = IF r.ok THEN Configure(inst, r.pod, i, i, found) ELSE p
  <2>1. q = injectWithFiles(lang, inst, p, i, found)
    BY <1>2 DEF injectLanguage
  <2> QED
    BY <2>1 DEF injectWithFiles
<1>4. ASSUME NEW new, FilesShape(lang, inst, env, new),
             r = IF Declines(lang, inst, env) THEN Result(FALSE, p)
                 ELSE Result(TRUE, InjectFiles(lang, p, i, new))
      PROVE  IF Declines(lang, inst, env) THEN q = p ELSE Injects(lang, inst, p, i, found, q)
  <2> HIDE DEF r
  <2>1. CASE Declines(lang, inst, env)
    <3>1. ~r.ok
      BY <1>4, <2>1 DEF Result
    <3> QED
      BY <1>3, <2>1, <3>1
  <2>2. CASE ~Declines(lang, inst, env)
    <3>1. r.ok /\ r.pod = InjectFiles(lang, p, i, new)
      BY <1>4, <2>2 DEF Result
    <3>2. q = Configure(inst, InjectFiles(lang, p, i, new), i, i, found)
      BY <1>3, <3>1
    <3> QED
      BY <1>4, <2>2, <3>2 DEF Injects
  <2> QED
    BY <2>1, <2>2
<1>5. CASE lang = "java"
  <2> DEFINE new == Concat(AddAllMissing(env, inst.langEnv["java"]),
                           AgentOption("JAVA_TOOL_OPTIONS", "java"))
  <2>1. OptionName("java") = "JAVA_TOOL_OPTIONS"
    BY DEF OptionName
  <2>2. FilesShape(lang, inst, env, new)
    BY <1>1, <1>5, <2>1, <1>FilesPlain
  <2>3. Declines(lang, inst, env) <=> ~validateContainerEnv(env, {"JAVA_TOOL_OPTIONS"})
    BY <1>5, <2>1 DEF Declines
  <2>4. r = IF Declines(lang, inst, env) THEN Result(FALSE, p)
            ELSE Result(TRUE, InjectFiles(lang, p, i, new))
    BY <1>5, <2>3 DEF injectFilesAgent, injectJavaagent
  <2> HIDE DEF r, new
  <2> QED
    BY <1>4, <2>2, <2>4
<1>6. CASE lang = "nodejs"
  <2> DEFINE new == Concat(AddAllMissing(env, inst.langEnv["nodejs"]),
                           AgentOption("NODE_OPTIONS", "nodejs"))
  <2>1. OptionName("nodejs") = "NODE_OPTIONS"
    BY DEF OptionName
  <2>2. FilesShape(lang, inst, env, new)
    BY <1>1, <1>6, <2>1, <1>FilesPlain
  <2>3. Declines(lang, inst, env) <=> ~validateContainerEnv(env, {"NODE_OPTIONS"})
    BY <1>6, <2>1 DEF Declines
  <2>4. r = injectNodeJSSDK(inst, p, i)
    BY <1>6 DEF injectFilesAgent
  <2>5. r = IF Declines(lang, inst, env) THEN Result(FALSE, p)
            ELSE Result(TRUE, InjectFiles(lang, p, i, new))
    BY <1>6, <2>3, <2>4 DEF injectNodeJSSDK
  <2> HIDE DEF r, new
  <2> QED
    BY <1>4, <2>2, <2>5
<1>7. CASE lang = "python"
  <2> DEFINE new == AddAllMissing(Concat(AddAllMissing(env, inst.langEnv["python"]),
                                         AgentOption("PYTHONPATH", "python")), PythonEnv)
  <2>1. OptionName("python") = "PYTHONPATH"
    BY DEF OptionName
  <2>2. FilesShape(lang, inst, env, new)
    BY <1>1, <1>7, <1>FilesPython
  <2>3. Declines(lang, inst, env) <=> ~validateContainerEnv(env, {"PYTHONPATH"})
    BY <1>7, <2>1 DEF Declines
  <2>4. r = injectPythonSDK(inst, p, i)
    BY <1>7 DEF injectFilesAgent
  <2>5. r = IF Declines(lang, inst, env) THEN Result(FALSE, p)
            ELSE Result(TRUE, InjectFiles(lang, p, i, new))
    BY <1>7, <2>3, <2>4 DEF injectPythonSDK, PythonEnv
  <2> HIDE DEF r, new
  <2> QED
    BY <1>4, <2>2, <2>5
<1>8. CASE lang = "dotnet"
  <2> DEFINE own == inst.langEnv["dotnet"]
             new == setDotNetEnvVar(
                        setDotNetEnvVar(
                            setDotNetEnvVar(AddAllMissing(env, inst.langEnv["dotnet"]),
                                AgentOption("CORECLR_PROFILER", "dotnet"), FALSE),
                            AgentOption("DOTNET_STARTUP_HOOKS", "dotnet"), TRUE),
                        AgentOption("OTEL_DOTNET_AUTO_HOME", "dotnet"), FALSE)
  <2>1. OptionName("dotnet") = "DOTNET_STARTUP_HOOKS"
    BY DEF OptionName
  <2>2. FilesShape(lang, inst, env, new)
    BY <1>1, <1>8, <1>FilesDotNet
  <2>3. Declines(lang, inst, env) <=>
          \/ ~validateContainerEnv(env, {"DOTNET_STARTUP_HOOKS"})
          \/ Has(env, "OTEL_DOTNET_AUTO_HOME") \/ Has(own, "OTEL_DOTNET_AUTO_HOME")
    BY <1>8, <2>1 DEF Declines
  <2>4. r = injectDotNetSDK(inst, p, i)
    BY <1>8 DEF injectFilesAgent
  <2>5. r = IF Declines(lang, inst, env) THEN Result(FALSE, p)
            ELSE Result(TRUE, InjectFiles(lang, p, i, new))
    BY <1>8, <2>3, <2>4 DEF injectDotNetSDK
  <2> HIDE DEF r, new
  <2> QED
    BY <1>4, <2>2, <2>5
<1> QED
  BY <1>5, <1>6, <1>7, <1>8 DEF Files

LEMMA FilesShapeEnv ==
    ASSUME NEW lang \in Files, NEW inst, NEW env, IsEnv(env), NEW new,
           FilesShape(lang, inst, env, new)
    PROVE  IsEnv(new)
BY DEF FilesShape, Added

LEMMA SetFiles ==
    ASSUME NEW lang, NEW p, IsPod(p), NEW i \in 1..Len(p.containers), NEW env,
           NEW q, q = InjectFiles(lang, p, i, env)
    PROVE  FilesSet(lang, p, q, i, env)
<1> DEFINE m == [p EXCEPT !.containers[i].env = env,
                          !.containers[i].mounts = Append(@, "/otel-auto-instrumentation")]
<1>1. DOMAIN p = {"containers", "inits", "volumes", "shareProcessNamespace", "containerNames",
                  "goExe", "owner", "annotations", "meta"}
  BY DEF IsPod
<1>2. /\ DOMAIN p.containers = 1..Len(p.containers)
      /\ DOMAIN p.containers[i] = {"name", "agent", "env", "mounts", "probe", "ports"}
  BY PodParts DEF IsContainer
<1>3. /\ DOMAIN m = DOMAIN p /\ m.inits = p.inits /\ m.volumes = p.volumes
      /\ Rest(p, m) /\ m.shareProcessNamespace = p.shareProcessNamespace
  BY <1>1 DEF Rest
<1>4. m.containers = [p.containers EXCEPT ![i] = [p.containers[i] EXCEPT !.env = env,
                             !.mounts = Append(@, "/otel-auto-instrumentation")]]
  BY <1>1, <1>2
<1>5. q = IF ~isInitContainerMissing(p) THEN m
          ELSE [m EXCEPT !.volumes = Append(@, AutoInstrumentation),
                         !.inits = Append(@, InitContainer(lang))]
  BY DEF InjectFiles
<1> HIDE DEF m
<1>6. q.containers = m.containers /\ Rest(p, q) /\ q.shareProcessNamespace = p.shareProcessNamespace
  BY <1>1, <1>3, <1>5 DEF Rest
<1>7. IF isInitContainerMissing(p)
      THEN /\ q.volumes = Append(p.volumes, AutoInstrumentation)
           /\ q.inits = Append(p.inits, InitContainer(lang))
      ELSE q.volumes = p.volumes /\ q.inits = p.inits
  BY <1>1, <1>3, <1>5
<1>8. /\ q.containers = [j \in DOMAIN p.containers |-> q.containers[j]]
      /\ \A j \in DOMAIN p.containers : j # i => q.containers[j] = p.containers[j]
      /\ q.containers[i] = [p.containers[i] EXCEPT !.env = env,
                             !.mounts = Append(@, "/otel-auto-instrumentation")]
  BY <1>2, <1>4, <1>6
<1> QED
  BY <1>6, <1>7, <1>8 DEF FilesSet, Edit

LEMMA FilesContainer ==
    ASSUME NEW c, IsContainer(c), NEW env, IsEnv(env),
           NEW d, d = [c EXCEPT !.env = env, !.mounts = Append(@, "/otel-auto-instrumentation")]
    PROVE  /\ IsContainer(d) /\ d.env = env /\ Kept(c, d)
           /\ d.mounts = Append(c.mounts, "/otel-auto-instrumentation")
<1>1. DOMAIN c = {"name", "agent", "env", "mounts", "probe", "ports"} /\ IsSeq(c.mounts)
  BY DEF IsContainer
<1>2. /\ DOMAIN d = DOMAIN c /\ d.env = env /\ d.name = c.name /\ d.agent = c.agent
      /\ d.mounts = Append(c.mounts, "/otel-auto-instrumentation") /\ d.probe = c.probe
      /\ d.ports = c.ports
  BY <1>1
<1>3. IsSeq(d.mounts)
  BY <1>1, <1>2, AppendSeq
<1> QED
  BY <1>1, <1>2, <1>3 DEF IsContainer, Kept

LEMMA InitIsContainer ==
    ASSUME NEW lang
    PROVE  /\ IsContainer(InitContainer(lang)) /\ InitContainer(lang).agent = lang
           /\ InitContainer(lang).name = AutoInstrumentation /\ InitContainer(lang).env = <<>>
           /\ InitContainer(lang).mounts = <<"/otel-auto-instrumentation">>
           /\ InitContainer(lang).probe = FALSE
<1> DEFINE c == InitContainer(lang)
<1>1. /\ DOMAIN c = {"name", "agent", "env", "mounts", "probe", "ports"}
      /\ c.env = <<>> /\ c.mounts = <<"/otel-auto-instrumentation">> /\ c.agent = lang
      /\ c.name = AutoInstrumentation /\ c.probe = FALSE
  BY DEF InitContainer
<1> HIDE DEF c
<1>2. IsSeq(c.mounts)
  BY <1>1, OneSeq
<1>3. IsEnv(c.env)
  BY <1>1, NullSeq DEF IsEnv
<1> QED
  BY <1>1, <1>2, <1>3 DEF IsContainer, c

LEMMA FilesSetPod ==
    ASSUME NEW lang, NEW p, IsPod(p), NEW q, NEW i \in 1..Len(p.containers),
           NEW env, IsEnv(env), FilesSet(lang, p, q, i, env)
    PROVE  /\ IsPod(q) /\ Len(q.containers) = Len(p.containers) /\ Grown(p, q)
           /\ ~isInitContainerMissing(q)
<1>1. IsContainer(p.containers[i]) /\ IsSeq(p.volumes) /\ IsSeq(p.inits)
  BY PodParts DEF IsPod
<1>2. IsContainer(q.containers[i]) /\ Kept(p.containers[i], q.containers[i])
  <2> DEFINE c == p.containers[i]
             d == q.containers[i]
  <2>1. d = [c EXCEPT !.env = env, !.mounts = Append(@, "/otel-auto-instrumentation")]
    BY DEF FilesSet
  <2>2. IsContainer(c)
    BY <1>1
  <2> HIDE DEF c, d
  <2>3. IsContainer(d) /\ Kept(c, d)
    BY <2>1, <2>2, FilesContainer
  <2> QED
    BY <2>3 DEF c, d
<1>3. /\ IsSeq(q.inits) /\ IsSeq(q.volumes)
      /\ Range(q.inits) \subseteq Range(p.inits) \cup {InitContainer(lang)}
      /\ Range(q.volumes) \subseteq Range(p.volumes) \cup {AutoInstrumentation}
      /\ ~isInitContainerMissing(q)
  <2>1. CASE isInitContainerMissing(p)
    <3>1. /\ q.volumes = Append(p.volumes, AutoInstrumentation)
          /\ q.inits = Append(p.inits, InitContainer(lang))
      BY <2>1 DEF FilesSet
    <3>2. /\ IsSeq(q.volumes) /\ IsSeq(q.inits)
          /\ Range(q.volumes) = Range(p.volumes) \cup {AutoInstrumentation}
          /\ Range(q.inits) = Range(p.inits) \cup {InitContainer(lang)}
      BY <1>1, <3>1, AppendSeq, SMTT(30)
    <3>3. InitContainer(lang) \in Range(q.inits) /\ InitContainer(lang).name = AutoInstrumentation
      BY <3>2, InitIsContainer
    <3> QED
      BY <3>2, <3>3 DEF isInitContainerMissing
  <2>2. CASE ~isInitContainerMissing(p)
    BY <1>1, <2>2 DEF FilesSet, isInitContainerMissing
  <2> QED
    BY <2>1, <2>2
<1>4. \A c \in Range(q.inits) : IsContainer(c)
  BY <1>3, InitIsContainer DEF IsPod
<1>5. Edit(p, q, i)
  BY DEF FilesSet
<1>6. IsPod(q) /\ Len(q.containers) = Len(p.containers)
  BY <1>2, <1>3, <1>4, <1>5, EditPod
<1>7. "kernel-debug" \in Range(q.volumes) => "kernel-debug" \in Range(p.volumes)
  BY <1>3 DEF AutoInstrumentation
<1>8. Grown(p, q)
  BY <1>2, <1>5, <1>6, <1>7, GrownEdit
<1> QED
  BY <1>3, <1>6, <1>8

-----------------------------------------------------------------------------
(* The agent of Go.                                                        *)

LEMMA GoAgentContainer ==
    ASSUME NEW inst, IsInst(inst), NEW p
    PROVE  /\ IsEnv(GoExe(p)) /\ IsEnv(GoEnv(inst, p)) /\ IsContainer(GoAgent(inst, p))
           /\ GoAgent(inst, p).env = GoEnv(inst, p)
           /\ GoAgent(inst, p).name = AutoInstrumentation /\ GoAgent(inst, p).agent = "go"
           /\ GoAgent(inst, p).mounts = <<"/sys/kernel/debug">>
<1>1. IsEnv(GoExe(p))
  <2> DEFINE v == Var(EXE, {})
  <2>1. IsVar(v)
    BY VarIsVar
  <2> HIDE DEF v
  <2>2. IsSeq(<<v>>) /\ Range(<<v>>) = {v} /\ IsSeq(<<>>) /\ Range(<<>>) = {}
    BY OneSeq, NullSeq
  <2>3. IsEnv(<<v>>) /\ IsEnv(<<>>)
    BY <2>1, <2>2 DEF IsEnv, IsVar
  <2> QED
    BY <2>3 DEF GoExe, v
<1>2. IsEnv(inst.langEnv["go"])
  BY DEF IsInst, Language
<1>3. IsEnv(GoEnv(inst, p))
  BY <1>1, <1>2, AllMissingAdded DEF GoEnv
<1> DEFINE c == GoAgent(inst, p)
<1>4. /\ DOMAIN c = {"name", "agent", "env", "mounts", "probe", "ports"}
      /\ c.env = GoEnv(inst, p) /\ c.name = AutoInstrumentation /\ c.agent = "go"
      /\ c.mounts = <<"/sys/kernel/debug">>
  BY DEF GoAgent
<1> HIDE DEF c
<1>5. IsSeq(c.mounts)
  BY <1>4, OneSeq, SMTT(30)
<1>6. IsContainer(c)
  BY <1>3, <1>4, <1>5 DEF IsContainer
<1> QED
  BY <1>1, <1>3, <1>4, <1>6 DEF c

\* The containers and the volumes with what is added.
LEMMA GoPodParts ==
    ASSUME NEW inst, IsInst(inst), NEW p, IsPod(p), NEW q, q = GoPod(inst, p)
    PROVE  /\ IsPod(q) /\ Rest(p, q) /\ q.inits = p.inits
           /\ q.containers = Append(p.containers, GoAgent(inst, p))
           /\ q.volumes = Append(p.volumes, "kernel-debug")
           /\ Len(q.containers) = Len(p.containers) + 1
           /\ q.containers[Len(p.containers) + 1] = GoAgent(inst, p)
           /\ \A i \in 1..Len(p.containers) : q.containers[i] = p.containers[i]
           /\ Range(q.volumes) = Range(p.volumes) \cup {"kernel-debug"} /\ Grown(p, q)
<1>1. DOMAIN p = {"containers", "inits", "volumes", "shareProcessNamespace", "containerNames",
                  "goExe", "owner", "annotations", "meta"}
  BY DEF IsPod
<1>2. /\ Rest(p, q) /\ q.containers = Append(p.containers, GoAgent(inst, p))
      /\ q.volumes = Append(p.volumes, "kernel-debug") /\ q.inits = p.inits
      /\ DOMAIN q = DOMAIN p
  BY <1>1 DEF GoPod, Rest
<1>3. IsSeq(p.containers) /\ IsSeq(p.volumes) /\ IsSeq(p.inits)
  BY DEF IsPod
<1>4. /\ IsSeq(q.containers) /\ Len(q.containers) = Len(p.containers) + 1
      /\ q.containers[Len(p.containers) + 1] = GoAgent(inst, p)
      /\ \A i \in 1..Len(p.containers) : q.containers[i] = p.containers[i]
      /\ Range(q.containers) = Range(p.containers) \cup {GoAgent(inst, p)}
  BY <1>2, <1>3, AppendSeq, SMTT(30)
<1>5. IsSeq(q.volumes) /\ Range(q.volumes) = Range(p.volumes) \cup {"kernel-debug"}
  BY <1>2, <1>3, AppendSeq, SMTT(30)
<1>6. IsContainer(GoAgent(inst, p)) /\ GoAgent(inst, p).name = AutoInstrumentation
      /\ GoAgent(inst, p).agent = "go"
  BY GoAgentContainer
<1>7. IsPod(q)
  <2>1. \A c \in Range(q.containers) \cup Range(q.inits) : IsContainer(c)
    BY <1>2, <1>4, <1>6 DEF IsPod
  <2> QED
    BY <1>1, <1>2, <1>3, <1>4, <1>5, <2>1 DEF IsPod
<1>8. Len(p.containers) \in Nat
  BY PodParts
<1>9. Grown(p, q)
  <2>1. \A i \in 1..Len(p.containers) : Kept(p.containers[i], q.containers[i])
    BY <1>4 DEF Kept
  <2>2. \A i \in (Len(p.containers) + 1)..Len(q.containers) :
           q.containers[i].name = AutoInstrumentation /\ q.containers[i].agent = "go"
    BY <1>4, <1>6, <1>8, SMTT(30)
  <2>3. \E i \in 1..Len(q.containers) : q.containers[i].agent = "go"
    BY <1>4, <1>6, <1>8, SMTT(30)
  <2> QED
    BY <1>2, <1>4, <1>7, <1>8, <2>1, <2>2, <2>3, SMTT(30) DEF Grown
<1> QED
  BY <1>2, <1>4, <1>5, <1>7, <1>9

\* The agent of Go is added, or the pod stays as it is.
LEMMA GoLanguage ==
    \A inst, p, i, found, q :
        IsInst(inst) /\ IsPod(p) /\ q = injectLanguage("go", inst, p, i, found)
        => IF GoDeclines(inst, p) THEN q = p
           ELSE q = Configure(inst, GoPod(inst, p), Len(p.containers) + 1, 1, found)
  \* A name that Configure does not add.
<1>ConfiguredNames.
      ASSUME NEW env, IsEnv(env), NEW new, NEW S, NEW W, Configured(env, new, S, W),
             NEW name, name # ORA, \A v \in S : v.name # name
      PROVE  Defines(new, name) <=> Defines(env, name)
  <2> USE <1>ConfiguredNames
  <2> DEFINE k == getIndexOfEnv(env, ORA)
             n == Len(new)
             m == Len(env)
  <2>1. /\ m \in Nat /\ n \in Nat /\ n # 0 /\ m <= n
    BY EnvVars DEF Configured
  <2>2. CASE k = 0
    <3>1. /\ m < n /\ new[n] = Var(ORA, W)
          /\ \A i \in 1..m : new[i] = env[i]
          /\ \A i \in (m + 1)..(n - 1) : new[i] \in S
      BY <2>2 DEF Configured
    <3>2. new[n].name = ORA
      BY <3>1, SMTT(30) DEF Var
    <3> HIDE DEF k, n, m
    <3>3. ASSUME NEW i \in 1..n, new[i].name = name
          PROVE  \E j \in 1..m : env[j].name = name
      <4>1. i \in 1..m \/ i \in (m + 1)..(n - 1) \/ i = n
        BY <2>1, SMTT(30)
      <4> QED
        BY <3>1, <3>2, <3>3, <4>1
    <3>4. ASSUME NEW i \in 1..m, env[i].name = name
          PROVE  \E j \in 1..n : new[j].name = name
      BY <2>1, <3>1, <3>4, SMTT(30)
    <3> QED
      BY <3>3, <3>4 DEF n, m, Defines
  <2>3. CASE k # 0
    <3>1. /\ new[n] = [env[k] EXCEPT !.value = @ \cup W]
          /\ \A i \in 1..(k - 1) : new[i] = env[i]
          /\ \A i \in (k + 1)..m : new[i - 1] = env[i]
          /\ \A i \in m..(n - 1) : new[i] \in S
      BY <2>3 DEF Configured
    <3>2. k \in 1..m /\ env[k].name = ORA
      BY <2>3, IndexOfEnv, SMTT(30)
    <3>3. new[n].name = ORA
      <4>1. IsVar(env[k])
        BY <3>2, EnvVars
      <4> QED
        BY <3>1, <3>2, <4>1 DEF IsVar
    <3> HIDE DEF k, n, m
    <3>4. ASSUME NEW i \in 1..n, new[i].name = name
          PROVE  \E j \in 1..m : env[j].name = name
      <4>1. i \in 1..(k - 1) \/ i \in k..(m - 1) \/ i \in m..(n - 1) \/ i = n
        BY <2>1, <3>2, SMTT(30)
      <4>2. CASE i \in k..(m - 1)
        <5>1. i + 1 \in (k + 1)..m /\ (i + 1) - 1 = i /\ i + 1 \in 1..m
          BY <2>1, <3>2, <4>2, SMTT(30)
        <5> QED
          BY <3>1, <3>4, <5>1
      <4>3. CASE i \in 1..(k - 1)
        BY <2>1, <3>1, <3>2, <3>4, <4>3, SMTT(30)
      <4> QED
        BY <3>1, <3>3, <3>4, <4>1, <4>2, <4>3
    <3>5. ASSUME NEW i \in 1..m, env[i].name = name
          PROVE  \E j \in 1..n : new[j].name = name
      <4>1. CASE i \in 1..(k - 1)
        BY <2>1, <3>1, <3>5, <4>1, SMTT(30)
      <4>2. CASE i \in (k + 1)..m
        <5>1. i - 1 \in 1..n
          BY <2>1, <3>2, <4>2, SMTT(30)
        <5> QED
          BY <3>1, <3>5, <4>2, <5>1
      <4> QED
        BY <2>1, <3>2, <3>5, <4>1, <4>2, SMTT(30)
    <3> QED
      BY <3>4, <3>5 DEF n, m, Defines
  <2> QED
    BY <2>2, <2>3
<1> SUFFICES ASSUME NEW inst, IsInst(inst), NEW p, IsPod(p), NEW i, NEW found,
                    NEW q, q = injectLanguage("go", inst, p, i, found)
             PROVE  IF GoDeclines(inst, p) THEN q = p
                    ELSE q = Configure(inst, GoPod(inst, p), Len(p.containers) + 1, 1, found)
  OBVIOUS
<1> DEFINE r == injectGoSDK(inst, p)
           n == Len(r.pod.containers)
           c == Configure(inst, r.pod, n, 1, found)
<1>1. q = IF r.ok /\ Has(c.containers[n].env, EXE) THEN c ELSE p
  BY DEF injectLanguage, injectGo, EXE
<1>2. r = IF p.shareProcessNamespace = "false" \/ Len(p.containerNames) > 1
          THEN Result(FALSE, p) ELSE Result(TRUE, GoPod(inst, p))
  BY DEF injectGoSDK, GoPod, GoAgent, GoEnv, GoExe, EXE
<1>3. CASE p.shareProcessNamespace = "false" \/ Len(p.containerNames) > 1
  <2>1. ~r.ok
    BY <1>2, <1>3, SMTT(30) DEF Result
  <2> HIDE DEF r, c
  <2> QED
    BY <1>1, <1>3, <2>1 DEF GoDeclines
<1>4. CASE ~(p.shareProcessNamespace = "false" \/ Len(p.containerNames) > 1)
  <2>1. r.ok /\ r.pod = GoPod(inst, p)
    BY <1>2, <1>4, SMTT(30) DEF Result
  <2> DEFINE g == GoPod(inst, p)
             k == Len(p.containers) + 1
  <2>2. IsPod(g) /\ Len(g.containers) = k /\ g.containers[k] = GoAgent(inst, p)
    BY GoPodParts, SMTT(30)
  <2>3. k \in 1..Len(g.containers)
    BY <2>2, PodParts, SMTT(30)
  <2>4. n = k /\ c = Configure(inst, g, k, 1, found)
    BY <2>1, <2>2
  <2>5. IsEnv(GoEnv(inst, p)) /\ g.containers[k].env = GoEnv(inst, p) /\ IsEnv(inst.env)
    BY <2>2, GoAgentContainer DEF IsInst
  <2> DEFINE a == Base(inst, g, k)
             e == FullEnv(inst, g, k, 1, found)
  <2>6. a = AddAllMissing(GoEnv(inst, p), inst.env)
    BY <2>5 DEF Base
  <2> HIDE DEF r, c, g, k, n
  <2>7. IsEnv(a) /\ IsEnv(e) /\ EnvSet(g, c, k, e)
    BY <2>2, <2>3, <2>4, <2>5, ConfigureEnv
  <2>8. c.containers[k].env = e
    <3>1. IsContainer(g.containers[k])
      BY <2>2, <2>3, PodParts
    <3> QED
      BY <2>7, <3>1, EnvContainer, SMTT(30) DEF EnvSet
  <2>9. (\E j \in 1..Len(e) : e[j].name = EXE) <=> (\E j \in 1..Len(a) : a[j].name = EXE)
    <3> DEFINE res == Known(inst, g, k, 1, found)
               p1 == injectCommonEnvVar(inst, g, k)
               S == Settings(inst, p1, 1, res) \cup FieldRefs(inst, res)
    <3>1. e = CommonEnv(inst, p1, a, 1, res)
      BY DEF FullEnv
    <3>2. \A v \in S : v.name # EXE
      <4>1. EXE \notin SettingNames
        BY DEF EXE, SettingNames
      <4> QED
        BY <4>1, SettingVars
    <3>3. EXE # ORA
      BY DEF EXE, ORA
    <3>4. S = Settings(inst, p1, 1, res) \cup FieldRefs(inst, res)
      OBVIOUS
    <3> HIDE DEF res, p1, S, a, e
    <3>5. Configured(a, e, S, Attributes(inst, res))
      BY <2>7, <3>1, <3>4, CommonEnvShape
    <3>6. Defines(e, EXE) <=> Defines(a, EXE)
      BY <2>7, <3>2, <3>3, <3>5, <1>ConfiguredNames
    <3> QED
      BY <3>6 DEF Defines
  <2>10. Has(e, EXE) <=> \E j \in 1..Len(e) : e[j].name = EXE
    <3> HIDE DEF e
    <3>1. Len(e) \in Nat
      BY <2>7, EnvVars
    <3> QED
      BY <2>7, <3>1, IndexOfEnv, SMTT(30) DEF Has
  <2>11. Has(e, EXE) <=> GoReady(inst, p)
    <3> HIDE DEF a, e
    <3> QED
      BY <2>6, <2>9, <2>10 DEF GoReady
  <2> HIDE DEF e, a
  <2> QED
    BY <1>1, <1>4, <2>1, <2>4, <2>8, <2>11 DEF GoDeclines, g, k
<1> QED
  BY <1>3, <1>4

-----------------------------------------------------------------------------
(* The agent of Apache.                                                    *)

LEMMA SetApache ==
    ASSUME NEW inst, NEW p, IsPod(p), NEW i \in 1..Len(p.containers), NEW res,
           NEW q, q = injectApacheHttpdagent(inst, p, i, res)
    PROVE  ApacheSet(inst, p, q, i, getApacheOtelConfig(inst, p, i, res))
<1>1. /\ DOMAIN p = {"containers", "inits", "volumes", "shareProcessNamespace", "containerNames",
                     "goExe", "owner", "annotations", "meta"}
      /\ IsSeq(p.inits) /\ IsSeq(p.volumes)
  BY DEF IsPod
<1> DEFINE c == ApacheContainer(inst, p, i)
           d == [c EXCEPT !.mounts = ApacheMounts(@)]
           r == AddClone(inst, p, i)
           clone == Clone(c)
           attach == Attach(getApacheOtelConfig(inst, p, i, res))
<1>2. \/ r = [p EXCEPT !.containers[i] = c]
      \/ r = [p EXCEPT !.containers[i] = d, !.inits = Append(@, clone),
                       !.volumes = Append(@, "otel-apache-conf-dir")]
  BY DEF AddClone
<1>3. \/ q = r
      \/ q = [r EXCEPT !.inits = Append(@, attach), !.volumes = Append(@, "otel-apache-agent")]
  BY DEF injectApacheHttpdagent, AddAttach
<1>4. DOMAIN p.containers = 1..Len(p.containers)
  BY PodParts
<1> HIDE DEF c, d, r, clone, attach
<1>5. /\ DOMAIN r = DOMAIN p /\ Rest(p, r) /\ r.shareProcessNamespace = p.shareProcessNamespace
      /\ r.containers = [p.containers EXCEPT ![i] = c] \/ r.containers = [p.containers EXCEPT ![i] = d]
      /\ \/ r.inits = p.inits /\ r.volumes = p.volumes
         \/ r.inits = Append(p.inits, clone) /\ r.volumes = Append(p.volumes, "otel-apache-conf-dir")
  BY <1>1, <1>2 DEF Rest
<1>6. /\ Rest(r, q) /\ q.shareProcessNamespace = r.shareProcessNamespace
      /\ q.containers = r.containers
      /\ \/ q.inits = r.inits /\ q.volumes = r.volumes
         \/ q.inits = Append(r.inits, attach) /\ q.volumes = Append(r.volumes, "otel-apache-agent")
  BY <1>1, <1>3, <1>5 DEF Rest
<1>7. /\ q.containers = [j \in DOMAIN p.containers |-> q.containers[j]]
      /\ \A j \in DOMAIN p.containers : j # i => q.containers[j] = p.containers[j]
      /\ q.containers[i] = c \/ q.containers[i] = d
  BY <1>4, <1>5, <1>6
<1>8. Rest(p, q)
  BY <1>5, <1>6 DEF Rest
<1>9. /\ IsSeq(r.inits) /\ IsSeq(r.volumes)
      /\ Range(p.inits) \subseteq Range(r.inits) /\ Range(r.inits) \subseteq Range(p.inits) \cup {clone}
      /\ Range(p.volumes) \subseteq Range(r.volumes)
      /\ Range(r.volumes) \subseteq Range(p.volumes) \cup {"otel-apache-conf-dir"}
  <2>1. /\ IsSeq(Append(p.inits, clone))
        /\ Range(Append(p.inits, clone)) = Range(p.inits) \cup {clone}
    BY <1>1, AppendSeq
  <2>2. /\ IsSeq(Append(p.volumes, "otel-apache-conf-dir"))
        /\ Range(Append(p.volumes, "otel-apache-conf-dir")) = Range(p.volumes) \cup {"otel-apache-conf-dir"}
    BY <1>1, AppendSeq
  <2> QED
    BY <1>1, <1>5, <2>1, <2>2
<1>10. /\ IsSeq(q.inits) /\ IsSeq(q.volumes)
       /\ Range(r.inits) \subseteq Range(q.inits) /\ Range(q.inits) \subseteq Range(r.inits) \cup {attach}
       /\ Range(r.volumes) \subseteq Range(q.volumes)
       /\ Range(q.volumes) \subseteq Range(r.volumes) \cup {"otel-apache-agent"}
  <2>1. /\ IsSeq(Append(r.inits, attach))
        /\ Range(Append(r.inits, attach)) = Range(r.inits) \cup {attach}
    BY <1>9, AppendSeq
  <2>2. /\ IsSeq(Append(r.volumes, "otel-apache-agent"))
        /\ Range(Append(r.volumes, "otel-apache-agent")) = Range(r.volumes) \cup {"otel-apache-agent"}
    BY <1>9, AppendSeq
  <2> QED
    BY <1>6, <1>9, <2>1, <2>2
<1>11. /\ Range(p.inits) \subseteq Range(q.inits)
       /\ Range(q.inits) \subseteq Range(p.inits) \cup {clone, attach}
       /\ Range(p.volumes) \subseteq Range(q.volumes)
       /\ Range(q.volumes) \subseteq Range(p.volumes) \cup {"otel-apache-conf-dir", "otel-apache-agent"}
  BY <1>9, <1>10
<1>12. Edit(p, q, i)
  BY <1>5, <1>6, <1>7, <1>8 DEF Edit
<1> QED
  BY <1>7, <1>10, <1>11, <1>12 DEF ApacheSet, c, d, clone, attach

LEMMA FirstMount ==
    ASSUME NEW s, IsSeq(s), NEW k, k = MountIndex(s)
    PROVE  \/ k = 0 /\ Range(s) \cap ConfPaths = {}
           \/ k \in 1..Len(s) /\ s[k] \in ConfPaths
<1> DEFINE I == {i \in 1..Len(s) : s[i] \in ConfPaths}
<1>1. Len(s) \in Nat /\ DOMAIN s = 1..Len(s)
  BY SeqDomain
<1>2. k = IF I = {} THEN 0 ELSE Min(I)
  BY <1>1 DEF FirstIndex, MountIndex
<1>3. CASE I = {}
  BY <1>1, <1>2, <1>3 DEF Range
<1>4. CASE I # {}
  <2>1. I \in SUBSET Nat
    BY <1>1, SMTT(30)
  <2>2. Min(I) \in I
    <3> HIDE DEF I
    <3> QED
      BY <1>4, <2>1, Minimum
  <2> QED
    BY <1>2, <1>4, <2>2
<1> QED
  BY <1>3, <1>4

LEMMA ApacheMountsSeq ==
    ASSUME NEW s, IsSeq(s)
    PROVE  IsSeq(ApacheMounts(s))
<1> DEFINE k == MountIndex(s)
           o == IF k = 0 THEN s ELSE RemoveAt(s, k)
<1>1. k = 0 \/ k \in 1..Len(s)
  BY FirstMount
<1>2. ApacheMounts(s) = o \o <<AgentDir, ConfDir>>
  BY DEF ApacheMounts
<1> HIDE DEF k
<1>3. IsSeq(o)
  BY <1>1, RemoveAtSeq
<1> HIDE DEF o
<1>4. IsSeq(<<AgentDir, ConfDir>>)
  BY TwoSeq
<1> QED
  BY <1>2, <1>3, <1>4, ConcatSeq

LEMMA ApacheContainers ==
    ASSUME NEW inst, IsInst(inst), NEW p, IsPod(p), NEW i \in 1..Len(p.containers),
           NEW c, c = ApacheContainer(inst, p, i), NEW d, d = [c EXCEPT !.mounts = ApacheMounts(@)]
    PROVE  /\ IsContainer(c) /\ IsContainer(d) /\ Kept(p.containers[i], c) /\ Kept(p.containers[i], d)
           /\ c.env = ApacheEnv(inst, p, i) /\ d.env = c.env /\ IsEnv(ApacheEnv(inst, p, i))
           /\ c.mounts = p.containers[i].mounts /\ d.mounts = ApacheMounts(c.mounts)
<1> DEFINE b == p.containers[i]
           e == ApacheEnv(inst, p, i)
<1>1. IsContainer(b) /\ IsEnv(b.env)
  BY PodParts DEF IsContainer
<1>2. IsEnv(inst.langEnv["apache"])
  BY DEF IsInst, Language
<1>3. IsEnv(e)
  BY <1>1, <1>2, AllMissingAdded DEF ApacheEnv
<1>4. c = [b EXCEPT !.env = e]
  BY DEF ApacheContainer, ApacheEnv
<1> HIDE DEF b, e
<1>5. IsContainer(c) /\ c.env = e /\ Kept(b, c) /\ c.mounts = b.mounts
  BY <1>1, <1>3, <1>4, EnvContainer, SMTT(30) DEF Kept
<1>6. IsSeq(ApacheMounts(c.mounts))
  BY <1>5, ApacheMountsSeq DEF IsContainer
<1>7. IsContainer(d) /\ d.env = c.env /\ Kept(c, d) /\ d.mounts = ApacheMounts(c.mounts)
  <2>1. DOMAIN c = {"name", "agent", "env", "mounts", "probe", "ports"}
    BY <1>5 DEF IsContainer
  <2>2. /\ DOMAIN d = DOMAIN c /\ d.env = c.env /\ d.name = c.name /\ d.agent = c.agent
        /\ d.mounts = ApacheMounts(c.mounts) /\ d.probe = c.probe /\ d.ports = c.ports
    BY <2>1
  <2> QED
    BY <1>5, <1>6, <2>1, <2>2 DEF IsContainer, Kept
<1> QED
  BY <1>3, <1>5, <1>7 DEF Kept, b, e

LEMMA CloneContainer ==
    ASSUME NEW c, IsContainer(c), NEW d, d = Clone(c)
    PROVE  /\ IsContainer(d) /\ d.name = CloneName /\ d.agent = c.agent /\ d.probe = c.probe
           /\ d.env = c.env /\ d.mounts = Append(c.mounts, SourceDir)
<1>1. /\ DOMAIN c = {"name", "agent", "env", "mounts", "probe", "ports"} /\ IsSeq(c.mounts)
      /\ IsEnv(c.env)
  BY DEF IsContainer
<1>2. /\ DOMAIN d = DOMAIN c /\ d.name = CloneName /\ d.mounts = Append(c.mounts, SourceDir)
      /\ d.env = c.env /\ d.agent = c.agent /\ d.probe = c.probe
  BY <1>1 DEF Clone
<1>3. IsSeq(d.mounts)
  BY <1>1, <1>2, AppendSeq, SMTT(30)
<1> QED
  BY <1>1, <1>2, <1>3 DEF IsContainer

LEMMA AttachContainer ==
    ASSUME NEW config, NEW a, a = Attach(config)
    PROVE  /\ IsContainer(a) /\ a.name = AttachName /\ a.agent = "apache"
           /\ a.probe = FALSE /\ a.mounts = <<AgentDir, SourceDir>>
           /\ \A v \in Range(a.env) : v.from => v.value = {}
<1> DEFINE v == Var("OTEL_APACHE_AGENT_CONF", config)
           w == FieldRef("APACHE_SERVICE_INSTANCE_ID")
<1>1. /\ DOMAIN a = {"name", "agent", "env", "mounts", "probe", "ports"}
      /\ a.name = AttachName /\ a.agent = "apache" /\ a.env = <<v, w>>
      /\ a.mounts = <<AgentDir, SourceDir>> /\ a.probe = FALSE
  BY DEF Attach
<1>2. IsVar(v) /\ IsVar(w) /\ v.from = FALSE /\ w.value = {}
  BY VarIsVar
<1> HIDE DEF v, w
<1>3. IsSeq(<<v, w>>) /\ Range(<<v, w>>) = {v, w} /\ IsSeq(<<AgentDir, SourceDir>>)
  BY TwoSeq
<1>4. IsEnv(<<v, w>>)
  BY <1>2, <1>3 DEF IsEnv, IsVar
<1>5. IsContainer(a)
  BY <1>1, <1>3, <1>4 DEF IsContainer
<1>6. \A x \in Range(a.env) : x.from => x.value = {}
  BY <1>1, <1>2, <1>3
<1> QED
  BY <1>1, <1>5, <1>6

LEMMA ApacheSetPod ==
    ASSUME NEW inst, IsInst(inst), NEW p, IsPod(p), NEW i \in 1..Len(p.containers), NEW config,
           NEW q, ApacheSet(inst, p, q, i, config)
    PROVE  IsPod(q) /\ Len(q.containers) = Len(p.containers) /\ Grown(p, q)
<1> DEFINE c == ApacheContainer(inst, p, i)
           d == [c EXCEPT !.mounts = ApacheMounts(@)]
           clone == Clone(c)
           attach == Attach(config)
<1>1. IsContainer(c) /\ IsContainer(d) /\ Kept(p.containers[i], c) /\ Kept(p.containers[i], d)
  BY ApacheContainers
<1>2. /\ Edit(p, q, i) /\ IsSeq(q.inits) /\ IsSeq(q.volumes)
      /\ q.containers[i] = c \/ q.containers[i] = d
      /\ Range(q.inits) \subseteq Range(p.inits) \cup {clone, attach}
      /\ Range(q.volumes) \subseteq Range(p.volumes) \cup {"otel-apache-conf-dir", "otel-apache-agent"}
  BY DEF ApacheSet
<1> HIDE DEF c, d
<1>3. IsContainer(clone) /\ IsContainer(attach)
  BY <1>1, CloneContainer, AttachContainer
<1> HIDE DEF clone, attach
<1>4. IsContainer(q.containers[i]) /\ Kept(p.containers[i], q.containers[i])
  BY <1>1, <1>2
<1>5. \A x \in Range(q.inits) : IsContainer(x)
  BY <1>3, <1>2 DEF IsPod
<1>6. IsPod(q) /\ Len(q.containers) = Len(p.containers)
  BY <1>2, <1>4, <1>5, EditPod
<1>7. "kernel-debug" \in Range(q.volumes) => "kernel-debug" \in Range(p.volumes)
  BY <1>2
<1>8. Grown(p, q)
  BY <1>2, <1>4, <1>6, <1>7, GrownEdit
<1> QED
  BY <1>6, <1>8

-----------------------------------------------------------------------------
(* The mutator.                                                            *)

LEMMA GrownConfigure ==
    ASSUME NEW p, IsPod(p), NEW agent \in 1..Len(p.containers), NEW inst, IsInst(inst),
           NEW app, NEW found, NEW q, q = Configure(inst, p, agent, app, found)
    PROVE  Grown(p, q) /\ Len(q.containers) = Len(p.containers)
<1> DEFINE e == FullEnv(inst, p, agent, app, found)
<1>1. IsEnv(inst.env)
  BY DEF IsInst
<1>2. IsEnv(e) /\ EnvSet(p, q, agent, e)
  BY <1>1, ConfigureEnv
<1> HIDE DEF e
<1> QED
  BY <1>2, GrownEnvSet

LEMMA GrownLanguage ==
    ASSUME NEW lang \in Language \cup {"sdk"}, NEW inst, IsInst(inst), NEW p, IsPod(p),
           NEW i \in 1..Len(p.containers), NEW found,
           NEW q, q = injectLanguage(lang, inst, p, i, found)
    PROVE  Grown(p, q)
<1>1. CASE lang \in Files
  <2>1. CASE q = p
    BY <2>1, GrownSelf
  <2>2. CASE Injects(lang, inst, p, i, found, q)
    <3> DEFINE b == p.containers[i].env
    <3>1. IsEnv(b)
      BY PodParts DEF IsContainer
    <3>2. PICK env : FilesShape(lang, inst, b, env)
                       /\ q = Configure(inst, InjectFiles(lang, p, i, env), i, i, found)
      BY <2>2 DEF Injects
    <3> DEFINE r == InjectFiles(lang, p, i, env)
    <3>3. IsEnv(env)
      BY <1>1, <3>1, <3>2, FilesShapeEnv
    <3>4. FilesSet(lang, p, r, i, env)
      BY SetFiles
    <3> HIDE DEF r
    <3>5. IsPod(r) /\ Len(r.containers) = Len(p.containers) /\ Grown(p, r)
      BY <3>3, <3>4, FilesSetPod
    <3>6. Grown(r, q)
      <4>1. i \in 1..Len(r.containers) /\ q = Configure(inst, r, i, i, found)
        BY <3>2, <3>5 DEF r
      <4> QED
        BY <3>5, <4>1, GrownConfigure
    <3> QED
      BY <3>5, <3>6, GrownTwice
  <2> QED
    BY <1>1, <2>1, <2>2, FilesLanguage
<1>2. CASE lang = "go"
  <2> DEFINE r == GoPod(inst, p)
             n == Len(p.containers) + 1
  <2>1. CASE q = p
    BY <2>1, GrownSelf
  <2>2. CASE q = Configure(inst, r, n, 1, found)
    <3>1. IsPod(r) /\ Len(r.containers) = n /\ Grown(p, r)
      BY GoPodParts, SMTT(30)
    <3>2. n \in 1..Len(r.containers)
      BY <3>1, PodParts, SMTT(30)
    <3> HIDE DEF r, n
    <3>3. Grown(r, q)
      BY <2>2, <3>1, <3>2, GrownConfigure, SMTT(30)
    <3> QED
      BY <3>1, <3>3, GrownTwice
  <2>3. q = injectLanguage("go", inst, p, i, found)
    BY <1>2
  <2> QED
    BY <2>1, <2>2, <2>3, GoLanguage
<1>3. CASE lang = "apache"
  <2> DEFINE res == createResourceMap(inst, p, i, found)
             r == injectApacheHttpdagent(inst, p, i, res)
  <2>1. q = Configure(inst, r, i, i, found)
    BY <1>3 DEF injectLanguage
  <2>2. ApacheSet(inst, p, r, i, getApacheOtelConfig(inst, p, i, res))
    BY SetApache
  <2> HIDE DEF r
  <2>3. IsPod(r) /\ Len(r.containers) = Len(p.containers) /\ Grown(p, r)
    BY <2>2, ApacheSetPod
  <2>4. Grown(r, q)
    BY <2>1, <2>3, GrownConfigure
  <2> QED
    BY <2>3, <2>4, GrownTwice
<1>4. CASE lang = "sdk"
  <2>1. q = Configure(inst, p, i, i, found)
    BY <1>4 DEF injectLanguage
  <2> QED
    BY <2>1, GrownConfigure
<1> QED
  BY <1>1, <1>2, <1>3, <1>4 DEF Language, Files

LEMMA Maximum ==
    ASSUME NEW n \in Nat, NEW T \in SUBSET (1..n), T # {}
    PROVE  \E j \in T : \A k \in T : k <= j
<1> DEFINE U == {m \in Nat : \A k \in T : k <= m}
           m == Min(U)
<1>1. n \in U /\ U \in SUBSET Nat /\ U # {}
  BY SMTT(30)
<1>2. m \in U /\ \A y \in U : m <= y
  <2> HIDE DEF U
  <2> QED
    BY <1>1, Minimum
<1> HIDE DEF m
<1>3. m \in Nat /\ \A k \in T : k <= m
  BY <1>2
<1>4. m \in T
  <2> SUFFICES ASSUME m \notin T PROVE FALSE
    OBVIOUS
  <2>1. PICK k \in T : TRUE
    OBVIOUS
  <2>2. m # 0
    BY <1>3, <2>1, SMTT(30)
  <2>3. \A j \in T : j <= m - 1
    BY <1>3, SMTT(30)
  <2>4. m - 1 \in U
    BY <1>3, <2>2, <2>3, SMTT(30)
  <2> QED
    BY <1>2, <1>3, <2>4, SMTT(30)
<1> QED
  BY <1>3, <1>4

LEMMA TargetIn ==
    ASSUME NEW p, IsPod(p), p.containers # <<>>, NEW name
    PROVE  Target(p, name) \in 1..Len(p.containers) /\ 1 \in 1..Len(p.containers)
<1>1. /\ Len(p.containers) \in Nat /\ DOMAIN p.containers = 1..Len(p.containers)
  BY PodParts
<1>2. IsSeq(p.containers)
  BY DEF IsPod
<1>3. Len(p.containers) # 0
  BY <1>2, SMTT(30) DEF IsSeq
<1> DEFINE named == {j \in DOMAIN p.containers : p.containers[j].name = name}
           t == CHOOSE j \in named : \A k \in named : k <= j
<1>4. Target(p, name) = IF named = {} THEN 1 ELSE t
  BY DEF Target
<1>5. CASE named # {}
  <2>1. named \in SUBSET (1..Len(p.containers))
    BY <1>1
  <2> HIDE DEF named
  <2>2. \E j \in named : \A k \in named : k <= j
    BY <1>1, <1>5, <2>1, Maximum
  <2>3. t \in named
    BY <2>2
  <2>4. t \in 1..Len(p.containers)
    BY <2>1, <2>3
  <2>5. Target(p, name) = t
    BY <1>4, <1>5
  <2>6. 1 \in 1..Len(p.containers)
    <3> HIDE DEF t
    <3> QED
      BY <1>1, <1>3, SMTT(30)
  <2> QED
    BY <2>4, <2>5, <2>6
<1> QED
  BY <1>1, <1>3, <1>4, <1>5, SMTT(30)

LEMMA InjectLanguages ==
    ASSUME NEW insts, NEW p, p.containers # <<>>, NEW name, NEW found
    PROVE  \E G : /\ LanguagesRun(G, insts, p, Target(p, name), found)
                  /\ inject(insts, p, name, found) = G[7]
<1> DEFINE i == Target(p, name)
<1>1. DOMAIN Order = 1..7 /\ 7 \in Nat
  BY SMTT(30) DEF Order
<1>2. inject(insts, p, name, found) = LanguageSteps(insts, p, i, found)
  BY DEF inject
<1> HIDE DEF i
<1>3. PICK G : FoldRun(G, insts, p, i, found, 7)
  BY <1>1, StepsFold
<1> QED
  BY <1>2, <1>3 DEF FoldRun, LanguagesRun, i

LEMMA OrderLanguages ==
    \A k \in 1..7 : Order[k] \in Language \cup {"sdk"}
BY SMTT(30) DEF Order, Language

LEMMA GrownStep ==
    ASSUME NEW lang \in Language \cup {"sdk"}, NEW insts, InstsOK(insts), NEW p, IsPod(p),
           NEW i \in 1..Len(p.containers), NEW found
    PROVE  Grown(p, LanguageStep(lang, insts, p, i, found))
<1>1. CASE insts[lang] = Nil
  BY <1>1, GrownSelf DEF LanguageStep
<1>2. CASE insts[lang] # Nil
  <2>1. IsInst(insts[lang])
    BY <1>2 DEF InstsOK
  <2> QED
    BY <1>2, <2>1, GrownLanguage DEF LanguageStep
<1> QED
  BY <1>1, <1>2

LEMMA GrownIndex ==
    ASSUME NEW p, IsPod(p), NEW q, Grown(p, q), NEW i \in 1..Len(p.containers)
    PROVE  i \in 1..Len(q.containers)
<1>1. Len(p.containers) \in Nat /\ Len(q.containers) \in Nat /\ Len(p.containers) <= Len(q.containers)
  BY PodParts DEF Grown
<1> QED
  BY <1>1, SMTT(30)

LEMMA GrownLanguages ==
    ASSUME NEW insts, InstsOK(insts), NEW p, IsPod(p), NEW i \in 1..Len(p.containers), NEW found,
           NEW G, LanguagesRun(G, insts, p, i, found)
    PROVE  \A j \in 0..7 : Grown(p, G[j]) /\ i \in 1..Len(G[j].containers)
<1> DEFINE P == {j \in Nat : j <= 7 => Grown(p, G[j])}
<1>1. 0 \in P
  BY GrownSelf DEF LanguagesRun
<1>2. ASSUME NEW j \in Nat, j \in P
      PROVE  j + 1 \in P
  <2> SUFFICES ASSUME j + 1 <= 7 PROVE Grown(p, G[j + 1])
    BY SMTT(30)
  <2>1. Grown(p, G[j]) /\ j + 1 \in 1..7
    BY <1>2, SMTT(30)
  <2>2. G[j + 1] = LanguageStep(Order[j + 1], insts, G[j], i, found)
    BY <2>1, SMTT(30) DEF LanguagesRun
  <2>3. IsPod(G[j]) /\ i \in 1..Len(G[j].containers)
    BY <2>1, GrownIndex DEF Grown
  <2>4. Grown(G[j], G[j + 1])
    BY <2>1, <2>2, <2>3, OrderLanguages, GrownStep
  <2> QED
    BY <2>1, <2>4, GrownTwice
<1>3. Nat \subseteq P
  <2> HIDE DEF P
  <2> QED
    BY <1>1, <1>2, SetInduction
<1> QED
  BY <1>3, GrownIndex, SMTT(30)

LEMMA GrownRun ==
    \A insts, p, v, found, F : \A n \in Nat :
        InstsOK(insts) /\ IsPod(p) /\ InjectsRun(F, insts, p, v, found, n)
        => \A k \in 0..n : /\ Grown(p, F[k]) /\ (p.containers # <<>> => F[k].containers # <<>>)
                           /\ p.containers = <<>> => F[k] = p
<1>NoContainers.
      ASSUME NEW insts, NEW p, p.containers = <<>>, NEW name, NEW found
      PROVE  inject(insts, p, name, found) = p
  BY <1>NoContainers DEF inject
<1>SomeContainers.
      ASSUME NEW p, IsPod(p)
      PROVE  p.containers # <<>> <=> 1 \in 1..Len(p.containers)
  <2> USE <1>SomeContainers
  <2>1. IsSeq(p.containers) /\ Len(p.containers) \in Nat
    BY PodParts DEF IsPod
  <2>2. p.containers = <<>> => Len(p.containers) = 0
    BY SMTT(30)
  <2>3. Len(p.containers) = 0 => p.containers = <<>>
    BY <2>1, SMTT(30) DEF IsSeq
  <2> QED
    BY <2>1, <2>2, <2>3, SMTT(30)
<1>GrownInject.
      ASSUME NEW insts, InstsOK(insts), NEW p, IsPod(p), NEW name, NEW found
      PROVE  /\ Grown(p, inject(insts, p, name, found))
             /\ p.containers # <<>> => inject(insts, p, name, found).containers # <<>>
  <2> USE <1>GrownInject
  <2> DEFINE q == inject(insts, p, name, found)
  <2>1. CASE p.containers = <<>>
    BY <2>1, <1>NoContainers, GrownSelf
  <2>2. CASE p.containers # <<>>
    <3>1. PICK G : LanguagesRun(G, insts, p, Target(p, name), found) /\ q = G[7]
      BY <2>2, InjectLanguages
    <3>2. Target(p, name) \in 1..Len(p.containers) /\ 1 \in 1..Len(p.containers)
      BY <2>2, TargetIn
    <3> HIDE DEF q
    <3>3. Grown(p, q)
      BY <3>1, <3>2, GrownLanguages, SMTT(30)
    <3>4. 1 \in 1..Len(q.containers) /\ IsPod(q)
      BY <3>2, <3>3, GrownIndex DEF Grown
    <3>5. q.containers # <<>>
      BY <3>4, <1>SomeContainers
    <3> QED
      BY <3>3, <3>5 DEF q
  <2> QED
    BY <2>1, <2>2
<1> SUFFICES ASSUME NEW insts, InstsOK(insts), NEW p, IsPod(p), NEW v, NEW found, NEW n \in Nat,
                    NEW F, InjectsRun(F, insts, p, v, found, n)
             PROVE  \A k \in 0..n : /\ Grown(p, F[k]) /\ (p.containers # <<>> => F[k].containers # <<>>)
                                    /\ p.containers = <<>> => F[k] = p
  BY SMTT(30)
<1> DEFINE P == {k \in Nat : k <= n => /\ Grown(p, F[k])
                                       /\ p.containers # <<>> => F[k].containers # <<>>
                                       /\ p.containers = <<>> => F[k] = p}
<1>1. 0 \in P
  BY GrownSelf DEF InjectsRun
<1>2. ASSUME NEW k \in Nat, k \in P
      PROVE  k + 1 \in P
  <2> SUFFICES ASSUME k + 1 <= n
               PROVE  /\ Grown(p, F[k + 1])
                      /\ p.containers # <<>> => F[k + 1].containers # <<>>
                      /\ p.containers = <<>> => F[k + 1] = p
    BY SMTT(30)
  <2>1. /\ Grown(p, F[k]) /\ k + 1 \in 1..n
        /\ p.containers # <<>> => F[k].containers # <<>>
        /\ p.containers = <<>> => F[k] = p
    BY <1>2, SMTT(30)
  <2>2. F[k + 1] = inject(insts, F[k], v[k + 1], found)
    BY <2>1, SMTT(30) DEF InjectsRun
  <2>3. /\ Grown(F[k], F[k + 1])
        /\ F[k].containers # <<>> => F[k + 1].containers # <<>>
        /\ F[k].containers = <<>> => F[k + 1] = F[k]
    <3>1. IsPod(F[k])
      BY <2>1 DEF Grown
    <3> QED
      BY <2>2, <3>1, <1>GrownInject, <1>NoContainers, SMTT(30)
  <2>4. Grown(p, F[k + 1])
    BY <2>1, <2>3, GrownTwice
  <2> QED
    BY <2>1, <2>3, <2>4
<1>3. Nat \subseteq P
  <2> HIDE DEF P
  <2> QED
    BY <1>1, <1>2, SetInduction
<1> QED
  BY <1>3, SMTT(30)

LEMMA StepIndex ==
    ASSUME NEW n \in Nat, NEW m \in 1..(7 * n)
    PROVE  \E k \in 1..n, j \in 1..7 : m = 7 * (k - 1) + j
<1> DEFINE k == ((m - 1) \div 7) + 1
           j == ((m - 1) % 7) + 1
<1>1. k \in 1..n /\ j \in 1..7 /\ m = 7 * (k - 1) + j
  BY SMTT(30)
<1> QED
  BY <1>1

LEMMA StepPlace ==
    ASSUME NEW n \in Nat, NEW k \in 1..n, NEW j \in 1..7
    PROVE  LET m == 7 * (k - 1) + j IN
           /\ m \in 1..(7 * n) /\ ((m - 1) \div 7) + 1 = k /\ ((m - 1) % 7) + 1 = j
BY SMTT(30)

LEMMA AllSteps ==
    ASSUME NEW insts, InstsOK(insts), NEW p, IsPod(p), p.containers # <<>>,
           NEW v, NEW found, NEW n \in Nat, DOMAIN v = 1..n
    PROVE  \E H, T : StepsRun(H, T, insts, p, v, found, n)
<1>1. PICK F : InjectsRun(F, insts, p, v, found, n)
  BY InjectRun
<1>2. \A k \in 0..n : Grown(p, F[k]) /\ F[k].containers # <<>>
  BY <1>1, GrownRun, SMTT(30)
<1> DEFINE Q(G, k) == /\ LanguagesRun(G, insts, F[k - 1], Target(F[k - 1], v[k]), found)
                      /\ F[k] = G[7]
           GG == [k \in 1..n |-> CHOOSE G : Q(G, k)]
           H == [m \in 0..(7 * n) |-> IF m = 0 THEN p
                                      ELSE GG[((m - 1) \div 7) + 1][((m - 1) % 7) + 1]]
           T == [k \in 1..n |-> Target(F[k - 1], v[k])]
<1>3. ASSUME NEW k \in 1..n
      PROVE  Q(GG[k], k)
  <2>1. k - 1 \in 0..n /\ F[k - 1].containers # <<>>
    BY <1>2, SMTT(30)
  <2>2. F[k] = inject(insts, F[k - 1], v[k], found)
    BY <1>1 DEF InjectsRun
  <2>3. \E G : Q(G, k)
    BY <2>1, <2>2, InjectLanguages, SMTT(30)
  <2>4. GG[k] = CHOOSE G : Q(G, k)
    OBVIOUS
  <2> QED
    BY <2>3, <2>4
<1>4. F[0] = p /\ InjectAll(insts, p, v, found) = F[n]
  BY <1>1 DEF InjectsRun
<1> HIDE DEF GG
<1>5. ASSUME NEW k \in 1..n
      PROVE  /\ GG[k][0] = F[k - 1] /\ GG[k][7] = F[k]
             /\ \A j \in 1..7 : GG[k][j] = LanguageStep(Order[j], insts, GG[k][j - 1], T[k], found)
             /\ \A j \in 0..7 : Grown(p, GG[k][j]) /\ T[k] \in 1..Len(GG[k][j].containers)
  <2>1. LanguagesRun(GG[k], insts, F[k - 1], T[k], found) /\ GG[k][7] = F[k]
    BY <1>3
  <2>2. k - 1 \in 0..n /\ IsPod(F[k - 1]) /\ F[k - 1].containers # <<>> /\ Grown(p, F[k - 1])
    <3>1. k - 1 \in 0..n
      BY SMTT(30)
    <3> QED
      BY <1>2, <3>1 DEF Grown
  <2>3. T[k] \in 1..Len(F[k - 1].containers)
    BY <2>2, TargetIn
  <2>4. \A j \in 0..7 : Grown(F[k - 1], GG[k][j]) /\ T[k] \in 1..Len(GG[k][j].containers)
    <3> HIDE DEF T
    <3> QED
      BY <2>1, <2>2, <2>3, GrownLanguages
  <2>5. \A j \in 0..7 : Grown(p, GG[k][j])
    BY <2>2, <2>4, GrownTwice
  <2> QED
    BY <2>1, <2>4, <2>5 DEF LanguagesRun
<1>6. ASSUME NEW k \in 1..n, NEW j \in 0..7
      PROVE  H[7 * (k - 1) + j] = GG[k][j]
  <2>1. CASE j # 0
    <3>1. j \in 1..7
      BY <2>1, SMTT(30)
    <3>2. /\ 7 * (k - 1) + j \in 1..(7 * n) /\ ((7 * (k - 1) + j - 1) \div 7) + 1 = k
          /\ ((7 * (k - 1) + j - 1) % 7) + 1 = j
      BY <3>1, StepPlace, SMTT(30)
    <3>3. 7 * (k - 1) + j \in 0..(7 * n) /\ 7 * (k - 1) + j # 0
      BY <3>2, SMTT(30)
    <3> QED
      BY <3>2, <3>3, SMTT(30)
  <2>2. CASE j = 0 /\ k = 1
    BY <2>2, <1>4, <1>5, SMTT(30)
  <2>3. CASE j = 0 /\ k # 1
    <3>1. k - 1 \in 1..n /\ 7 \in 1..7
      BY <2>3, SMTT(30)
    <3>2. /\ 7 * (k - 1 - 1) + 7 \in 1..(7 * n) /\ ((7 * (k - 1 - 1) + 7 - 1) \div 7) + 1 = k - 1
          /\ ((7 * (k - 1 - 1) + 7 - 1) % 7) + 1 = 7
      BY <3>1, StepPlace, SMTT(30)
    <3>3. 7 * (k - 1) + j = 7 * (k - 1 - 1) + 7
      BY <2>3, SMTT(30)
    <3>4. 7 * (k - 1) + j \in 0..(7 * n) /\ 7 * (k - 1) + j # 0
      BY <3>2, <3>3, SMTT(30)
    <3>5. H[7 * (k - 1) + j] = GG[k - 1][7]
      BY <3>2, <3>3, <3>4, SMTT(30)
    <3> QED
      BY <1>5, <2>3, <3>1, <3>5
  <2> QED
    BY <2>1, <2>2, <2>3
<1>7. H[0] = p
  BY SMTT(30)
<1>8. H[7 * n] = F[n]
  <2>1. CASE n = 0
    BY <1>4, <1>7, <2>1, SMTT(30)
  <2>2. CASE n # 0
    <3>1. n \in 1..n /\ 7 \in 0..7 /\ 7 * (n - 1) + 7 = 7 * n
      BY <2>2, SMTT(30)
    <3>2. H[7 * (n - 1) + 7] = GG[n][7]
      BY <1>6, <3>1
    <3> HIDE DEF H
    <3> QED
      BY <1>5, <3>1, <3>2
  <2> QED
    BY <2>1, <2>2
<1> HIDE DEF H
<1>9. ASSUME NEW m \in 0..(7 * n)
      PROVE  Grown(p, H[m])
  <2>1. CASE m = 0
    BY <1>7, <2>1, GrownSelf
  <2>2. CASE m # 0
    <3>1. m \in 1..(7 * n)
      BY <2>2, SMTT(30)
    <3>2. PICK k \in 1..n, j \in 1..7 : m = 7 * (k - 1) + j
      BY <3>1, StepIndex
    <3>3. j \in 0..7 /\ Grown(p, GG[k][j])
      BY <1>5, SMTT(30)
    <3> QED
      BY <1>6, <3>2, <3>3
  <2> QED
    BY <2>1, <2>2
<1>10. ASSUME NEW k \in 1..n
       PROVE  T[k] = Target(H[7 * (k - 1)], v[k])
  <2>1. H[7 * (k - 1) + 0] = GG[k][0] /\ 7 * (k - 1) + 0 = 7 * (k - 1)
    BY <1>6, SMTT(30)
  <2> QED
    BY <1>5, <2>1
<1>11. ASSUME NEW k \in 1..n, NEW j \in 1..7
       PROVE  /\ T[k] \in 1..Len(H[7 * (k - 1) + j - 1].containers)
              /\ H[7 * (k - 1) + j]
                    = LanguageStep(Order[j], insts, H[7 * (k - 1) + j - 1], T[k], found)
  <2>1. j - 1 \in 0..7 /\ 7 * (k - 1) + (j - 1) = 7 * (k - 1) + j - 1 /\ j \in 0..7
    BY SMTT(30)
  <2>2. H[7 * (k - 1) + j - 1] = GG[k][j - 1] /\ H[7 * (k - 1) + j] = GG[k][j]
    BY <1>6, <2>1
  <2> HIDE DEF T
  <2> QED
    BY <1>5, <2>1, <2>2
<1> HIDE DEF T
<1>12. StepsRun(H, T, insts, p, v, found, n)
  BY <1>4, <1>7, <1>8, <1>9, <1>10, <1>11 DEF StepsRun
<1> QED
  BY <1>12

LEMMA NoContainersAll ==
    ASSUME NEW insts, InstsOK(insts), NEW p, IsPod(p), p.containers = <<>>,
           NEW v, NEW found, NEW n \in Nat, DOMAIN v = 1..n
    PROVE  InjectAll(insts, p, v, found) = p
<1>1. PICK F : InjectsRun(F, insts, p, v, found, n)
  BY InjectRun
<1>2. \A k \in 0..n : /\ Grown(p, F[k]) /\ (p.containers # <<>> => F[k].containers # <<>>)
                      /\ p.containers = <<>> => F[k] = p
  BY <1>1, GrownRun, SMTT(30)
<1>3. n \in 0..n /\ p.containers = <<>>
  BY SMTT(30)
<1>4. F[n] = p
  BY <1>2, <1>3
<1> QED
  BY <1>1, <1>4 DEF InjectsRun

LEMMA GrownAll ==
    ASSUME NEW insts, InstsOK(insts), NEW p, IsPod(p),
           NEW v, NEW found, NEW n \in Nat, DOMAIN v = 1..n
    PROVE  Grown(p, InjectAll(insts, p, v, found))
<1>1. PICK F : InjectsRun(F, insts, p, v, found, n)
  BY InjectRun
<1>2. Grown(p, F[n])
  BY <1>1, GrownRun, SMTT(30)
<1> QED
  BY <1>1, <1>2 DEF InjectsRun

=============================================================================
