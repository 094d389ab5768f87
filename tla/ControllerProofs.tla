-------------------------- MODULE ControllerProofs --------------------------
(***************************************************************************)
(* Where provisioned volumes are, for every pathPattern and whatever the   *)
(* owners of PVCs write into labels and annotations.                       *)
(***************************************************************************)
EXTENDS Controller, SequenceTheorems, WellFoundedInduction, TLAPS

-----------------------------------------------------------------------------
(* Induction, over sets *)

(* A set with 0, and with each number its successor, has every number. *)
LEMMA NatSetInduction ==
  ASSUME NEW S, 0 \in S, \A n \in Nat : n \in S => n + 1 \in S
  PROVE  Nat \subseteq S
<1>1. SUFFICES ASSUME Nat \ S # {} PROVE FALSE
  OBVIOUS
<1>2. PICK x \in Nat \ S : \A y \in Nat \ S : <<y, x>> \notin OpToRel(<, Nat)
  BY <1>1, WFMin, NatLessThanWellFounded
<1>3. x # 0 /\ x - 1 \in Nat
  OBVIOUS
<1>4. x - 1 \notin S
  BY <1>3
<1>5. <<x - 1, x>> \in OpToRel(<, Nat)
  BY <1>3 DEF OpToRel
<1>6. QED
  BY <1>2, <1>3, <1>4, <1>5, Zenon

(* A sequence that is not empty is one with an element appended. *)
LEMMA SeqLast ==
  ASSUME NEW C, NEW s \in Seq(C), s # <<>>
  PROVE  /\ Front(s) \in Seq(C) /\ Last(s) \in C /\ Len(s) \in Nat \ {0}
         /\ Len(Front(s)) = Len(s) - 1 /\ s = Append(Front(s), Last(s))
<1>1. Len(s) \in Nat \ {0} /\ \A k \in 1..Len(s) : s[k] \in C
  OBVIOUS
<1>2. Front(s) \in Seq(C) /\ Len(Front(s)) = Len(s) - 1
      /\ \A k \in 1..(Len(s) - 1) : Front(s)[k] = s[k]
  <2>1. \A k \in 1..(Len(s) - 1) : s[k] \in C
    BY <1>1
  <2>2. Front(s) = [k \in 1..(Len(s) - 1) |-> s[k]]
    BY <1>1 DEF Front
  <2>3. Len(s) - 1 \in Nat
    BY <1>1
  <2>4. Front(s) \in Seq(C)
    BY <2>1, <2>2, <2>3
  <2>5. Len(Front(s)) = Len(s) - 1
    BY <2>2, <2>3, <2>4
  <2>6. QED
    BY <2>2, <2>4, <2>5
<1>3. Last(s) \in C
  BY <1>1 DEF Last
<1>4. /\ Append(Front(s), Last(s)) \in Seq(C)
      /\ Len(Append(Front(s), Last(s))) = Len(s)
      /\ \A k \in 1..Len(s) : Append(Front(s), Last(s))[k] = IF k = Len(s) THEN Last(s) ELSE Front(s)[k]
  BY <1>1, <1>2, <1>3
<1>5. \A k \in 1..Len(s) : Append(Front(s), Last(s))[k] = s[k]
  BY <1>1, <1>2, <1>4 DEF Last
<1>6. s = Append(Front(s), Last(s))
  BY <1>4, <1>5, SeqEqual
<1>7. QED
  BY <1>1, <1>2, <1>3, <1>6

(* A set with <<>>, and with each sequence those longer by an element, has *)
(* every sequence.                                                         *)
LEMMA SeqSetInduction ==
  ASSUME NEW C, NEW S, <<>> \in S, \A s \in Seq(C), c \in C : s \in S => Append(s, c) \in S
  PROVE  Seq(C) \subseteq S
<1> DEFINE N == {n \in Nat : \A s \in Seq(C) : Len(s) = n => s \in S}
<1>1. 0 \in N
  <2>1. \A s \in Seq(C) : Len(s) = 0 => s = <<>>
    OBVIOUS
  <2>2. QED
    BY <2>1
<1>2. ASSUME NEW n \in Nat, n \in N PROVE n + 1 \in N
  <2>1. ASSUME NEW s \in Seq(C), Len(s) = n + 1 PROVE s \in S
    <3>1. s # <<>>
      BY <2>1
    <3>2. /\ Front(s) \in Seq(C) /\ Last(s) \in C /\ Len(Front(s)) = n /\ s = Append(Front(s), Last(s))
      BY <2>1, <3>1, SeqLast
    <3>3. Front(s) \in S
      BY <1>2, <3>2
    <3>4. QED
      BY <3>2, <3>3
  <2>2. QED
    BY <2>1
<1>3. Nat \subseteq N
  <2> HIDE DEF N
  <2>1. QED
    BY <1>1, <1>2, NatSetInduction
<1>4. ASSUME NEW s \in Seq(C) PROVE s \in S
  BY <1>3
<1>5. QED
  BY <1>4

-----------------------------------------------------------------------------
(* The recursive functions of Controller step through a sequence from the  *)
(* left: each is a fold.                                                   *)

StepOf(S, C) == [S \X C -> S]

OneStep(step, a, c) == step[<<a, c>>]

Folds(f, step, base, s) ==
    f = [k \in 0..Len(s) |-> IF k = 0 THEN base ELSE step[<<f[k - 1], s[k]>>]]

Fold(step, base, s) == (CHOOSE f : Folds(f, step, base, s))[Len(s)]

(* There is a function that takes the steps of a fold. *)
LEMMA FoldExists ==
  ASSUME NEW S, NEW C, NEW base \in S, NEW step \in StepOf(S, C), NEW s \in Seq(C)
  PROVE  \E f \in [0..Len(s) -> S] : Folds(f, step, base, s)
<1> DEFINE Is(f, n) == f = [k \in 0..n |-> IF k = 0 THEN base ELSE step[<<f[k - 1], s[k]>>]]
           N == {n \in Nat : n <= Len(s) => \E f \in [0..n -> S] : Is(f, n)}
<1>1. 0 \in N
  <2> DEFINE f == [k \in 0..0 |-> base]
  <2>1. f \in [0..0 -> S] /\ Is(f, 0)
    OBVIOUS
  <2>2. QED
    BY <2>1
<1>2. ASSUME NEW n \in Nat, n \in N PROVE n + 1 \in N
  <2>1. SUFFICES ASSUME n + 1 <= Len(s) PROVE \E f \in [0..(n + 1) -> S] : Is(f, n + 1)
    OBVIOUS
  <2>2. PICK f \in [0..n -> S] : Is(f, n)
    BY <1>2, <2>1
  <2> DEFINE g == [k \in 0..(n + 1) |-> IF k = n + 1 THEN step[<<f[n], s[n + 1]>>] ELSE f[k]]
  <2>3. s[n + 1] \in C /\ f[n] \in S
    BY <2>1, <2>2
  <2>4. step[<<f[n], s[n + 1]>>] \in S
    BY <2>3 DEF StepOf
  <2>5. g \in [0..(n + 1) -> S]
    BY <2>4
  <2>6. ASSUME NEW k \in 0..(n + 1)
        PROVE  g[k] = IF k = 0 THEN base ELSE step[<<g[k - 1], s[k]>>]
    <3>1. CASE k = n + 1
      <4>1. k # 0 /\ k - 1 = n /\ g[n] = f[n]
        BY <3>1
      <4>2. g[k] = step[<<f[n], s[n + 1]>>]
        BY <3>1
      <4>3. QED
        BY <3>1, <4>1, <4>2
    <3>2. CASE k # n + 1
      <4>1. k \in 0..n /\ g[k] = f[k] /\ (k # 0 => k - 1 \in 0..n /\ g[k - 1] = f[k - 1])
        BY <3>2
      <4>2. f[k] = IF k = 0 THEN base ELSE step[<<f[k - 1], s[k]>>]
        BY <2>2, <4>1
      <4>3. QED
        BY <4>1, <4>2
    <3>3. QED
      BY <3>1, <3>2
  <2>7. Is(g, n + 1)
    BY <2>5, <2>6
  <2>8. QED
    BY <2>5, <2>7
<1>3. Nat \subseteq N
  <2> HIDE DEF N
  <2>1. QED
    BY <1>1, <1>2, NatSetInduction
<1>4. Len(s) \in N
  <2> HIDE DEF N
  <2>1. QED
    BY <1>3, LenProperties
<1>5. QED
  BY <1>4 DEF Folds

(* What takes the steps of a fold, as far as it stays in their set. *)
Takes(g, S, step, base, s) ==
    /\ g[0] = base
    /\ \A k \in 1..Len(s) : g[k - 1] \in S => g[k] = step[<<g[k - 1], s[k]>>]

(* A fold takes its steps. *)
LEMMA FoldChosen ==
  ASSUME NEW S, NEW C, NEW base \in S, NEW step \in StepOf(S, C), NEW s \in Seq(C)
  PROVE  \E f : Fold(step, base, s) = f[Len(s)] /\ Takes(f, S, step, base, s)
<1> DEFINE f == CHOOSE f : Folds(f, step, base, s)
<1>1. Folds(f, step, base, s)
  BY FoldExists, Zenon
<1>2. Fold(step, base, s) = f[Len(s)]
  BY Zenon DEF Fold
<1> HIDE DEF f
<1>3. \A k \in 0..Len(s) : f[k] = IF k = 0 THEN base ELSE step[<<f[k - 1], s[k]>>]
  BY <1>1 DEF Folds
<1>4. f[0] = base
  <2>1. 0 \in 0..Len(s)
    BY LenProperties
  <2>2. QED
    BY <1>3, <2>1
<1>5. \A k \in 1..Len(s) : f[k] = step[<<f[k - 1], s[k]>>]
  BY <1>3
<1>6. Takes(f, S, step, base, s)
  BY <1>4, <1>5 DEF Takes
<1>7. QED
  BY <1>2, <1>6, Zenon

(* Whatever takes the steps of a fold is the fold, and stays in their set. *)
LEMMA FoldIs ==
  ASSUME NEW S, NEW C, NEW base \in S, NEW step \in StepOf(S, C), NEW s \in Seq(C),
         NEW g, Takes(g, S, step, base, s)
  PROVE  g[Len(s)] = Fold(step, base, s) /\ Fold(step, base, s) \in S
<1>1. PICK f : Fold(step, base, s) = f[Len(s)] /\ Takes(f, S, step, base, s)
  BY FoldChosen, Zenon
<1> DEFINE N == {n \in Nat : n <= Len(s) => g[n] \in S /\ f[n] = g[n]}
<1>2. 0 \in N
  BY <1>1 DEF Takes
<1>3. ASSUME NEW n \in Nat, n \in N PROVE n + 1 \in N
  <2>1. SUFFICES ASSUME n + 1 <= Len(s) PROVE g[n + 1] \in S /\ f[n + 1] = g[n + 1]
    OBVIOUS
  <2>2. g[n] \in S /\ f[n] = g[n]
    BY <1>3, <2>1
  <2>3. n + 1 \in 1..Len(s) /\ (n + 1) - 1 = n /\ s[n + 1] \in C
    BY <2>1
  <2>4. g[n + 1] = step[<<g[n], s[n + 1]>>] /\ f[n + 1] = step[<<f[n], s[n + 1]>>]
    BY <1>1, <2>2, <2>3 DEF Takes
  <2>5. QED
    BY <2>2, <2>3, <2>4 DEF StepOf
<1>4. Len(s) \in N
  <2> HIDE DEF N
  <2>1. QED
    BY <1>2, <1>3, NatSetInduction, LenProperties
<1>5. QED
  BY <1>1, <1>4

(* A fold stays in the set of its steps. *)
LEMMA FoldIn ==
  ASSUME NEW S, NEW C, NEW base \in S, NEW step \in StepOf(S, C), NEW s \in Seq(C)
  PROVE  Fold(step, base, s) \in S
BY FoldChosen, FoldIs, Zenon

(* A fold over nothing gives its base. *)
LEMMA FoldEmpty ==
  ASSUME NEW S, NEW C, NEW base \in S, NEW step \in StepOf(S, C)
  PROVE  Fold(step, base, <<>>) = base
<1>1. <<>> \in Seq(C) /\ Len(<<>>) = 0
  OBVIOUS
<1>2. PICK f : Fold(step, base, <<>>) = f[Len(<<>>)] /\ Takes(f, S, step, base, <<>>)
  BY <1>1, FoldChosen, Zenon
<1>3. QED
  BY <1>1, <1>2 DEF Takes

(* A fold over one more element takes one more step. *)
LEMMA FoldAppend ==
  ASSUME NEW S, NEW C, NEW base \in S, NEW step \in StepOf(S, C), NEW s \in Seq(C), NEW c \in C
  PROVE  Fold(step, base, Append(s, c)) = OneStep(step, Fold(step, base, s), c)
<1> DEFINE t == Append(s, c)
<1>1. /\ t \in Seq(C) /\ Len(t) = Len(s) + 1 /\ t[Len(t)] = c /\ Len(s) \in Nat
      /\ \A k \in 1..Len(s) : t[k] = s[k]
  OBVIOUS
<1> HIDE DEF t
<1>2. PICK f : Fold(step, base, t) = f[Len(t)] /\ Takes(f, S, step, base, t)
  BY <1>1, FoldChosen, Zenon
<1>3. Takes(f, S, step, base, s)
  BY <1>1, <1>2 DEF Takes
<1>4. f[Len(s)] = Fold(step, base, s) /\ Fold(step, base, s) \in S
  BY <1>3, FoldIs, Zenon
<1>5. f[Len(t)] = step[<<f[Len(s)], c>>]
  BY <1>1, <1>2, <1>4 DEF Takes
<1>6. QED
  BY <1>2, <1>4, <1>5 DEF t, OneStep

(* A fold keeps what each of its steps keeps. *)
LEMMA FoldKeeps ==
  ASSUME NEW S, NEW C, NEW base, NEW step \in StepOf(S, C),
         NEW I \in SUBSET S, NEW D \in SUBSET C, base \in I,
         \A a \in I, c \in D : OneStep(step, a, c) \in I,
         NEW s \in Seq(D)
  PROVE  Fold(step, base, s) \in I
<1> DEFINE K == {t \in Seq(D) : Fold(step, base, t) \in I}
<1>1. <<>> \in K
  <2>1. base \in S /\ <<>> \in Seq(D)
    OBVIOUS
  <2>2. Fold(step, base, <<>>) = base
    BY <2>1, FoldEmpty, Zenon
  <2>3. QED
    BY <2>1, <2>2
<1>2. ASSUME NEW t \in Seq(D), NEW c \in D, t \in K PROVE Append(t, c) \in K
  <2>1. t \in Seq(C) /\ c \in C /\ Append(t, c) \in Seq(D) /\ base \in S
    OBVIOUS
  <2>2. Fold(step, base, Append(t, c)) = OneStep(step, Fold(step, base, t), c)
    BY <2>1, FoldAppend, SMT
  <2>3. QED
    BY <1>2, <2>1, <2>2
<1>3. QED
  <2> HIDE DEF K
  <2>1. s \in K
    BY <1>1, <1>2, SeqSetInduction, Zenon
  <2>2. QED
    BY <2>1 DEF K

(* A fold over two sequences goes on with what it has after the first. *)
LEMMA FoldConcat ==
  ASSUME NEW S, NEW C, NEW base \in S, NEW step \in StepOf(S, C), NEW a \in Seq(C), NEW b \in Seq(C)
  PROVE  Fold(step, base, a \o b) = Fold(step, Fold(step, base, a), b)
<1> DEFINE from == Fold(step, base, a)
           K == {t \in Seq(C) : Fold(step, base, a \o t) = Fold(step, from, t)}
<1>1. from \in S
  BY FoldIn, Zenon
<1> HIDE DEF from
<1>2. <<>> \in K
  <2>1. <<>> \in Seq(C) /\ a \o <<>> = a
    OBVIOUS
  <2>2. Fold(step, from, <<>>) = from
    BY <1>1, FoldEmpty, Zenon
  <2>3. QED
    BY <2>1, <2>2 DEF from
<1>3. ASSUME NEW t \in Seq(C), NEW c \in C, t \in K PROVE Append(t, c) \in K
  <2>1. a \o Append(t, c) = Append(a \o t, c) /\ a \o t \in Seq(C) /\ Append(t, c) \in Seq(C)
    OBVIOUS
  <2>2. Fold(step, base, Append(a \o t, c)) = OneStep(step, Fold(step, base, a \o t), c)
    <3> DEFINE u == a \o t
    <3>1. u \in Seq(C)
      BY <2>1
    <3> HIDE DEF u
    <3>2. Fold(step, base, Append(u, c)) = OneStep(step, Fold(step, base, u), c)
      BY <3>1, FoldAppend, SMT
    <3>3. QED
      BY <3>2 DEF u
  <2>3. Fold(step, from, Append(t, c)) = OneStep(step, Fold(step, from, t), c)
    BY <1>1, FoldAppend, SMT
  <2>4. QED
    BY <1>3, <2>1, <2>2, <2>3
<1>4. QED
  <2> HIDE DEF K
  <2>1. b \in K
    BY <1>2, <1>3, SeqSetInduction, Zenon
  <2>2. QED
    BY <2>1 DEF K, from

(* The equations of folds as predicates, which is how they are cited. *)
GoesOn(step, base, s, c) == Fold(step, base, Append(s, c)) = OneStep(step, Fold(step, base, s), c)

GoesOnWith(step, base, a, b) == Fold(step, base, a \o b) = Fold(step, Fold(step, base, a), b)

(* FoldAppend, as a predicate. *)
LEMMA FoldGoesOn ==
  ASSUME NEW S, NEW C, NEW base \in S, NEW step \in StepOf(S, C), NEW s \in Seq(C), NEW c \in C
  PROVE  GoesOn(step, base, s, c)
BY FoldAppend, SMT DEF GoesOn

(* FoldConcat, as a predicate. *)
LEMMA FoldGoesOnWith ==
  ASSUME NEW S, NEW C, NEW base \in S, NEW step \in StepOf(S, C), NEW a \in Seq(C), NEW b \in Seq(C)
  PROVE  GoesOnWith(step, base, a, b)
BY FoldConcat, SMT DEF GoesOnWith

-----------------------------------------------------------------------------
(* The segments of a path *)

Text == Seq(Characters)

Paths == Seq(Text) \ {<<>>}

SplitStep ==
    [p \in Paths \X Characters |->
        IF p[2] = "/" THEN Append(p[1], <<>>)
        ELSE Append(Front(p[1]), Append(Last(p[1]), p[2]))]

(* A step of Split leaves a path. *)
LEMMA SplitSteps == SplitStep \in StepOf(Paths, Characters) /\ << <<>> >> \in Paths
<1>1. ASSUME NEW a \in Paths, NEW c \in Characters
      PROVE  (IF c = "/" THEN Append(a, <<>>) ELSE Append(Front(a), Append(Last(a), c))) \in Paths
  <2>1. a \in Seq(Text) /\ a # <<>> /\ <<>> \in Text
    BY DEF Paths, Text
  <2>2. Front(a) \in Seq(Text) /\ Last(a) \in Text
    BY <2>1, SeqLast, Zenon
  <2>3. Append(Last(a), c) \in Text
    BY <2>2 DEF Text
  <2>4. QED
    BY <2>1, <2>2, <2>3 DEF Paths
<1>2. \A p \in Paths \X Characters : SplitStep[p] \in Paths
  BY <1>1 DEF SplitStep
<1>3. << <<>> >> \in Paths
  BY DEF Paths, Text
<1>4. QED
  BY <1>2, <1>3 DEF SplitStep, StepOf

(* Split goes through its text from the left. *)
LEMMA SplitFolds ==
  ASSUME NEW s \in Text
  PROVE  Split(s) = Fold(SplitStep, << <<>> >>, s) /\ Split(s) \in Paths
<1> DEFINE Is(g) == g = [k \in 0..Len(s) |->
                           IF k = 0 THEN << <<>> >>
                           ELSE LET done == g[k - 1]
                                IN  IF s[k] = "/" THEN Append(done, <<>>)
                                    ELSE Append(Front(done), Append(Last(done), s[k]))]
           segments == CHOOSE g : Is(g)
<1>1. Split(s) = segments[Len(s)]
  BY Zenon DEF Split
<1>2. s \in Seq(Characters) /\ \A k \in 1..Len(s) : s[k] \in Characters
  BY DEF Text
<1>3. PICK f \in [0..Len(s) -> Paths] : Folds(f, SplitStep, << <<>> >>, s)
  BY <1>2, SplitSteps, FoldExists, Zenon
<1>4. Is(f)
  <2>1. ASSUME NEW k \in 0..Len(s), k # 0
        PROVE  SplitStep[<<f[k - 1], s[k]>>] = LET done == f[k - 1]
                                IN  IF s[k] = "/" THEN Append(done, <<>>)
                                    ELSE Append(Front(done), Append(Last(done), s[k]))
    <3>1. f[k - 1] \in Paths /\ s[k] \in Characters
      BY <1>2, <1>3, <2>1
    <3>2. QED
      BY <3>1 DEF SplitStep
  <2>2. QED
    BY <1>3, <2>1 DEF Folds
<1>5. Is(segments)
  BY <1>4, Zenon
<1> HIDE DEF segments
<1>6. Takes(segments, Paths, SplitStep, << <<>> >>, s)
  <2>1. segments[0] = << <<>> >>
    BY <1>2, <1>5
  <2>2. ASSUME NEW k \in 1..Len(s), segments[k - 1] \in Paths
        PROVE  segments[k] = SplitStep[<<segments[k - 1], s[k]>>]
    <3>1. k \in 0..Len(s) /\ k # 0 /\ s[k] \in Characters
      BY <1>2
    <3>2. segments[k] = LET done == segments[k - 1]
                        IN  IF s[k] = "/" THEN Append(done, <<>>)
                            ELSE Append(Front(done), Append(Last(done), s[k]))
      BY <1>5, <3>1
    <3>3. QED
      BY <2>2, <3>1, <3>2 DEF SplitStep
  <2>3. QED
    BY <2>1, <2>2 DEF Takes
<1>7. segments[Len(s)] = Fold(SplitStep, << <<>> >>, s) /\ Fold(SplitStep, << <<>> >>, s) \in Paths
  BY <1>2, <1>6, SplitSteps, FoldIs, Zenon
<1>8. QED
  BY <1>1, <1>7, Zenon

(* What Split makes of no text, and of one more character. *)
LEMMA SplitEquations ==
  /\ Split(<<>>) = << <<>> >>
  /\ \A s \in Text, c \in Characters :
        Split(Append(s, c)) = IF c = "/" THEN Append(Split(s), <<>>)
                              ELSE Append(Front(Split(s)), Append(Last(Split(s)), c))
<1>1. <<>> \in Text
  BY DEF Text
<1>2. Split(<<>>) = << <<>> >>
  BY <1>1, SplitFolds, SplitSteps, FoldEmpty, Zenon
<1>3. ASSUME NEW s \in Text, NEW c \in Characters
      PROVE  Split(Append(s, c)) = IF c = "/" THEN Append(Split(s), <<>>)
                              ELSE Append(Front(Split(s)), Append(Last(Split(s)), c))
  <2>1. Append(s, c) \in Text /\ s \in Seq(Characters)
    BY DEF Text
  <2>2. Split(Append(s, c)) = Fold(SplitStep, << <<>> >>, Append(s, c))
    BY <2>1, SplitFolds, Zenon
  <2>3. Split(s) = Fold(SplitStep, << <<>> >>, s) /\ Split(s) \in Paths
    BY SplitFolds, Zenon
  <2>4. Split(Append(s, c)) = OneStep(SplitStep, Split(s), c)
    <3> DEFINE base == << <<>> >>
    <3>1. base \in Paths
      BY SplitSteps
    <3> HIDE DEF base
    <3>2. Fold(SplitStep, base, Append(s, c)) = OneStep(SplitStep, Fold(SplitStep, base, s), c)
      BY <2>1, <3>1, SplitSteps, FoldAppend, SMT
    <3>3. QED
      BY <2>2, <2>3, <3>2, Zenon DEF base
  <2>5. QED
    BY <2>3, <2>4 DEF OneStep, SplitStep
<1>4. QED
  BY <1>2, <1>3

-----------------------------------------------------------------------------
(* The directory that the segments lead to *)

(* What is left of a path above its last segment. *)
LEMMA FrontIn ==
  ASSUME NEW C, NEW a \in Seq(C)
  PROVE  Front(a) \in Seq(C)
<1>1. CASE a = <<>>
  BY <1>1 DEF Front
<1>2. CASE a # <<>>
  BY <1>2, SeqLast, Zenon
<1>3. QED
  BY <1>1, <1>2

DirectoryStep ==
    [p \in Seq(Text) \X Text |->
        IF p[2] \in {<<>>, <<".">>} THEN p[1]
        ELSE IF p[2] = <<".", ".">> THEN Front(p[1])
        ELSE Append(p[1], p[2])]

(* A step of Directory leaves a path. *)
LEMMA DirectorySteps == DirectoryStep \in StepOf(Seq(Text), Text) /\ <<>> \in Seq(Text)
<1>1. ASSUME NEW a \in Seq(Text), NEW c \in Text
      PROVE  (IF c \in {<<>>, <<".">>} THEN a
              ELSE IF c = <<".", ".">> THEN Front(a) ELSE Append(a, c)) \in Seq(Text)
  <2>1. Front(a) \in Seq(Text)
    BY FrontIn, Zenon
  <2>2. Append(a, c) \in Seq(Text)
    OBVIOUS
  <2>3. QED
    BY <2>1, <2>2
<1>2. \A p \in Seq(Text) \X Text : DirectoryStep[p] \in Seq(Text)
  BY <1>1 DEF DirectoryStep
<1>3. QED
  BY <1>2 DEF DirectoryStep, StepOf

(* Directory goes along its segments from the left. *)
LEMMA DirectoryFolds ==
  ASSUME NEW s \in Seq(Text)
  PROVE  Directory(s) = Fold(DirectoryStep, <<>>, s) /\ Directory(s) \in Seq(Text)
<1> DEFINE Is(g) == g = [k \in 0..Len(s) |->
                           IF k = 0 THEN <<>>
                           ELSE IF s[k] \in {<<>>, <<".">>} THEN g[k - 1]
                           ELSE IF s[k] = <<".", ".">> THEN Front(g[k - 1])
                           ELSE Append(g[k - 1], s[k])]
           path == CHOOSE g : Is(g)
<1>1. Directory(s) = path[Len(s)]
  BY Zenon DEF Directory
<1>2. \A k \in 1..Len(s) : s[k] \in Text
  OBVIOUS
<1>3. PICK f \in [0..Len(s) -> Seq(Text)] : Folds(f, DirectoryStep, <<>>, s)
  BY DirectorySteps, FoldExists, Zenon
<1>4. Is(f)
  <2>1. ASSUME NEW k \in 0..Len(s), k # 0
        PROVE  DirectoryStep[<<f[k - 1], s[k]>>] =
                           IF s[k] \in {<<>>, <<".">>} THEN f[k - 1]
                           ELSE IF s[k] = <<".", ".">> THEN Front(f[k - 1])
                           ELSE Append(f[k - 1], s[k])
    <3>1. f[k - 1] \in Seq(Text) /\ s[k] \in Text
      BY <1>2, <1>3, <2>1
    <3>2. QED
      BY <3>1 DEF DirectoryStep
  <2>2. QED
    BY <1>3, <2>1 DEF Folds
<1>5. Is(path)
  BY <1>4, Zenon
<1> HIDE DEF path
<1>6. Takes(path, Seq(Text), DirectoryStep, <<>>, s)
  <2>1. path[0] = <<>>
    BY <1>2, <1>5
  <2>2. ASSUME NEW k \in 1..Len(s), path[k - 1] \in Seq(Text)
        PROVE  path[k] = DirectoryStep[<<path[k - 1], s[k]>>]
    <3>1. k \in 0..Len(s) /\ k # 0 /\ s[k] \in Text
      BY <1>2
    <3>2. path[k] = IF s[k] \in {<<>>, <<".">>} THEN path[k - 1]
                    ELSE IF s[k] = <<".", ".">> THEN Front(path[k - 1])
                    ELSE Append(path[k - 1], s[k])
      BY <1>5, <3>1
    <3>3. QED
      BY <2>2, <3>1, <3>2 DEF DirectoryStep
  <2>3. QED
    BY <2>1, <2>2 DEF Takes
<1>7. path[Len(s)] = Fold(DirectoryStep, <<>>, s) /\ Fold(DirectoryStep, <<>>, s) \in Seq(Text)
  BY <1>6, DirectorySteps, FoldIs, Zenon
<1>8. QED
  BY <1>1, <1>7, Zenon

(* What Directory makes of no segments, and of one more. *)
LEMMA DirectoryEquations ==
  /\ Directory(<<>>) = <<>>
  /\ \A s \in Seq(Text), c \in Text :
        Directory(Append(s, c)) = IF c \in {<<>>, <<".">>} THEN Directory(s)
                                  ELSE IF c = <<".", ".">> THEN Front(Directory(s))
                                  ELSE Append(Directory(s), c)
<1>1. Directory(<<>>) = <<>>
  BY DirectoryFolds, DirectorySteps, FoldEmpty, Zenon
<1>2. ASSUME NEW s \in Seq(Text), NEW c \in Text
      PROVE  Directory(Append(s, c)) = IF c \in {<<>>, <<".">>} THEN Directory(s)
                                  ELSE IF c = <<".", ".">> THEN Front(Directory(s))
                                  ELSE Append(Directory(s), c)
  <2>1. Append(s, c) \in Seq(Text)
    OBVIOUS
  <2>2. Directory(Append(s, c)) = Fold(DirectoryStep, <<>>, Append(s, c))
    BY <2>1, DirectoryFolds, Zenon
  <2>3. Directory(s) = Fold(DirectoryStep, <<>>, s) /\ Directory(s) \in Seq(Text)
    BY DirectoryFolds, Zenon
  <2>4. Directory(Append(s, c)) = OneStep(DirectoryStep, Directory(s), c)
    <3> DEFINE base == <<>>
               S == Seq(Text)
    <3>1. base \in S /\ DirectoryStep \in StepOf(S, Text)
      BY DirectorySteps, Zenon
    <3> HIDE DEF base, S
    <3>2. Fold(DirectoryStep, base, Append(s, c)) = OneStep(DirectoryStep, Fold(DirectoryStep, base, s), c)
      BY <3>1, FoldAppend, SMT
    <3>3. QED
      BY <2>2, <2>3, <3>2, Zenon DEF base
  <2>5. QED
    BY <2>3, <2>4 DEF OneStep, DirectoryStep
<1>3. QED
  BY <1>1, <1>2

-----------------------------------------------------------------------------
(* Replacing placeholders *)

Put(c, old, new) == IF c = old THEN new ELSE <<c>>

ReplaceStep(old, new) == [p \in Text \X Characters |-> p[1] \o Put(p[2], old, new)]

(* A step of Substitute leaves text. *)
LEMMA ReplaceSteps ==
  ASSUME NEW old, NEW new \in Text
  PROVE  ReplaceStep(old, new) \in StepOf(Text, Characters) /\ <<>> \in Text
<1>1. ASSUME NEW a \in Text, NEW c \in Characters
      PROVE  a \o Put(c, old, new) \in Text
  <2>1. <<c>> \in Text
    BY DEF Text
  <2>2. QED
    BY <2>1 DEF Text, Put
<1>2. \A p \in Text \X Characters : ReplaceStep(old, new)[p] \in Text
  BY <1>1 DEF ReplaceStep
<1>3. <<>> \in Text
  BY DEF Text
<1>4. QED
  BY <1>2, <1>3 DEF ReplaceStep, StepOf

(* Substitute goes through its text from the left. *)
LEMMA SubstituteFolds ==
  ASSUME NEW old, NEW new \in Text, NEW s \in Text
  PROVE  Substitute(s, old, new) = Fold(ReplaceStep(old, new), <<>>, s)
         /\ Substitute(s, old, new) \in Text
<1> DEFINE Is(g) == g = [k \in 0..Len(s) |->
                           IF k = 0 THEN <<>>
                           ELSE g[k - 1] \o Put(s[k], old, new)]
           result == CHOOSE g : Is(g)
           step == ReplaceStep(old, new)
<1>1. Substitute(s, old, new) = result[Len(s)]
  BY Zenon DEF Substitute, Put
<1>2. s \in Seq(Characters) /\ \A k \in 1..Len(s) : s[k] \in Characters
  BY DEF Text
<1>3. step \in StepOf(Text, Characters) /\ <<>> \in Text
  BY ReplaceSteps, Zenon
<1>4. PICK f \in [0..Len(s) -> Text] : Folds(f, step, <<>>, s)
  BY <1>2, <1>3, FoldExists, Zenon
<1>5. Is(f)
  <2>1. ASSUME NEW k \in 0..Len(s), k # 0
        PROVE  step[<<f[k - 1], s[k]>>] = f[k - 1] \o Put(s[k], old, new)
    <3>1. f[k - 1] \in Text /\ s[k] \in Characters
      BY <1>2, <1>4, <2>1
    <3>2. QED
      BY <3>1 DEF ReplaceStep
  <2>2. QED
    BY <1>4, <2>1 DEF Folds
<1>6. Is(result)
  BY <1>5, Zenon
<1> HIDE DEF result
<1>7. Takes(result, Text, step, <<>>, s)
  <2>1. result[0] = <<>>
    BY <1>2, <1>6
  <2>2. ASSUME NEW k \in 1..Len(s), result[k - 1] \in Text
        PROVE  result[k] = step[<<result[k - 1], s[k]>>]
    <3>1. k \in 0..Len(s) /\ k # 0 /\ s[k] \in Characters
      BY <1>2
    <3>2. result[k] = result[k - 1] \o Put(s[k], old, new)
      BY <1>6, <3>1
    <3>3. QED
      BY <2>2, <3>1, <3>2 DEF ReplaceStep
  <2>3. QED
    BY <2>1, <2>2 DEF Takes
<1> HIDE DEF step
<1>8. result[Len(s)] = Fold(step, <<>>, s) /\ Fold(step, <<>>, s) \in Text
  BY <1>2, <1>3, <1>7, FoldIs, Zenon
<1>9. QED
  BY <1>1, <1>8, Zenon DEF step

(* What Substitute makes of no text, and of one more character. *)
LEMMA SubstituteEquations ==
  ASSUME NEW old, NEW new \in Text
  PROVE  /\ Substitute(<<>>, old, new) = <<>>
         /\ \A s \in Text, c \in Characters :
               Substitute(Append(s, c), old, new)
                 = Substitute(s, old, new) \o Put(c, old, new)
<1> DEFINE step == ReplaceStep(old, new)
           base == <<>>
<1>1. step \in StepOf(Text, Characters) /\ base \in Text
  BY ReplaceSteps, Zenon
<1>2. \A s \in Text : Substitute(s, old, new) = Fold(step, base, s) /\ Substitute(s, old, new) \in Text
  BY SubstituteFolds, Zenon
<1>3. \A s \in Text, c \in Characters : Append(s, c) \in Text /\ s \in Seq(Characters)
  BY DEF Text
<1>4. \A a \in Text, c \in Characters : OneStep(step, a, c) = a \o Put(c, old, new)
  BY DEF OneStep, ReplaceStep
<1> HIDE DEF step, base
<1>5. Fold(step, base, <<>>) = base
  BY <1>1, FoldEmpty, Zenon
<1>6. \A s \in Seq(Characters), c \in Characters : Fold(step, base, Append(s, c)) = OneStep(step, Fold(step, base, s), c)
  BY <1>1, FoldAppend, SMT
<1>7. Substitute(<<>>, old, new) = <<>>
  BY <1>1, <1>2, <1>5, Zenon DEF base
<1>8. ASSUME NEW s \in Text, NEW c \in Characters
      PROVE  Substitute(Append(s, c), old, new)
               = Substitute(s, old, new) \o Put(c, old, new)
  <2>1. Substitute(Append(s, c), old, new) = OneStep(step, Substitute(s, old, new), c)
    BY <1>2, <1>3, <1>6, Zenon
  <2>2. QED
    BY <1>2, <1>4, <2>1, Zenon
<1>9. QED
  BY <1>7, <1>8

(* The value of a placeholder. *)
ValueOf(pvc, r) ==
    CASE r = "${.PVC.namespace}" -> pvc.namespace
      [] r = "${.PVC.name}"      -> pvc.name
      [] OTHER                   -> pvc.annotation

(* The value of a placeholder is text. *)
LEMMA Values ==
  ASSUME NEW pvc \in PVCs, NEW r
  PROVE  ValueOf(pvc, r) \in Text
<1>1. {pvc.namespace, pvc.name, pvc.annotation} \subseteq Text
  BY TextAssumption, Zenon DEF Text
<1>2. QED
  BY <1>1 DEF ValueOf

ParseStep(pvc) ==
    [p \in Text \X Characters |->
        IF p[2] \in Placeholders THEN Substitute(p[1], p[2], ValueOf(pvc, p[2])) ELSE p[1]]

(* A step of stringParser leaves text. *)
LEMMA ParseSteps ==
  ASSUME NEW pvc \in PVCs
  PROVE  ParseStep(pvc) \in StepOf(Text, Characters)
<1>1. ASSUME NEW a \in Text, NEW c \in Characters
      PROVE  (IF c \in Placeholders THEN Substitute(a, c, ValueOf(pvc, c)) ELSE a) \in Text
  BY Values, SubstituteFolds, Zenon
<1>2. \A p \in Text \X Characters : ParseStep(pvc)[p] \in Text
  BY <1>1 DEF ParseStep
<1>3. QED
  BY <1>2 DEF ParseStep, StepOf

(* stringParser goes through the placeholders of the pattern from the left. *)
LEMMA ParserFolds ==
  ASSUME NEW pvc \in PVCs, NEW s \in Text
  PROVE  stringParser(pvc, s) = Fold(ParseStep(pvc), s, s) /\ stringParser(pvc, s) \in Text
<1> DEFINE Is(g) == g = [k \in 0..Len(s) |->
                           IF k = 0 THEN s
                           ELSE IF s[k] \in Placeholders
                                THEN Substitute(g[k - 1], s[k], ValueOf(pvc, s[k]))
                                ELSE g[k - 1]]
           parsed == CHOOSE g : Is(g)
           step == ParseStep(pvc)
<1>1. stringParser(pvc, s) = parsed[Len(s)]
  BY Zenon DEF stringParser, ValueOf
<1>2. s \in Seq(Characters) /\ \A k \in 1..Len(s) : s[k] \in Characters
  BY DEF Text
<1>3. step \in StepOf(Text, Characters)
  BY ParseSteps, Zenon
<1>4. PICK f \in [0..Len(s) -> Text] : Folds(f, step, s, s)
  BY <1>2, <1>3, FoldExists, Zenon
<1>5. Is(f)
  <2>1. ASSUME NEW k \in 0..Len(s), k # 0
        PROVE  step[<<f[k - 1], s[k]>>] = IF s[k] \in Placeholders
                                THEN Substitute(f[k - 1], s[k], ValueOf(pvc, s[k]))
                                ELSE f[k - 1]
    <3>1. f[k - 1] \in Text /\ s[k] \in Characters
      BY <1>2, <1>4, <2>1
    <3>2. QED
      BY <3>1 DEF ParseStep
  <2>2. QED
    BY <1>4, <2>1 DEF Folds
<1>6. Is(parsed)
  BY <1>5, Zenon
<1> HIDE DEF parsed
<1>7. Takes(parsed, Text, step, s, s)
  <2>1. parsed[0] = s
    BY <1>2, <1>6
  <2>2. ASSUME NEW k \in 1..Len(s), parsed[k - 1] \in Text
        PROVE  parsed[k] = step[<<parsed[k - 1], s[k]>>]
    <3>1. k \in 0..Len(s) /\ k # 0 /\ s[k] \in Characters
      BY <1>2
    <3>2. parsed[k] = IF s[k] \in Placeholders
                      THEN Substitute(parsed[k - 1], s[k], ValueOf(pvc, s[k]))
                      ELSE parsed[k - 1]
      BY <1>6, <3>1
    <3>3. QED
      BY <2>2, <3>1, <3>2 DEF ParseStep
  <2>3. QED
    BY <2>1, <2>2 DEF Takes
<1> HIDE DEF step
<1>8. parsed[Len(s)] = Fold(step, s, s) /\ Fold(step, s, s) \in Text
  BY <1>2, <1>3, <1>7, FoldIs, Zenon
<1>9. QED
  BY <1>1, <1>8, Zenon DEF step

-----------------------------------------------------------------------------
(* Paths and text in parts *)

(* A sequence with an element appended, taken apart. *)
LEMMA FrontAppend ==
  ASSUME NEW C, NEW s \in Seq(C), NEW c \in C
  PROVE  Front(Append(s, c)) = s /\ Last(Append(s, c)) = c
<1>1. /\ Append(s, c) \in Seq(C) /\ Append(s, c) # <<>> /\ Len(Append(s, c)) = Len(s) + 1
      /\ Append(s, c)[Len(s) + 1] = c /\ \A k \in 1..Len(s) : Append(s, c)[k] = s[k]
  OBVIOUS
<1>2. Last(Append(s, c)) = c
  BY <1>1 DEF Last
<1>3. Front(Append(s, c)) = [k \in 1..Len(s) |-> s[k]]
  BY <1>1 DEF Front
<1>4. QED
  BY <1>2, <1>3

(* A segment is appended to the second of two paths. *)
LEMMA ConcatAppend ==
  ASSUME NEW x \in Seq(Text), NEW y \in Seq(Text), NEW c \in Text
  PROVE  Append(x \o y, c) = x \o Append(y, c)
OBVIOUS

(* The last element of two sequences is that of the second. *)
LEMMA ConcatLast ==
  ASSUME NEW C, NEW x \in Seq(C), NEW y \in Seq(C), y # <<>>
  PROVE  Front(x \o y) = x \o Front(y) /\ Last(x \o y) = Last(y)
<1>1. Front(y) \in Seq(C) /\ Last(y) \in C /\ y = Append(Front(y), Last(y))
  BY SeqLast, Zenon
<1>2. ASSUME NEW f \in Seq(C), NEW c \in C
      PROVE  x \o f \in Seq(C) /\ x \o Append(f, c) = Append(x \o f, c)
  OBVIOUS
<1>3. x \o Front(y) \in Seq(C) /\ x \o y = Append(x \o Front(y), Last(y))
  BY <1>1, <1>2, Zenon
<1> DEFINE w == x \o Front(y)
           l == Last(y)
<1>4. w \in Seq(C) /\ l \in C /\ x \o y = Append(w, l)
  BY <1>1, <1>3, Zenon
<1> HIDE DEF w, l
<1>5. Front(x \o y) = w /\ Last(x \o y) = l
  BY <1>4, FrontAppend
<1>6. QED
  BY <1>5 DEF w, l

(* The segments on both sides of a slash. *)
LEMMA SplitConcat ==
  ASSUME NEW a \in Text, NEW b \in Text
  PROVE  Split(Append(a, "/") \o b) = Split(a) \o Split(b)
<1> DEFINE h == Append(a, "/")
           K == {t \in Seq(Characters) : Split(h \o t) = Split(a) \o Split(t)}
<1>1. "/" \in Characters /\ h \in Text /\ Split(a) \in Paths
  <2>1. "/" \in Characters
    BY TextAssumption
  <2>2. Split(a) \in Paths
    BY SplitFolds, Zenon
  <2>3. QED
    BY <2>1, <2>2 DEF Text
<1>2. Split(h) = Append(Split(a), <<>>)
  BY <1>1, SplitEquations
<1> HIDE DEF h
<1>3. <<>> \in K
  <2>1. Append(Split(a), <<>>) = Split(a) \o << <<>> >>
    BY <1>1 DEF Paths
  <2>2. h \o <<>> = h
    BY <1>1 DEF Text
  <2>3. Split(<<>>) = << <<>> >>
    BY SplitEquations
  <2>4. Split(h \o <<>>) = Split(a) \o Split(<<>>)
    BY <1>2, <2>1, <2>2, <2>3, Zenon
  <2>5. QED
    BY <2>4
<1>4. ASSUME NEW t \in Seq(Characters), NEW c \in Characters, t \in K PROVE Append(t, c) \in K
  <2> DEFINE u == h \o t
             A == Split(a)
             T == Split(t)
             U == Split(u)
  <2>1. u \in Text /\ h \o Append(t, c) = Append(u, c) /\ t \in Text /\ Append(t, c) \in Seq(Characters)
    BY <1>1 DEF Text
  <2>2. A \in Paths /\ T \in Paths
    BY <1>1, <2>1, SplitFolds, Zenon
  <2>3. U = A \o T
    BY <1>4
  <2>4. Split(Append(u, c)) = IF c = "/" THEN Append(U, <<>>)
                              ELSE Append(Front(U), Append(Last(U), c))
    <3> HIDE DEF u
    <3>1. QED
      BY <2>1, SplitEquations, Zenon
  <2>5. Split(Append(t, c)) = IF c = "/" THEN Append(T, <<>>)
                              ELSE Append(Front(T), Append(Last(T), c))
    BY <2>1, SplitEquations, Zenon
  <2> HIDE DEF A, T, U
  <2>6. A \in Seq(Text) /\ T \in Seq(Text) /\ T # <<>> /\ <<>> \in Text
    BY <2>2 DEF Paths, Text
  <2>7. /\ Front(U) = A \o Front(T) /\ Last(U) = Last(T)
        /\ Front(T) \in Seq(Text) /\ Last(T) \in Text
    BY <2>3, <2>6, ConcatLast, SeqLast, Zenon
  <2>8. Append(Last(T), c) \in Text
    BY <2>7 DEF Text
  <2>10. Split(Append(u, c)) = A \o Split(Append(t, c))
    <3>1. Append(U, <<>>) = A \o Append(T, <<>>)
      BY <2>3, <2>6, ConcatAppend, Zenon
    <3>2. Append(Front(U), Append(Last(U), c)) = A \o Append(Front(T), Append(Last(T), c))
      <4> DEFINE F == Front(T)
                 L == Append(Last(T), c)
      <4>1. F \in Seq(Text) /\ L \in Text /\ Front(U) = A \o F /\ Append(Last(U), c) = L
        BY <2>7, <2>8, Zenon
      <4> HIDE DEF F, L
      <4>2. Append(A \o F, L) = A \o Append(F, L)
        BY <2>6, <4>1, ConcatAppend, Zenon
      <4>3. QED
        BY <4>1, <4>2, Zenon DEF F, L
    <3>3. QED
      BY <2>4, <2>5, <3>1, <3>2, Zenon
  <2>11. QED
    BY <2>1, <2>10 DEF A
<1>5. b \in K
  <2> HIDE DEF K
  <2>1. Seq(Characters) \subseteq K
    BY <1>3, <1>4, SeqSetInduction, Zenon
  <2>2. QED
    BY <2>1 DEF Text
<1>6. QED
  BY <1>5 DEF h

(* Text without a slash is one segment. *)
LEMMA SplitPlain ==
  ASSUME NEW s \in Seq(Characters \ {"/"})
  PROVE  Split(s) = <<s>>
<1> DEFINE D == Characters \ {"/"}
           K == {t \in Seq(D) : Split(t) = <<t>>}
<1>1. <<>> \in K
  BY SplitEquations
<1>2. ASSUME NEW t \in Seq(D), NEW c \in D, t \in K PROVE Append(t, c) \in K
  <2>1. t \in Text /\ c \in Characters /\ c # "/" /\ Append(t, c) \in Seq(D)
    BY DEF Text
  <2>2. Split(Append(t, c)) = Append(Front(Split(t)), Append(Last(Split(t)), c))
    BY <2>1, SplitEquations
  <2>3. Split(t) = Append(<<>>, t)
    BY <1>2
  <2>4. Front(Append(<<>>, t)) = <<>> /\ Last(Append(<<>>, t)) = t
    <3>1. <<>> \in Seq(Text)
      OBVIOUS
    <3>2. QED
      BY <2>1, <3>1, FrontAppend, Zenon
  <2>5. Split(Append(t, c)) = Append(<<>>, Append(t, c))
    BY <2>2, <2>3, <2>4
  <2>6. QED
    BY <2>1, <2>5
<1>3. s \in K
  <2> HIDE DEF K
  <2>1. Seq(D) \subseteq K
    BY <1>1, <1>2, SeqSetInduction, Zenon
  <2>2. QED
    BY <2>1
<1>4. QED
  BY <1>3

(* Segments that lead neither nowhere nor up. *)
Dotless == Text \ {<<".">>, <<".", ".">>}

(* What follows without dots is below what is before. *)
LEMMA DirectoryConcat ==
  ASSUME NEW a \in Seq(Text), NEW b \in Seq(Dotless)
  PROVE  Directory(a \o b) = Directory(a) \o Directory(b)
<1> DEFINE K == {t \in Seq(Dotless) : Directory(a \o t) = Directory(a) \o Directory(t)}
<1>1. \A t \in Seq(Text) : Directory(t) \in Seq(Text)
  BY DirectoryFolds, Zenon
<1>2. <<>> \in K
  <2>1. a \o <<>> = a /\ Directory(a) \o <<>> = Directory(a) /\ <<>> \in Seq(Dotless)
    BY <1>1
  <2>2. Directory(<<>>) = <<>>
    BY DirectoryEquations, Zenon
  <2>3. Directory(a \o <<>>) = Directory(a) \o Directory(<<>>)
    BY <2>1, <2>2, Zenon
  <2>4. QED
    BY <2>1, <2>3
<1>3. ASSUME NEW t \in Seq(Dotless), NEW c \in Dotless, t \in K PROVE Append(t, c) \in K
  <2> DEFINE u == a \o t
  <2>1. c \in Text /\ c # <<".">> /\ c # <<".", ".">> /\ t \in Seq(Text)
    BY DEF Dotless
  <2>2. u \in Seq(Text) /\ a \o Append(t, c) = Append(u, c) /\ Append(t, c) \in Seq(Dotless)
    BY <2>1
  <2>3. Directory(u) = Directory(a) \o Directory(t)
    BY <1>3
  <2> HIDE DEF u
  <2>4. \A x \in Seq(Text) : Directory(Append(x, c)) = IF c = <<>> THEN Directory(x) ELSE Append(Directory(x), c)
    BY <2>1, DirectoryEquations
  <2>5. Directory(a) \in Seq(Text) /\ Directory(t) \in Seq(Text)
    BY <1>1, <2>1, Zenon
  <2>6. Append(Directory(u), c) = Directory(a) \o Append(Directory(t), c)
    <3> DEFINE A == Directory(a)
               T == Directory(t)
    <3>1. A \in Seq(Text) /\ T \in Seq(Text) /\ Directory(u) = A \o T
      BY <2>3, <2>5, Zenon
    <3> HIDE DEF A, T
    <3>2. Append(A \o T, c) = A \o Append(T, c)
      BY <2>1, <3>1, ConcatAppend, Zenon
    <3>3. QED
      BY <3>1, <3>2, Zenon DEF A, T
  <2>7. Directory(Append(u, c)) = Directory(a) \o Directory(Append(t, c))
    BY <2>1, <2>2, <2>3, <2>4, <2>6, Zenon
  <2>8. QED
    BY <2>2, <2>7
<1>4. b \in K
  <2> HIDE DEF K
  <2>1. QED
    BY <1>2, <1>3, SeqSetInduction, Zenon
<1>5. QED
  BY <1>4

(* A segment that is a name is a directory of its own. *)
LEMMA DirectoryName ==
  ASSUME NEW c \in Dotless, c # <<>>
  PROVE  Directory(<<c>>) = <<c>>
<1>1. c \in Text /\ c \notin {<<>>, <<".">>} /\ c # <<".", ".">>
  BY DEF Dotless
<1>2. Directory(Append(<<>>, c)) = Append(Directory(<<>>), c)
  <2>1. <<>> \in Seq(Text)
    OBVIOUS
  <2>2. QED
    BY <1>1, <2>1, DirectoryEquations, Zenon
<1>3. <<c>> = Append(<<>>, c)
  OBVIOUS
<1>4. QED
  BY <1>2, <1>3, DirectoryEquations

(* Placeholders are replaced in each part of a text. *)
LEMMA SubstituteConcat ==
  ASSUME NEW old, NEW new \in Text, NEW a \in Text, NEW b \in Text
  PROVE  Substitute(a \o b, old, new) = Substitute(a, old, new) \o Substitute(b, old, new)
<1> DEFINE F(t) == Substitute(t, old, new)
           K == {t \in Seq(Characters) : F(a \o t) = F(a) \o F(t)}
<1>1. \A t \in Text : F(t) \in Text
  BY SubstituteFolds, Zenon
<1>2. F(<<>>) = <<>>
  BY SubstituteEquations, Zenon
<1>3. \A t \in Text, c \in Characters : F(Append(t, c)) = F(t) \o Put(c, old, new)
  BY SubstituteEquations, Zenon
<1> HIDE DEF F
<1>4. <<>> \in K
  <2>1. a \o <<>> = a /\ F(a) \o <<>> = F(a) /\ <<>> \in Seq(Characters)
    BY <1>1 DEF Text
  <2>2. F(a \o <<>>) = F(a) \o F(<<>>)
    BY <1>2, <2>1, Zenon
  <2>3. QED
    BY <2>1, <2>2
<1>5. ASSUME NEW t \in Seq(Characters), NEW c \in Characters, t \in K PROVE Append(t, c) \in K
  <2> DEFINE u == a \o t
             d == Put(c, old, new)
  <2>1. u \in Text /\ a \o Append(t, c) = Append(u, c) /\ Append(t, c) \in Seq(Characters) /\ t \in Text
    BY DEF Text
  <2>2. d \in Text
    <3>1. <<c>> \in Text
      BY DEF Text
    <3>2. QED
      BY <3>1 DEF Put
  <2>3. F(u) = F(a) \o F(t)
    BY <1>5
  <2>4. F(Append(u, c)) = F(u) \o d /\ F(Append(t, c)) = F(t) \o d
    BY <1>3, <2>1
  <2> HIDE DEF u, d
  <2>5. ASSUME NEW x \in Text, NEW y \in Text
        PROVE  (x \o y) \o d = x \o (y \o d)
    BY <2>2 DEF Text
  <2>6. F(Append(u, c)) = F(a) \o F(Append(t, c))
    <3>1. (F(a) \o F(t)) \o d = F(a) \o (F(t) \o d)
      BY <1>1, <2>1, <2>5, Zenon
    <3>2. QED
      BY <2>3, <2>4, <3>1, Zenon
  <2>7. QED
    BY <2>1, <2>6
<1>6. b \in K
  <2> HIDE DEF K
  <2>1. Seq(Characters) \subseteq K
    BY <1>4, <1>5, SeqSetInduction, Zenon
  <2>2. QED
    BY <2>1 DEF Text
<1>7. QED
  BY <1>6 DEF F

(* Text without the placeholder is left as it is. *)
LEMMA SubstitutePlain ==
  ASSUME NEW old, NEW new \in Text, NEW s \in Seq(Characters \ {old})
  PROVE  Substitute(s, old, new) = s
<1> DEFINE D == Characters \ {old}
           K == {t \in Seq(D) : Substitute(t, old, new) = t}
<1>1. <<>> \in K
  BY SubstituteEquations
<1>2. ASSUME NEW t \in Seq(D), NEW c \in D, t \in K PROVE Append(t, c) \in K
  <2>1. t \in Text /\ c \in Characters /\ c # old /\ Append(t, c) \in Seq(D) /\ t \o <<c>> = Append(t, c)
    BY DEF Text
  <2>2. Substitute(Append(t, c), old, new) = Substitute(t, old, new) \o <<c>>
    <3>1. Substitute(Append(t, c), old, new)
            = Substitute(t, old, new) \o Put(c, old, new)
      BY <2>1, SubstituteEquations, Zenon
    <3>2. QED
      BY <2>1, <3>1, Zenon DEF Put
  <2>3. QED
    BY <1>2, <2>1, <2>2
<1>3. s \in K
  <2> HIDE DEF K
  <2>1. Seq(D) \subseteq K
    BY <1>1, <1>2, SeqSetInduction, Zenon
  <2>2. QED
    BY <2>1
<1>4. QED
  BY <1>3

-----------------------------------------------------------------------------
(* What CreateVolume makes of a pattern *)

Plain == Characters \ Placeholders

(* What may follow the namespace: nothing, or other segments. *)
Rests == {r \in Text : r = <<>> \/ \E x \in Text : r = <<"/">> \o x}

(* Text from texts, and from fixed ones. *)
LEMMA Texts ==
  /\ \A x, y \in Text : x \o y \in Text
  /\ \A x \in Text, c \in Characters : Append(x, c) \in Text
  /\ \A x, y \in Seq(Plain) : x \o y \in Seq(Plain)
  /\ \A x \in Seq(Plain) : x \in Text
  /\ \A old \in Placeholders : \A x \in Seq(Plain) : x \in Seq(Characters \ {old})
  /\ \A x \in Rests : x \in Text
  /\ Text = Seq(Characters)
<1>1. \A x, y \in Text : x \o y \in Text
  BY DEF Text
<1>2. \A x \in Text, c \in Characters : Append(x, c) \in Text
  BY DEF Text
<1>3. \A x, y \in Seq(Plain) : x \o y \in Seq(Plain)
  OBVIOUS
<1>4. \A x \in Seq(Plain) : x \in Text
  BY DEF Plain, Text
<1>5. ASSUME NEW old \in Placeholders, NEW x \in Seq(Plain) PROVE x \in Seq(Characters \ {old})
  BY DEF Plain
<1>6. \A x \in Rests : x \in Text
  BY Zenon DEF Rests
<1>7. QED
  BY <1>1, <1>2, <1>3, <1>4, <1>5, <1>6, Zenon DEF Text

(* Replacing a placeholder leaves the slash in front alone. *)
LEMMA SubstituteRest ==
  ASSUME NEW old \in Placeholders, NEW new \in Text, NEW r \in Rests
  PROVE  Substitute(r, old, new) \in Rests
<1>1. CASE r = <<>>
  <2>1. Substitute(r, old, new) = <<>>
    BY <1>1, SubstituteEquations, Zenon
  <2>2. QED
    BY <1>1, <2>1, Zenon
<1>2. ASSUME NEW x \in Text, r = <<"/">> \o x
      PROVE  Substitute(r, old, new) \in Rests
  <2> DEFINE y == Substitute(x, old, new)
             slash == <<"/">>
  <2>1. "/" \in Characters /\ "/" # old
    BY TextAssumption DEF Placeholders
  <2>2. slash \in Seq(Characters \ {old}) /\ slash \in Text
    BY <2>1 DEF Text
  <2> HIDE DEF slash
  <2>3. Substitute(slash \o x, old, new) = Substitute(slash, old, new) \o y
    BY <2>2, SubstituteConcat, Zenon
  <2>4. Substitute(slash, old, new) = slash
    BY <2>2, SubstitutePlain, Zenon
  <2>5. y \in Text
    BY SubstituteFolds, Zenon
  <2> HIDE DEF y
  <2>6. slash \o y \in Text
    BY <2>2, <2>5 DEF Text
  <2>7. Substitute(r, old, new) = slash \o y
    BY <1>2, <2>3, <2>4, Zenon DEF slash
  <2>8. QED
    BY <2>5, <2>6, <2>7, Zenon DEF Rests, slash
<1>3. QED
  BY <1>1, <1>2, Zenon DEF Rests

(* Replacing a placeholder leaves fixed text alone. *)
LEMMA SubstituteAfter ==
  ASSUME NEW old \in Placeholders, NEW new \in Text, NEW a \in Seq(Plain), NEW r \in Text
  PROVE  Substitute(a \o r, old, new) = a \o Substitute(r, old, new)
<1>1. a \in Text /\ a \in Seq(Characters \ {old})
  BY DEF Text, Plain
<1>2. Substitute(a \o r, old, new) = Substitute(a, old, new) \o Substitute(r, old, new)
  BY <1>1, SubstituteConcat, Zenon
<1>3. Substitute(a, old, new) = a
  BY <1>1, SubstitutePlain, Zenon
<1>4. QED
  BY <1>2, <1>3, Zenon

(* The namespace of a PVC is fixed text, and a name. *)
LEMMA Namespaces ==
  ASSUME NEW pvc \in PVCs
  PROVE  /\ pvc.namespace \in Seq(Plain) /\ pvc.namespace \in Seq(Characters \ {"/"})
         /\ pvc.namespace \in Dotless /\ pvc.namespace # <<>>
<1> DEFINE n == pvc.namespace
<1>1. n \in Seq(Characters) /\ n # <<>> /\ \A k \in DOMAIN n : n[k] \notin {"/", "."} \cup Placeholders
  BY TextAssumption, Zenon
<1> HIDE DEF n
<1>2. DOMAIN n = 1..Len(n) /\ Len(n) \in Nat \ {0} /\ \A k \in 1..Len(n) : n[k] \in Characters
  BY <1>1
<1>3. n \in Seq(Plain)
  BY <1>1, <1>2 DEF Plain
<1>4. n \in Seq(Characters \ {"/"})
  BY <1>1, <1>2
<1>5. n[1] # "."
  BY <1>1, <1>2
<1>6. n # <<".">> /\ n # <<".", ".">>
  BY <1>5
<1>7. QED
  BY <1>1, <1>3, <1>4, <1>6 DEF n, Dotless, Text

(* Where a pattern has fixed text and the namespace as a segment, its      *)
(* volumes have the text and the namespace, whatever is replaced behind it. *)
LEMMA ParserIsolates ==
  ASSUME NEW pvc \in PVCs, NEW prefix \in Seq(Plain), NEW rest \in Rests,
         "${.PVC.namespace}" \in Characters
  PROVE  \E q \in Rests :
            stringParser(pvc, Append(prefix, "${.PVC.namespace}") \o rest) = (prefix \o pvc.namespace) \o q
<1> DEFINE r == "${.PVC.namespace}"
           n == pvc.namespace
           h == Append(prefix, r)
           s == h \o rest
           a == prefix \o n
           step == ParseStep(pvc)
           I == {a \o q : q \in Rests}
<1>1. n \in Seq(Plain) /\ n \in Text /\ rest \in Text /\ prefix \in Text
  BY Namespaces, Texts, Zenon
<1>2. r \in Placeholders /\ r \in Characters /\ ValueOf(pvc, r) = n
  BY DEF Placeholders, ValueOf
<1>3. step \in StepOf(Text, Characters)
  BY ParseSteps, Zenon
<1>4. \A x \in Text, c \in Characters : OneStep(step, x, c) =
         IF c \in Placeholders THEN Substitute(x, c, ValueOf(pvc, c)) ELSE x
  BY DEF OneStep, ParseStep
<1> HIDE DEF r, n, step
<1>5. h \in Text /\ h \in Seq(Characters) /\ prefix \in Seq(Characters) /\ rest \in Seq(Characters)
  BY <1>1, <1>2, Texts, Zenon
<1>6. a \in Seq(Plain) /\ a \in Text
  BY <1>1, Texts, Zenon
<1> HIDE DEF h, a
<1>7. s \in Text
  BY <1>1, <1>5, Texts, Zenon
<1> HIDE DEF s
<1>8. Fold(step, s, prefix) = s
  <2>1. {s} \in SUBSET Text /\ Plain \in SUBSET Characters /\ s \in {s}
    BY <1>7 DEF Plain
  <2>2. \A x \in {s}, c \in Plain : OneStep(step, x, c) \in {s}
    BY <1>4, <1>7 DEF Plain
  <2>3. Fold(step, s, prefix) \in {s}
    BY <1>3, <2>1, <2>2, FoldKeeps, Zenon
  <2>4. QED
    BY <2>3
<1>9. Fold(step, s, h) = Substitute(s, r, n)
  <2>1. Fold(step, s, Append(prefix, r)) = OneStep(step, Fold(step, s, prefix), r)
    <3>1. \A x \in Seq(Characters), c \in Characters : Fold(step, s, Append(x, c)) = OneStep(step, Fold(step, s, x), c)
      <4>1. \A x \in Seq(Characters), c \in Characters : GoesOn(step, s, x, c)
        BY <1>3, <1>7, FoldGoesOn, Zenon
      <4>2. QED
        BY <4>1, Zenon DEF GoesOn
    <3>2. QED
      BY <1>2, <1>5, <3>1, Zenon
  <2>2. OneStep(step, s, r) = Substitute(s, r, n)
    BY <1>2, <1>4, <1>7, Zenon
  <2>3. QED
    BY <1>8, <2>1, <2>2, Zenon DEF h
<1>10. Substitute(s, r, n) \in I
  <2>1. Substitute(s, r, n) = Substitute(h, r, n) \o Substitute(rest, r, n)
    BY <1>1, <1>5, SubstituteConcat, Zenon DEF s
  <2>2. Substitute(h, r, n) = Substitute(prefix, r, n) \o Put(r, r, n)
    BY <1>1, <1>2, SubstituteEquations, Zenon DEF h
  <2>3. Substitute(prefix, r, n) = prefix
    <3>1. prefix \in Seq(Characters \ {r})
      BY <1>2, Texts, Zenon
    <3>2. QED
      BY <1>1, <3>1, SubstitutePlain, Zenon
  <2>4. Put(r, r, n) = n
    BY DEF Put
  <2>5. Substitute(rest, r, n) \in Rests
    BY <1>1, <1>2, SubstituteRest, Zenon
  <2>6. Substitute(s, r, n) = a \o Substitute(rest, r, n)
    BY <2>1, <2>2, <2>3, <2>4, Zenon DEF a
  <2>7. QED
    BY <2>5, <2>6, Zenon
<1>11. Fold(step, Substitute(s, r, n), rest) \in I
  <2>1. I \in SUBSET Text
    <3>1. ASSUME NEW q \in Rests PROVE a \o q \in Text
      BY <1>6, Texts, Zenon
    <3>2. QED
      BY <3>1, Zenon
  <2>2. ASSUME NEW q \in Rests, NEW c \in Characters PROVE OneStep(step, a \o q, c) \in I
    <3>1. a \o q \in I /\ a \o q \in Text /\ q \in Text
      BY <1>6, Texts, Zenon
    <3>2. CASE c \in Placeholders
      <4>1. ValueOf(pvc, c) \in Text
        BY Values, Zenon
      <4>2. OneStep(step, a \o q, c) = Substitute(a \o q, c, ValueOf(pvc, c))
        BY <1>4, <3>1, <3>2, Zenon
      <4>3. Substitute(a \o q, c, ValueOf(pvc, c)) = a \o Substitute(q, c, ValueOf(pvc, c))
        BY <1>6, <3>1, <3>2, <4>1, SubstituteAfter, Zenon
      <4>4. Substitute(q, c, ValueOf(pvc, c)) \in Rests
        BY <3>2, <4>1, SubstituteRest, Zenon
      <4>5. QED
        BY <4>2, <4>3, <4>4, Zenon
    <3>3. CASE c \notin Placeholders
      BY <1>4, <3>1, <3>3, Zenon
    <3>4. QED
      BY <3>2, <3>3
  <2>3. \A x \in I, c \in Characters : OneStep(step, x, c) \in I
    BY <2>2, Zenon
  <2>4. Characters \in SUBSET Characters
    OBVIOUS
  <2> HIDE DEF I
  <2>5. QED
    BY <1>3, <1>5, <1>10, <2>1, <2>3, <2>4, FoldKeeps, Zenon
<1>12. stringParser(pvc, s) = Fold(step, Fold(step, s, h), rest)
  <2>1. stringParser(pvc, s) = Fold(step, s, s)
    BY <1>7, ParserFolds, Zenon DEF step
  <2>2. Fold(step, s, h \o rest) = Fold(step, Fold(step, s, h), rest)
    <3>1. GoesOnWith(step, s, h, rest)
      BY <1>3, <1>5, <1>7, FoldGoesOnWith, Zenon
    <3>2. QED
      BY <3>1, Zenon DEF GoesOnWith
  <2>3. QED
    BY <2>1, <2>2, Zenon DEF s
<1>13. stringParser(pvc, s) \in I
  BY <1>9, <1>11, <1>12, Zenon
<1>14. QED
  BY <1>13, Zenon DEF s, h, r, a, n

-----------------------------------------------------------------------------
(* Where a suffix leads *)

(* The suffix starts a segment of its own. *)
Slashed(suffix) == IF suffix = <<>> \/ Head(suffix) = "/" THEN suffix ELSE <<"/">> \o suffix

(* What is appended to text. *)
LEMMA TextAppends ==
  /\ \A x, y, z \in Text : (x \o y) \o z = x \o (y \o z)
  /\ \A x, y \in Text : x \o (<<"/">> \o y) = Append(x, "/") \o y
  /\ \A x \in Text : <<"/">> \o x = Append(<<>>, "/") \o x /\ x \o <<>> = x /\ <<>> \o x = x
  /\ "/" \in Characters /\ <<>> \in Text /\ <<"/">> \in Text
<1>1. "/" \in Characters
  BY TextAssumption
<1>2. \A x, y, z \in Text : (x \o y) \o z = x \o (y \o z)
  BY DEF Text
<1>3. ASSUME NEW x \in Text, NEW y \in Text
      PROVE  x \o (<<"/">> \o y) = Append(x, "/") \o y
  BY <1>1 DEF Text
<1>4. \A x \in Text : <<"/">> \o x = Append(<<>>, "/") \o x /\ x \o <<>> = x /\ <<>> \o x = x
  BY <1>1 DEF Text
<1>5. <<>> \in Text /\ <<"/">> \in Text
  BY <1>1 DEF Text
<1>6. QED
  BY <1>1, <1>2, <1>3, <1>4, <1>5, Zenon

(* Text in three parts. *)
LEMMA TextAssociative ==
  ASSUME NEW x \in Text, NEW y \in Text, NEW z \in Text
  PROVE  x \o (y \o z) = (x \o y) \o z
BY DEF Text

(* The segments behind the root of a volume. *)
LEMMA SplitInside ==
  ASSUME NEW x \in Text, NEW y \in Text
  PROVE  Split(x \o (<<"/">> \o y)) = Split(x) \o Split(y)
<1>1. x \o (<<"/">> \o y) = Append(x, "/") \o y
  BY TextAppends, Zenon
<1>2. Split(Append(x, "/") \o y) = Split(x) \o Split(y)
  BY SplitConcat, Zenon
<1>3. QED
  BY <1>1, <1>2, Zenon

(* The last segments of a path without dots have none. *)
LEMMA DotlessTail ==
  ASSUME NEW a \in Seq(Text), NEW b \in Seq(Text),
         \A k \in DOMAIN (a \o b) : (a \o b)[k] \notin {<<".">>, <<".", ".">>}
  PROVE  b \in Seq(Dotless)
<1>1. ASSUME NEW k \in 1..Len(b) PROVE b[k] \in Dotless
  <2>1. Len(a) + k \in DOMAIN (a \o b) /\ (a \o b)[Len(a) + k] = b[k] /\ b[k] \in Text
    OBVIOUS
  <2>2. QED
    BY <2>1 DEF Dotless
<1>2. QED
  BY <1>1

(* A suffix that CreateVolume accepts is segments below the root. *)
LEMMA SlashedSuffix ==
  ASSUME NEW x \in Text, x # <<>>, validateRemotePathSuffix(x)
  PROVE  \E y \in Text : Slashed(x) = <<"/">> \o y /\ Split(y) \in Seq(Dotless)
<1>1. CASE Head(x) = "/"
  <2> DEFINE y == Tail(x)
  <2>1. y \in Text /\ x = <<"/">> \o y
    BY <1>1 DEF Text
  <2> HIDE DEF y
  <2>2. <<>> \o (<<"/">> \o y) = x
    <3>1. <<>> \o x = x
      BY TextAppends, Zenon
    <3>2. QED
      BY <2>1, <3>1, Zenon
  <2>3. Split(<<>> \o (<<"/">> \o y)) = Split(<<>>) \o Split(y)
    BY <2>1, TextAppends, SplitInside, Zenon
  <2>4. Split(<<>>) \in Seq(Text) /\ Split(y) \in Seq(Text)
    BY <2>1, TextAppends, SplitFolds, Zenon DEF Paths
  <2>5. Split(x) = Split(<<>>) \o Split(y)
    BY <2>2, <2>3, Zenon
  <2> DEFINE A == Split(<<>>)
             B == Split(y)
  <2>6. A \in Seq(Text) /\ B \in Seq(Text)
        /\ \A k \in DOMAIN (A \o B) : (A \o B)[k] \notin {<<".">>, <<".", ".">>}
    BY <2>4, <2>5 DEF validateRemotePathSuffix
  <2> HIDE DEF A, B
  <2>7. B \in Seq(Dotless)
    BY <2>6, DotlessTail, Zenon
  <2>8. Slashed(x) = <<"/">> \o y
    BY <1>1, <2>1, Zenon DEF Slashed
  <2>9. QED
    BY <2>1, <2>7, <2>8, Zenon DEF B
<1>2. CASE Head(x) # "/"
  <2>1. Slashed(x) = <<"/">> \o x
    BY <1>2, Zenon DEF Slashed
  <2>2. Split(x) \in Seq(Text)
    BY SplitFolds, Zenon DEF Paths
  <2>3. Split(x) \in Seq(Dotless)
    BY <2>2 DEF validateRemotePathSuffix, Dotless
  <2>4. QED
    BY <2>1, <2>3, Zenon
<1>3. QED
  BY <1>1, <1>2

(* A sequence is a prefix of what extends it. *)
LEMMA PrefixOfMore ==
  ASSUME NEW C, NEW d \in Seq(C), NEW e \in Seq(C)
  PROVE  IsPrefix(d, d \o e)
<1>1. d \o e \in Seq(C) /\ Len(d \o e) = Len(d) + Len(e) /\ \A k \in 1..Len(d) : (d \o e)[k] = d[k]
  OBVIOUS
<1>2. Len(d) \in Nat /\ Len(e) \in Nat /\ Len(d) <= Len(d \o e)
  BY <1>1
<1>3. SubSeq(d, 1, Len(d)) = [k \in 1..Len(d) |-> d[k]]
  BY <1>2
<1>4. SubSeq(d \o e, 1, Len(d)) = [k \in 1..Len(d) |-> (d \o e)[k]]
  BY <1>1, <1>2
<1>5. SubSeq(d, 1, Len(d)) = SubSeq(d \o e, 1, Len(d))
  BY <1>1, <1>3, <1>4
<1>6. QED
  BY <1>2, <1>5, Zenon DEF IsPrefix

(* A sequence is no prefix of one that differs in an element. *)
LEMMA NoPrefix ==
  ASSUME NEW C, NEW d \in Seq(C), NEW m \in C, NEW e \in Seq(C), NEW n \in C, NEW f \in Seq(C), m # n
  PROVE  ~IsPrefix(d \o (<<m>> \o e), d \o (<<n>> \o f))
<1> DEFINE x == d \o (<<m>> \o e)
           y == d \o (<<n>> \o f)
           i == Len(d) + 1
<1>1. /\ x \in Seq(C) /\ y \in Seq(C) /\ i \in 1..Len(x) /\ i \in 1..Len(y)
      /\ x[i] = m /\ y[i] = n /\ Len(x) \in Nat /\ Len(y) \in Nat
  OBVIOUS
<1> HIDE DEF x, y, i
<1>2. SUFFICES ASSUME IsPrefix(x, y) PROVE FALSE
  BY DEF x, y
<1>3. SubSeq(x, 1, Len(x))[i] = SubSeq(y, 1, Len(x))[i] /\ Len(x) <= Len(y)
  BY <1>2 DEF IsPrefix
<1>4. SubSeq(x, 1, Len(x))[i] = x[i]
  BY <1>1
<1>5. SubSeq(y, 1, Len(x))[i] = y[i]
  BY <1>1, <1>3
<1>6. QED
  BY <1>1, <1>3, <1>4, <1>5

-----------------------------------------------------------------------------
(* Where an isolating pattern leads *)

(* Fixed text that ends a segment leads to one root, whatever follows it.  *)
LEMMA FixedRoot ==
  ASSUME NEW root \in Text, NEW prefix \in Text, prefix # <<>> => Last(prefix) = "/"
  PROVE  \E R \in Text, Z \in Seq(Text) :
            \A y \in Text : y # <<>> /\ Head(y) # "/" =>
               /\ root \o Slashed(prefix \o y) = Append(R, "/") \o y
               /\ Split(prefix \o y) = Z \o Split(y)
<1>1. CASE prefix = <<>>
  <2>1. ASSUME NEW y \in Text, y # <<>>, Head(y) # "/"
        PROVE  /\ root \o Slashed(prefix \o y) = Append(root, "/") \o y
               /\ Split(prefix \o y) = <<>> \o Split(y)
    <3>1. prefix \o y = y
      BY <1>1, TextAppends, Zenon
    <3>2. Slashed(y) = <<"/">> \o y
      BY <2>1, Zenon DEF Slashed
    <3>3. root \o (<<"/">> \o y) = Append(root, "/") \o y
      BY TextAppends, Zenon
    <3>4. Split(y) \in Seq(Text)
      BY SplitFolds, Zenon DEF Paths
    <3>5. <<>> \o Split(y) = Split(y)
      BY <3>4
    <3>6. QED
      BY <3>1, <3>2, <3>3, <3>5, Zenon
  <2>2. <<>> \in Seq(Text)
    OBVIOUS
  <2>3. QED
    BY <2>1, <2>2, Zenon
<1>2. CASE prefix # <<>>
  <2> DEFINE P == Front(prefix)
             slash == <<"/">>
  <2>1. P \in Text /\ prefix = Append(P, "/") /\ prefix \in Seq(Characters)
    <3>1. prefix \in Seq(Characters)
      BY DEF Text
    <3>2. P \in Seq(Characters) /\ prefix = Append(P, Last(prefix))
      BY <1>2, <3>1, SeqLast, Zenon
    <3>3. QED
      BY <1>2, <3>1, <3>2 DEF Text
  <2> HIDE DEF P
  <2>2. Split(P) \in Seq(Text)
    BY <2>1, SplitFolds, Zenon DEF Paths
  <2>3. ASSUME NEW y \in Text PROVE Split(prefix \o y) = Split(P) \o Split(y)
    BY <2>1, SplitConcat, Zenon
  <2>4. ASSUME NEW y \in Text
        PROVE  prefix \o y \in Text /\ prefix \o y # <<>> /\ Head(prefix \o y) = Head(prefix)
    BY <1>2 DEF Text
  <2>5. ASSUME NEW R \in Text, NEW y \in Text
        PROVE  R \o (prefix \o y) = Append(R \o P, "/") \o y
    <3>1. R \o (prefix \o y) = (R \o prefix) \o y
      BY DEF Text
    <3>2. R \o Append(P, "/") = Append(R \o P, "/")
      BY <2>1, TextAppends DEF Text
    <3>3. QED
      BY <2>1, <3>1, <3>2, Zenon
  <2>6. CASE Head(prefix) = "/"
    <3>1. ASSUME NEW y \in Text PROVE root \o Slashed(prefix \o y) = Append(root \o P, "/") \o y
      <4>1. Slashed(prefix \o y) = prefix \o y
        BY <2>4, <2>6, Zenon DEF Slashed
      <4>2. QED
        BY <2>5, <4>1, Zenon
    <3>2. root \o P \in Text
      BY <2>1, Texts, Zenon
    <3>3. QED
      BY <2>2, <2>3, <3>1, <3>2, Zenon
  <2>7. CASE Head(prefix) # "/"
    <3> DEFINE R == root \o slash
    <3>1. slash \in Text /\ R \in Text
      BY TextAppends, Texts, Zenon
    <3>2. ASSUME NEW y \in Text PROVE root \o Slashed(prefix \o y) = Append(R \o P, "/") \o y
      <4>1. Slashed(prefix \o y) = slash \o (prefix \o y)
        BY <2>4, <2>7, Zenon DEF Slashed
      <4>2. root \o (slash \o (prefix \o y)) = R \o (prefix \o y)
        <5> DEFINE z == prefix \o y
        <5>1. z \in Text
          BY <2>4
        <5> HIDE DEF slash, z
        <5>2. root \o (slash \o z) = R \o z
          BY <3>1, <5>1, TextAssociative, Zenon
        <5>3. QED
          BY <5>2 DEF z
      <4>3. R \o (prefix \o y) = Append(R \o P, "/") \o y
        <5> HIDE DEF R
        <5>1. QED
          BY <2>5, <3>1, Zenon
      <4>4. QED
        BY <4>1, <4>2, <4>3, Zenon
    <3> HIDE DEF R
    <3>3. R \o P \in Text
      BY <2>1, <3>1, Texts, Zenon
    <3>4. QED
      BY <2>2, <2>3, <3>2, <3>3, Zenon
  <2>8. QED
    BY <2>6, <2>7
<1>3. QED
  BY <1>1, <1>2

(* Text without a slash is the first segment of what follows it. *)
LEMMA SplitName ==
  ASSUME NEW n \in Seq(Characters \ {"/"}), NEW q \in Rests
  PROVE  \E D \in Seq(Text) : Split(n \o q) = <<n>> \o D
<1>1. Split(n) = <<n>>
  BY SplitPlain, Zenon
<1>2. n \in Text
  BY DEF Text
<1>3. CASE q = <<>>
  <2>1. Split(n \o q) = <<n>>
    BY <1>1, <1>2, <1>3, TextAppends, Zenon
  <2>2. <<n>> = <<n>> \o <<>> /\ <<>> \in Seq(Text)
    BY <1>2
  <2>3. QED
    BY <2>1, <2>2, Zenon
<1>4. ASSUME NEW x \in Text, q = <<"/">> \o x
      PROVE  \E D \in Seq(Text) : Split(n \o q) = <<n>> \o D
  <2>1. Split(n \o (<<"/">> \o x)) = Split(n) \o Split(x)
    BY <1>2, SplitInside, Zenon
  <2>2. Split(x) \in Seq(Text)
    BY SplitFolds, Zenon DEF Paths
  <2>3. QED
    BY <1>1, <1>4, <2>1, <2>2, Zenon
<1>5. QED
  BY <1>3, <1>4, Zenon DEF Rests

(* A sequence in parts. *)
LEMMA SeqParts ==
  ASSUME NEW C, NEW s \in Seq(C), NEW i \in 1..Len(s)
  PROVE  LET a == SubSeq(s, 1, i - 1)
             b == SubSeq(s, i + 1, Len(s))
         IN  a \in Seq(C) /\ b \in Seq(C) /\ s[i] \in C /\ s = Append(a, s[i]) \o b
<1> DEFINE a == SubSeq(s, 1, i - 1)
           b == SubSeq(s, i + 1, Len(s))
           c == s[i]
           h == Append(a, c)
<1>1. Len(s) \in Nat /\ \A k \in 1..Len(s) : s[k] \in C
  OBVIOUS
<1>2. a = [k \in 1..(i - 1) |-> s[k]] /\ i - 1 \in Nat
  BY <1>1
<1>3. b = [k \in 1..(Len(s) - i) |-> s[i + k]] /\ Len(s) - i \in Nat
  BY <1>1
<1>4. c \in C
  BY <1>1
<1> HIDE DEF a, b
<1>5. a \in Seq(C) /\ Len(a) = i - 1 /\ \A k \in 1..(i - 1) : a[k] = s[k]
  BY <1>1, <1>2
<1>6. b \in Seq(C) /\ Len(b) = Len(s) - i /\ \A k \in 1..(Len(s) - i) : b[k] = s[i + k]
  BY <1>1, <1>3
<1>7. /\ h \in Seq(C) /\ Len(h) = i /\ h[i] = c
      /\ \A k \in 1..(i - 1) : h[k] = a[k]
  <2> HIDE DEF c
  <2>1. QED
    BY <1>4, <1>5
<1> HIDE DEF h
<1>8. \A k \in 1..i : h[k] = s[k]
  BY <1>5, <1>7
<1>9. /\ h \o b \in Seq(C) /\ Len(h \o b) = Len(s)
      /\ \A k \in 1..Len(s) : (h \o b)[k] = IF k <= i THEN h[k] ELSE b[k - i]
  <2>1. /\ h \o b \in Seq(C) /\ Len(h \o b) = Len(h) + Len(b)
        /\ \A k \in 1..(Len(h) + Len(b)) : (h \o b)[k] = IF k <= Len(h) THEN h[k] ELSE b[k - Len(h)]
    BY <1>6, <1>7, ConcatProperties, Zenon
  <2>2. Len(h) + Len(b) = Len(s)
    BY <1>1, <1>6, <1>7
  <2>3. QED
    BY <1>7, <2>1, <2>2, Zenon
<1>10. ASSUME NEW k \in 1..Len(s) PROVE (h \o b)[k] = s[k]
  <2>1. CASE k <= i
    BY <1>1, <1>8, <1>9, <2>1
  <2>2. CASE ~(k <= i)
    <3>1. k - i \in 1..(Len(s) - i) /\ i + (k - i) = k
      BY <1>1, <2>2
    <3>2. b[k - i] = s[k]
      BY <1>6, <3>1
    <3>3. QED
      BY <1>9, <2>2, <3>2
  <2>3. QED
    BY <2>1, <2>2
<1>11. s = h \o b
  BY <1>9, <1>10, SeqEqual
<1>12. QED
  BY <1>4, <1>5, <1>6, <1>11 DEF a, b, h

(* A sequence and its first element. *)
LEMMA SeqHead ==
  ASSUME NEW C, NEW s \in Seq(C), s # <<>>
  PROVE  Tail(s) \in Seq(C) /\ Head(s) \in C /\ s = <<Head(s)>> \o Tail(s)
OBVIOUS

(* A pattern that validatePathPatternIsolation accepts, in parts. *)
LEMMA IsolatingPattern ==
  ASSUME NEW pattern \in Text, validatePathPatternIsolation(pattern)
  PROVE  \E prefix \in Seq(Plain), rest \in Rests :
            /\ pattern = Append(prefix, "${.PVC.namespace}") \o rest
            /\ prefix # <<>> => Last(prefix) = "/"
            /\ "${.PVC.namespace}" \in Characters
<1> DEFINE r == "${.PVC.namespace}"
<1>1. pattern \in Seq(Characters)
  BY DEF Text
<1>2. PICK i \in DOMAIN pattern :
        LET prefix == SubSeq(pattern, 1, i - 1)
            rest   == SubSeq(pattern, i + 1, Len(pattern))
        IN  /\ pattern[i] = r
            /\ \A k \in DOMAIN prefix : prefix[k] \notin Placeholders
            /\ prefix # <<>> => Last(prefix) = "/"
            /\ rest # <<>> => Head(rest) = "/"
  BY Zenon DEF validatePathPatternIsolation
<1> DEFINE prefix == SubSeq(pattern, 1, i - 1)
           rest   == SubSeq(pattern, i + 1, Len(pattern))
<1>3. /\ pattern[i] = r
      /\ \A k \in DOMAIN prefix : prefix[k] \notin Placeholders
      /\ prefix # <<>> => Last(prefix) = "/"
      /\ rest # <<>> => Head(rest) = "/"
  BY <1>2, Zenon
<1>4. /\ prefix \in Seq(Characters) /\ rest \in Seq(Characters) /\ pattern[i] \in Characters
      /\ pattern = Append(prefix, pattern[i]) \o rest
  <2>1. i \in 1..Len(pattern)
    BY <1>1
  <2>2. QED
    BY <1>1, <2>1, SeqParts, Zenon
<1> HIDE DEF prefix, rest
<1>5. prefix \in Seq(Plain)
  <2>1. DOMAIN prefix = 1..Len(prefix) /\ \A k \in 1..Len(prefix) : prefix[k] \in Characters
    BY <1>4
  <2>2. \A k \in 1..Len(prefix) : prefix[k] \in Plain
    BY <1>3, <2>1 DEF Plain
  <2>3. QED
    BY <1>4, <2>2
<1>6. rest \in Rests
  <2>1. CASE rest = <<>>
    BY <1>4, <2>1, Zenon DEF Rests, Text
  <2>2. CASE rest # <<>>
    <3>1. Tail(rest) \in Seq(Characters) /\ rest = <<Head(rest)>> \o Tail(rest)
      BY <1>4, <2>2, SeqHead, Zenon
    <3>2. Head(rest) = "/"
      BY <1>3, <2>2, Zenon
    <3>3. rest = <<"/">> \o Tail(rest)
      BY <3>1, <3>2
    <3>4. QED
      BY <1>4, <3>1, <3>3, Zenon DEF Rests, Text
  <2>3. QED
    BY <2>1, <2>2
<1>7. QED
  BY <1>3, <1>4, <1>5, <1>6, Zenon

(* Every directory of an isolating pattern is one root, the namespace, and *)
(* what is below it.                                                       *)
LEMMA IsolatedDirectory ==
  ASSUME NEW root \in Text, NEW pattern \in Text, validatePathPatternIsolation(pattern)
  PROVE  \E D \in Seq(Text) : \A pvc \in PVCs :
            validateRemotePathSuffix(stringParser(pvc, pattern)) =>
               \E E \in Seq(Text) :
                  Resolve(root \o Slashed(stringParser(pvc, pattern))) = D \o (<<pvc.namespace>> \o E)
<1>1. PICK prefix \in Seq(Plain), rest \in Rests :
            /\ pattern = Append(prefix, "${.PVC.namespace}") \o rest
            /\ prefix # <<>> => Last(prefix) = "/"
            /\ "${.PVC.namespace}" \in Characters
  BY IsolatingPattern, Zenon
<1>2. prefix \in Text
  BY Texts, Zenon
<1>3. PICK R \in Text, Z \in Seq(Text) :
            \A y \in Text : y # <<>> /\ Head(y) # "/" =>
               /\ root \o Slashed(prefix \o y) = Append(R, "/") \o y
               /\ Split(prefix \o y) = Z \o Split(y)
  BY <1>1, <1>2, FixedRoot, Zenon
<1> DEFINE D == Directory(Split(R))
<1>4. Split(R) \in Seq(Text) /\ D \in Seq(Text)
  BY SplitFolds, DirectoryFolds, Zenon DEF Paths
<1> HIDE DEF D
<1>5. ASSUME NEW pvc \in PVCs, validateRemotePathSuffix(stringParser(pvc, pattern))
      PROVE  \E E \in Seq(Text) :
                Resolve(root \o Slashed(stringParser(pvc, pattern))) = D \o (<<pvc.namespace>> \o E)
  <2> DEFINE n == pvc.namespace
             suffix == stringParser(pvc, pattern)
  <2>1. n \in Seq(Plain) /\ n \in Seq(Characters \ {"/"}) /\ n \in Dotless /\ n # <<>> /\ n \in Text
    BY Namespaces, Texts, Zenon
  <2>2. PICK q \in Rests : suffix = (prefix \o n) \o q
    BY <1>1, ParserIsolates, Zenon
  <2> DEFINE y == n \o q
  <2> HIDE DEF n, suffix
  <2>3. y \in Text /\ q \in Text
    BY <2>1, Texts, Zenon
  <2>4. y # <<>> /\ Head(y) # "/"
    <3>1. Len(n) \in Nat \ {0} /\ n[1] # "/"
      BY <2>1
    <3>2. q \in Seq(Characters) /\ n \in Seq(Characters)
      BY <2>1, <2>3 DEF Text
    <3>3. Len(y) # 0 /\ y[1] = n[1]
      BY <3>1, <3>2
    <3>4. QED
      BY <3>1, <3>2, <3>3
  <2>5. suffix = prefix \o y
    BY <1>2, <2>1, <2>2, <2>3, TextAssociative, Zenon
  <2>6. PICK C \in Seq(Text) : Split(y) = <<n>> \o C
    BY <2>1, SplitName, Zenon
  <2> HIDE DEF y
  <2>7. root \o Slashed(suffix) = Append(R, "/") \o y /\ Split(suffix) = Z \o Split(y)
    BY <1>3, <2>3, <2>4, <2>5, Zenon
  <2>8. Split(y) \in Seq(Text)
    BY <2>3, SplitFolds, Zenon DEF Paths
  <2>9. \A k \in DOMAIN (Z \o Split(y)) : (Z \o Split(y))[k] \notin {<<".">>, <<".", ".">>}
    BY <1>5, <2>7, Zenon DEF validateRemotePathSuffix, suffix
  <2>10. Split(y) \in Seq(Dotless)
    BY <2>8, <2>9, DotlessTail, Zenon
  <2>11. <<n>> \in Seq(Dotless) /\ <<n>> \in Seq(Text) /\ C \in Seq(Dotless)
    <3>1. <<n>> \in Seq(Dotless) /\ <<n>> \in Seq(Text)
      BY <2>1
    <3>2. \A k \in DOMAIN (<<n>> \o C) : (<<n>> \o C)[k] \notin {<<".">>, <<".", ".">>}
      <4> DEFINE S == Split(y)
      <4>1. S \in Seq(Dotless) /\ S = <<n>> \o C
        BY <2>6, <2>10
      <4> HIDE DEF S
      <4>2. \A k \in DOMAIN S : S[k] \in Dotless
        BY <4>1
      <4>3. QED
        BY <4>1, <4>2 DEF Dotless
    <3>3. C \in Seq(Dotless)
      <4> DEFINE N == <<n>>
      <4>1. N \in Seq(Text) /\ \A k \in DOMAIN (N \o C) : (N \o C)[k] \notin {<<".">>, <<".", ".">>}
        BY <3>1, <3>2
      <4> HIDE DEF N
      <4>2. QED
        BY <4>1, DotlessTail, Zenon
    <3>4. QED
      BY <3>1, <3>3
  <2>12. Split(root \o Slashed(suffix)) = Split(R) \o Split(y)
    BY <2>3, <2>7, SplitConcat, Zenon
  <2>13. Directory(Split(R) \o Split(y)) = D \o Directory(Split(y))
    BY <1>4, <2>10, DirectoryConcat, Zenon DEF D
  <2>14. Directory(Split(y)) = Directory(<<n>>) \o Directory(C)
    BY <2>6, <2>11, DirectoryConcat, Zenon
  <2>15. Directory(<<n>>) = <<n>>
    BY <2>1, DirectoryName, Zenon
  <2>16. Directory(C) \in Seq(Text)
    BY DirectoryFolds, Zenon
  <2>17. Resolve(root \o Slashed(suffix)) = D \o (<<n>> \o Directory(C))
    BY <2>12, <2>13, <2>14, <2>15, Zenon DEF Resolve
  <2>18. QED
    BY <2>16, <2>17, Zenon DEF n, suffix
<1>6. QED
  BY <1>4, <1>5, Zenon

(* An accepted suffix leads below its root. *)
LEMMA SuffixInside ==
  ASSUME NEW root \in Text, NEW x \in Text, validateRemotePathSuffix(x)
  PROVE  IsPrefix(Resolve(root), Resolve(root \o Slashed(x)))
<1> DEFINE D == Directory(Split(root))
<1>1. Split(root) \in Seq(Text) /\ D \in Seq(Text)
  BY SplitFolds, DirectoryFolds, Zenon DEF Paths
<1>2. \E E \in Seq(Text) : Resolve(root \o Slashed(x)) = D \o E
  <2>1. CASE x = <<>>
    <3>1. root \o Slashed(x) = root
      BY <2>1, TextAppends, Zenon DEF Slashed
    <3>2. D \o <<>> = D /\ <<>> \in Seq(Text)
      <4> HIDE DEF D
      <4>1. QED
        BY <1>1
    <3>3. Resolve(root \o Slashed(x)) = D \o <<>>
      BY <3>1, <3>2, Zenon DEF Resolve
    <3>4. QED
      BY <3>2, <3>3, Zenon
  <2>2. CASE x # <<>>
    <3>1. PICK y \in Text : Slashed(x) = <<"/">> \o y /\ Split(y) \in Seq(Dotless)
      BY <2>2, SlashedSuffix, Zenon
    <3>2. Split(root \o Slashed(x)) = Split(root) \o Split(y)
      BY <3>1, SplitInside, Zenon
    <3>3. Directory(Split(root) \o Split(y)) = D \o Directory(Split(y))
      BY <1>1, <3>1, DirectoryConcat, Zenon
    <3>4. Directory(Split(y)) \in Seq(Text)
      BY SplitFolds, DirectoryFolds, Zenon DEF Paths
    <3>5. Resolve(root \o Slashed(x)) = D \o Directory(Split(y))
      BY <3>2, <3>3, Zenon DEF Resolve
    <3>6. QED
      BY <3>4, <3>5, Zenon
  <2>3. QED
    BY <2>1, <2>2
<1> HIDE DEF D
<1>3. PICK E \in Seq(Text) : Resolve(root \o Slashed(x)) = D \o E
  BY <1>2
<1>4. IsPrefix(D, D \o E)
  BY <1>1, PrefixOfMore, Zenon
<1>5. QED
  BY <1>3, <1>4, Zenon DEF Resolve, D

-----------------------------------------------------------------------------
(* The volumes that exist *)

SuffixOf(pvc, pattern) == IF pvc.name = <<>> THEN <<>> ELSE stringParser(pvc, pattern)

(* What CreateVolume answers for a PVC. *)
MadeFor(c, pvc, namespace, suffix) ==
    /\ c.sharedRemote \/ (validatePathPatternIsolation(c.pathPattern) /\ pvc.name # <<>>)
    /\ validateRemotePathSuffix(SuffixOf(pvc, c.pathPattern))
    /\ namespace = pvc.namespace
    /\ suffix = Slashed(SuffixOf(pvc, c.pathPattern))

Made(c, v) == \E pvc \in PVCs : MadeFor(c, pvc, v.namespace, v.remotePathSuffix)

Classes == [pathPattern : Patterns, sharedRemote : BOOLEAN]

(* The inductive invariant: every volume is one that CreateVolume made of  *)
(* a PVC.                                                                  *)
MadeInv ==
    /\ class \in Classes
    /\ \A v \in volumes : Made(class, v)

(* The volumes of CreateVolume are made, and none changes. *)
LEMMA MadeStep == MadeInv /\ (Next \/ UNCHANGED vars) => MadeInv'
<1> SUFFICES ASSUME MadeInv, Next \/ UNCHANGED vars PROVE MadeInv'
  OBVIOUS
<1>1. ASSUME NEW pvc \in PVCs, CreateVolume(pvc) PROVE MadeInv'
  <2> DEFINE suffix == SuffixOf(pvc, class.pathPattern)
             umask == IF pvc.name = <<>> THEN "none" ELSE pvc.umask
             new == [namespace |-> pvc.namespace, umask |-> umask, remotePathSuffix |-> Slashed(suffix)]
  <2>1. /\ class.sharedRemote \/ (validatePathPatternIsolation(class.pathPattern) /\ pvc.name # <<>>)
        /\ validateRemotePathSuffix(suffix)
        /\ volumes' = volumes \cup {new}
        /\ class' = class
    BY <1>1, Zenon DEF CreateVolume, SuffixOf, Slashed
  <2>2. new.namespace = pvc.namespace /\ new.remotePathSuffix = Slashed(suffix)
    BY Zenon
  <2> HIDE DEF new
  <2>3. Made(class, new)
    BY <2>1, <2>2, Zenon DEF Made, MadeFor
  <2>4. QED
    BY <2>1, <2>3, Zenon DEF MadeInv
<1>2. ASSUME NEW v \in volumes, DeleteVolume(v) PROVE MadeInv'
  <2>1. volumes' \subseteq volumes /\ class' = class
    BY <1>2 DEF DeleteVolume
  <2>2. QED
    BY <2>1, Zenon DEF MadeInv
<1>3. CASE UNCHANGED vars
  BY <1>3, Zenon DEF vars, MadeInv
<1>4. QED
  BY <1>1, <1>2, <1>3 DEF Next

(* No volumes are made at first. *)
LEMMA MadeBegin == Init => MadeInv
BY DEF Init, MadeInv, Classes

(* The patterns and the values of a class are text. *)
LEMMA SuffixIsText ==
  ASSUME NEW c \in Classes, NEW pvc \in PVCs
  PROVE  c.pathPattern \in Text /\ SuffixOf(pvc, c.pathPattern) \in Text
<1>1. c.pathPattern \in Text
  <2>1. c.pathPattern \in Patterns
    BY DEF Classes
  <2>2. QED
    BY <2>1, TextAssumption, Zenon DEF Text
<1>2. stringParser(pvc, c.pathPattern) \in Text
  BY <1>1, ParserFolds, Zenon
<1>3. <<>> \in Text
  BY TextAppends, Zenon
<1>4. QED
  BY <1>1, <1>2, <1>3, Zenon DEF SuffixOf

(* Where a class makes volumes, they are below the root. *)
LEMMA MadeInside ==
  ASSUME NEW c \in Classes, NEW v, Made(c, v), NEW root \in Text
  PROVE  IsPrefix(Resolve(root), Resolve(root \o v.remotePathSuffix))
<1>1. PICK pvc \in PVCs : MadeFor(c, pvc, v.namespace, v.remotePathSuffix)
  BY Zenon DEF Made
<1>2. SuffixOf(pvc, c.pathPattern) \in Text /\ validateRemotePathSuffix(SuffixOf(pvc, c.pathPattern))
      /\ v.remotePathSuffix = Slashed(SuffixOf(pvc, c.pathPattern))
  BY <1>1, SuffixIsText, Zenon DEF MadeFor
<1>3. QED
  BY <1>2, SuffixInside, Zenon

(* Where a class that is not shared makes volumes, those of different      *)
(* namespaces are apart.                                                   *)
LEMMA MadeApart ==
  ASSUME NEW c \in Classes, ~c.sharedRemote, NEW v, NEW w, Made(c, v), Made(c, w),
         v.namespace # w.namespace, NEW root \in Text
  PROVE  ~IsPrefix(Resolve(root \o v.remotePathSuffix), Resolve(root \o w.remotePathSuffix))
<1> DEFINE pattern == c.pathPattern
<1>1. PICK p \in PVCs : MadeFor(c, p, v.namespace, v.remotePathSuffix)
  BY Zenon DEF Made
<1>2. PICK q \in PVCs : MadeFor(c, q, w.namespace, w.remotePathSuffix)
  BY Zenon DEF Made
<1>3. pattern \in Text /\ validatePathPatternIsolation(pattern)
  BY <1>1, SuffixIsText, Zenon DEF MadeFor
<1>4. /\ validateRemotePathSuffix(stringParser(p, pattern)) /\ p.namespace = v.namespace
      /\ v.remotePathSuffix = Slashed(stringParser(p, pattern))
  BY <1>1, Zenon DEF MadeFor, SuffixOf
<1>5. /\ validateRemotePathSuffix(stringParser(q, pattern)) /\ q.namespace = w.namespace
      /\ w.remotePathSuffix = Slashed(stringParser(q, pattern))
  BY <1>2, Zenon DEF MadeFor, SuffixOf
<1>6. PICK D \in Seq(Text) : \A pvc \in PVCs :
            validateRemotePathSuffix(stringParser(pvc, pattern)) =>
               \E E \in Seq(Text) :
                  Resolve(root \o Slashed(stringParser(pvc, pattern))) = D \o (<<pvc.namespace>> \o E)
  BY <1>3, IsolatedDirectory, Zenon
<1>7. PICK E \in Seq(Text) : Resolve(root \o v.remotePathSuffix) = D \o (<<v.namespace>> \o E)
  BY <1>4, <1>6, Zenon
<1>8. PICK F \in Seq(Text) : Resolve(root \o w.remotePathSuffix) = D \o (<<w.namespace>> \o F)
  BY <1>5, <1>6, Zenon
<1>9. v.namespace \in Text /\ w.namespace \in Text
  BY <1>4, <1>5, Namespaces, Texts, Zenon
<1> DEFINE m == v.namespace
           n == w.namespace
<1>10. m \in Text /\ n \in Text /\ m # n
  BY <1>9
<1> HIDE DEF m, n
<1>11. ~IsPrefix(D \o (<<m>> \o E), D \o (<<n>> \o F))
  BY <1>10, NoPrefix, Zenon
<1>12. QED
  BY <1>7, <1>8, <1>11, Zenon DEF m, n

(* Isolation, of the volumes that exist. *)
LEMMA MadeIsolates == MadeInv => NamespaceIsolation /\ StaysUnderRemotePath
<1>1. RemotePath \in Text
  BY TextAssumption, Zenon DEF Text
<1>2. MadeInv => NamespaceIsolation
  BY <1>1, MadeApart, Zenon DEF MadeInv, NamespaceIsolation, remotePath
<1>3. MadeInv => StaysUnderRemotePath
  BY <1>1, MadeInside, Zenon DEF MadeInv, StaysUnderRemotePath, remotePath
<1>4. QED
  BY <1>2, <1>3

(* Unless the class shares its remote path, PVCs of different namespaces   *)
(* never get the same or nested directories, whatever their owners write   *)
(* into labels and annotations and whatever the pathPattern is             *)
(* (validatePathPatternIsolation).                                         *)
THEOREM NamespacesApart == Spec => []NamespaceIsolation
<1>1. MadeInv /\ [Next]_vars => MadeInv'
  BY MadeStep
<1>2. QED
  BY <1>1, MadeBegin, MadeIsolates, PTL DEF Spec

(* No volume leaves remotePath (validateRemotePathSuffix). *)
THEOREM VolumesStayInside == Spec => []StaysUnderRemotePath
<1>1. MadeInv /\ [Next]_vars => MadeInv'
  BY MadeStep
<1>2. QED
  BY <1>1, MadeBegin, MadeIsolates, PTL DEF Spec

=============================================================================
