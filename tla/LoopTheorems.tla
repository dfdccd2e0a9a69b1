---------------------------- MODULE LoopTheorems ----------------------------
(***************************************************************************)
(* Induction over data, for the modules of proofs.  A loop of the program  *)
(* is a recursive function here.  What it keeps is shown over a set of     *)
(* numbers instead of a predicate: a set of numbers has a least member.    *)
(***************************************************************************)
EXTENDS Integers, NaturalsInduction, WellFoundedInduction, TLAPS

\* A set of numbers that is not empty has a least member
LEMMA Least ==
    ASSUME NEW T \in SUBSET Nat, T # {}
    PROVE  \E x \in T : \A y \in T : x <= y
<1> DEFINE R == {ss \in Nat \X Nat : ss[1] < ss[2]}
<1>1. IsWellFoundedOn(R, Nat)
    BY NatLessThanWellFounded DEF OpToRel
<1>2. PICK x \in T : \A y \in T : <<y, x>> \notin R
  <2> HIDE DEF R
  <2> QED BY <1>1, WFMin
<1>3. ASSUME NEW y \in T PROVE x <= y
    <2>1. y \in Nat /\ x \in Nat /\ <<y, x>> \in Nat \X Nat
        BY <1>2
    <2>2. ~(<<y, x>>[1] < <<y, x>>[2])
        BY <1>2, <2>1
    <2> QED BY <2>1, <2>2
<1> QED BY <1>3

\* Induction up to n, over a set instead of a predicate
LEMMA UpTo ==
    ASSUME NEW n \in Nat, NEW T, 0 \in T, \A i \in 0..n : i < n /\ i \in T => i + 1 \in T
    PROVE  \A i \in 0..n : i \in T
<1> DEFINE F == {i \in 0..n : i \notin T}
<1>1. SUFFICES ASSUME F # {} PROVE FALSE
    OBVIOUS
<1>2. PICK i \in F : \A j \in F : i <= j
    <2>1. F \in SUBSET Nat
        OBVIOUS
    <2> HIDE DEF F
    <2> QED BY <1>1, <2>1, Least
<1>3. i # 0 /\ i - 1 \in 0..n /\ i - 1 \in T
    BY <1>2
<1> QED BY <1>2, <1>3

\* The loop that begins with b and takes step i at round i
LoopOf(f, n, b, step) == f = [i \in 0..n |-> IF i = 0 THEN b ELSE step[i][f[i - 1]]]

\* There is a function that takes the steps of a loop, and it stays in the set the steps stay in
LEMMA LoopSteps ==
    ASSUME NEW n \in Nat, NEW B, NEW b \in B, NEW step \in [1..n -> [B -> B]]
    PROVE  \E f \in [0..n -> B] : LoopOf(f, n, b, step)
<1> DEFINE Runs(m) == \E f \in [0..m -> B] : f = [i \in 0..m |-> IF i = 0 THEN b ELSE step[i][f[i - 1]]]
           T == {m \in 0..n : Runs(m)}
<1>1. 0 \in T
    <2> DEFINE f == [i \in 0..0 |-> b]
    <2>1. f \in [0..0 -> B] /\ \A i \in 0..0 : i = 0 /\ f[i] = b
        OBVIOUS
    <2>2. f = [i \in 0..0 |-> IF i = 0 THEN b ELSE step[i][f[i - 1]]]
        <3> HIDE DEF f
        <3> QED BY <2>1
    <2> HIDE DEF f
    <2>3. 0 \in 0..n
        OBVIOUS
    <2> QED BY <2>1, <2>2, <2>3
<1>2. ASSUME NEW m \in 0..n, m < n, m \in T
      PROVE  m + 1 \in T
    <2>1. PICK f \in [0..m -> B] : f = [i \in 0..m |-> IF i = 0 THEN b ELSE step[i][f[i - 1]]]
        BY <1>2
    <2> DEFINE g == [i \in 0..(m + 1) |-> IF i = m + 1 THEN step[m + 1][f[m]] ELSE f[i]]
    <2>2. g \in [0..(m + 1) -> B]
        <3>1. m + 1 \in 1..n /\ m \in 0..m
            BY <1>2
        <3>2. step[m + 1] \in [B -> B] /\ f[m] \in B
            BY <2>1, <3>1
        <3>3. step[m + 1][f[m]] \in B
            BY <3>2
        <3> QED BY <2>1, <3>3
    <2>3. \A i \in 0..(m + 1) : g[i] = IF i = 0 THEN b ELSE step[i][g[i - 1]]
        <3>1. ASSUME NEW i \in 0..m PROVE g[i] = IF i = 0 THEN b ELSE step[i][g[i - 1]]
            <4>1. g[i] = f[i]
                OBVIOUS
            <4>3. i # 0 => i - 1 \in 0..(m + 1) /\ i - 1 # m + 1
                OBVIOUS
            <4>4. i # 0 => g[i - 1] = f[i - 1]
                BY <4>3
            <4>2. f[i] = IF i = 0 THEN b ELSE step[i][f[i - 1]]
                BY <2>1
            <4> QED BY <4>1, <4>2, <4>4
        <3>2. g[m + 1] = step[m + 1][g[m]] /\ m + 1 # 0 /\ (m + 1) - 1 = m
            OBVIOUS
        <3>3. \A i \in 0..(m + 1) : i \in 0..m \/ i = m + 1
            OBVIOUS
        <3> HIDE DEF g
        <3> QED BY <3>1, <3>2, <3>3
    <2>4. g = [i \in 0..(m + 1) |-> IF i = 0 THEN b ELSE step[i][g[i - 1]]]
        BY <2>2, <2>3
    <2>5. Runs(m + 1) /\ m + 1 \in 0..n
        <3> HIDE DEF g
        <3> QED BY <1>2, <2>2, <2>4
    <2> QED BY <2>5
<1>3. \A m \in 0..n : m \in T
    <2> HIDE DEF T
    <2> QED BY <1>1, <1>2, UpTo
<1> QED BY <1>3 DEF LoopOf

\* The loop that takes the same step each time
Loops(f, n, b, step) == f = [i \in 0..n |-> IF i = 0 THEN b ELSE step[f[i - 1]]]

\* There is a function that takes these steps
LEMMA Loop ==
    ASSUME NEW n \in Nat, NEW B, NEW b \in B, NEW step \in [B -> B]
    PROVE  \E f \in [0..n -> B] : Loops(f, n, b, step)
<1> DEFINE steps == [i \in 1..n |-> step]
<1>1. steps \in [1..n -> [B -> B]]
    OBVIOUS
<1>2. PICK f \in [0..n -> B] : LoopOf(f, n, b, steps)
    <2> HIDE DEF steps
    <2> QED BY <1>1, LoopSteps
<1>3. \A i \in 0..n : i # 0 => i \in 1..n
    OBVIOUS
<1>4. f = [i \in 0..n |-> IF i = 0 THEN b ELSE step[f[i - 1]]]
    BY <1>2, <1>3 DEF LoopOf
<1> QED BY <1>4 DEF Loops
=============================================================================
