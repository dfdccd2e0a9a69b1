-------------------------- MODULE Tournament_proofs --------------------------
(***************************************************************************)
(* Proofs about Tournament, for a cup of any size.                         *)
(*                                                                         *)
(* The bracket is kept as a tree (Tree): what a match of a later round     *)
(* knows of its sides is what the matches before it decided.  So an entry  *)
(* is in one match of each round at most (OncePerRound), has won every one *)
(* before it (WonBefore), and the final is over last (DoneBelow).          *)
(***************************************************************************)
EXTENDS Tournament, LoopTheorems, FiniteSetTheorems

-----------------------------------------------------------------------------
\* Powers of two
LEMMA Power ==
    ASSUME NEW n \in Nat
    PROVE  2^n \in Nat /\ 2^(n + 1) = 2 * 2^n
<1> DEFINE S == SUBSET (1..n)
           T == {U \cup {n + 1} : U \in S}
<1>0. n + 1 \notin 1..n
    OBVIOUS
<1>1. IsFiniteSet(1..n) /\ Cardinality(1..n) = n /\ IsFiniteSet(1..(n + 1)) /\ Cardinality(1..(n + 1)) = n + 1
    BY FS_Interval
<1>2. IsFiniteSet(S) /\ Cardinality(S) = 2^n /\ Cardinality(SUBSET (1..(n + 1))) = 2^(n + 1)
    BY <1>1, FS_SUBSET
<1>3. SUBSET (1..(n + 1)) = S \cup T
    <2>1. ASSUME NEW V \in SUBSET (1..(n + 1)) PROVE V \in S \cup T
        <3>1. CASE n + 1 \in V
            <4>1. V = (V \ {n + 1}) \cup {n + 1} /\ V \ {n + 1} \in S
                BY <3>1
            <4> QED BY <4>1
        <3>2. CASE n + 1 \notin V
            BY <3>2
        <3> QED BY <3>1, <3>2
    <2>2. 1..n \subseteq 1..(n + 1) /\ n + 1 \in 1..(n + 1)
        OBVIOUS
    <2>3. ASSUME NEW V \in S \cup T PROVE V \in SUBSET (1..(n + 1))
        BY <2>2
    <2> QED BY <2>1, <2>3
<1>4. S \cap T = {}
    BY <1>0
<1>5. ExistsBijection(S, T)
    <2> DEFINE f == [U \in S |-> U \cup {n + 1}]
    <2>1. \A U, V \in S : f[U] = f[V] => U = V
        BY <1>0
    <2>2. f \in [S -> T] /\ \A V \in T : \E U \in S : f[U] = V
        OBVIOUS
    <2> HIDE DEF f, S, T
    <2> QED BY <2>1, <2>2 DEF ExistsBijection, Bijection, Injection, Surjection, IsInjective
<1> HIDE DEF S, T
<1>6. IsFiniteSet(T) /\ Cardinality(T) = 2^n
    BY <1>2, <1>5, FS_Bijection
<1>7. 2^n \in Nat
    BY <1>2, FS_CardinalityType
<1>8. Cardinality(S \cup T) = Cardinality(S) + Cardinality(T) - Cardinality(S \cap T)
    BY <1>2, <1>6, FS_Union
<1>9. Cardinality(S \cap T) = 0
    BY <1>4, FS_EmptySet
<1>10. 2^(n + 1) = 2^n + 2^n - 0
    BY <1>2, <1>3, <1>6, <1>8, <1>9
<1> DEFINE p == 2^n
           q == 2^(n + 1)
<1>11. p \in Nat /\ q = p + p - 0
    BY <1>7, <1>10
<1> HIDE DEF p, q
<1>12. q = 2 * p
    BY <1>11
<1> QED BY <1>11, <1>12 DEF p, q

\* They are positive
LEMMA PowerPositive == 2^0 = 1 /\ \A n \in Nat : 2^n >= 1
<1>1. 2^0 = 1
    <2>1. IsFiniteSet({}) /\ Cardinality({}) = 0 /\ Cardinality(SUBSET {}) = 2^Cardinality({})
        BY FS_EmptySet, FS_SUBSET
    <2>2. SUBSET {} = {{}} /\ Cardinality({{}}) = 1
        BY FS_Singleton
    <2> QED BY <2>1, <2>2
<1>2. ASSUME NEW n \in Nat PROVE 2^n >= 1
    <2> DEFINE T == {m \in Nat : 2^m >= 1}
    <2>1. 0 \in T
        BY <1>1
    <2>2. ASSUME NEW m \in 0..n, m < n, m \in T PROVE m + 1 \in T
        <3>1. 2^m \in Nat /\ 2^(m + 1) = 2 * 2^m /\ 2^m >= 1
            BY <2>2, Power
        <3> DEFINE p == 2^m
                   q == 2^(m + 1)
        <3>2. p \in Nat /\ q = 2 * p /\ p >= 1
            BY <3>1
        <3> HIDE DEF p, q
        <3>3. q >= 1 
            BY <3>2
        <3> QED BY <3>3 DEF q
    <2>3. n \in T
        <3> HIDE DEF T
        <3> QED BY <2>1, <2>2, UpTo
    <2> QED BY <2>3
<1> QED BY <1>1, <1>2

-----------------------------------------------------------------------------
\* The keys of a bracket: every match of a later round has two that feed it

Up(k) == <<k[1] + 1, k[2] \div 2>>
SideUp(k) == IF k[2] % 2 = 0 THEN "a" ELSE "b"
Feeder(k, s) == <<k[1] - 1, 2 * k[2] + IF s = "a" THEN 0 ELSE 1>>

\* What a key is
LEMMA KeyIs ==
    ASSUME NEW rounds \in Nat, NEW k \in Keys(rounds)
    PROVE  /\ k = <<k[1], k[2]>> /\ k[1] \in 1..rounds /\ rounds - k[1] \in Nat
           /\ k[2] \in Nat /\ k[2] < 2^(rounds - k[1]) /\ 2^(rounds - k[1]) \in Nat
<1>1. PICK r \in 1..rounds : k \in {r} \X (0..(2^(rounds - r) - 1))
    BY DEF Keys
<1>2. rounds - r \in Nat /\ 2^(rounds - r) \in Nat
    BY Power
<1>3. k = <<k[1], k[2]>> /\ k[1] = r /\ k[2] \in 0..(2^(rounds - r) - 1)
    BY <1>1
<1> DEFINE p == 2^(rounds - r)
<1>4. p \in Nat /\ k[2] \in 0..(p - 1)
    BY <1>2, <1>3
<1>5. k[2] \in Nat /\ k[2] < p
    <2> HIDE DEF p
    <2> QED BY <1>4
<1> QED BY <1>2, <1>3, <1>5

\* What makes a key
LEMMA KeyMade ==
    ASSUME NEW rounds \in Nat, NEW r \in 1..rounds, NEW i \in Nat, i < 2^(rounds - r)
    PROVE  <<r, i>> \in Keys(rounds)
<1> DEFINE p == 2^(rounds - r)
<1>1. p \in Nat /\ i < p
    BY Power
<1>2. i \in 0..(p - 1)
    <2> HIDE DEF p
    <2> QED BY <1>1
<1>3. <<r, i>> \in {r} \X (0..(2^(rounds - r) - 1))
    BY <1>2
<1> QED BY <1>3 DEF Keys

\* The final is the only match of the last round
LEMMA Final ==
    ASSUME NEW rounds \in Nat \ {0}
    PROVE  /\ <<rounds, 0>> \in Keys(rounds)
           /\ \A k \in Keys(rounds) : k[1] = rounds => k = <<rounds, 0>>
<1>1. rounds - rounds = 0 /\ 2^(rounds - rounds) = 1
    BY PowerPositive
<1>2. <<rounds, 0>> \in Keys(rounds)
    <2>1. rounds \in Nat /\ rounds \in 1..rounds /\ 0 \in Nat /\ 0 < 2^(rounds - rounds)
        BY <1>1
    <2> QED BY <2>1, KeyMade
<1>3. ASSUME NEW k \in Keys(rounds), k[1] = rounds PROVE k = <<rounds, 0>>
    BY <1>1, <1>3, KeyIs
<1> QED BY <1>2, <1>3

\* The winner's next match
LEMMA UpIs ==
    ASSUME NEW rounds \in Nat, NEW k \in Keys(rounds)
    PROVE  /\ Up(k) # k /\ Up(k)[1] = k[1] + 1 /\ Up(k)[2] = k[2] \div 2 /\ SideUp(k) \in {"a", "b"}
           /\ k[1] < rounds => Up(k) \in Keys(rounds)
           /\ k[1] = rounds => Up(k) \notin Keys(rounds)
<1>1. /\ k = <<k[1], k[2]>> /\ k[1] \in 1..rounds /\ k[2] \in Nat /\ k[2] < 2^(rounds - k[1])
    BY KeyIs
<1>2. Up(k) # k /\ Up(k)[1] = k[1] + 1 /\ Up(k)[2] = k[2] \div 2 /\ SideUp(k) \in {"a", "b"}
    BY <1>1 DEF Up, SideUp
<1>3. ASSUME k[1] < rounds PROVE Up(k) \in Keys(rounds)
    <2> DEFINE p == 2^(rounds - (k[1] + 1))
               q == 2^(rounds - k[1])
    <2>1. rounds - (k[1] + 1) \in Nat /\ (rounds - (k[1] + 1)) + 1 = rounds - k[1]
        BY <1>1, <1>3
    <2>2. p \in Nat /\ q = 2 * p /\ k[2] < q
        BY <1>1, <2>1, Power
    <2>3. k[2] \div 2 \in Nat /\ k[2] \div 2 < p
        <3> HIDE DEF p, q
        <3> QED BY <1>1, <2>2
    <2>4. k[1] + 1 \in 1..rounds
        BY <1>1, <1>3
    <2> QED BY <2>3, <2>4, KeyMade DEF Up
<1>4. ASSUME k[1] = rounds PROVE Up(k) \notin Keys(rounds)
    BY <1>2, <1>4, KeyIs
<1> QED BY <1>2, <1>3, <1>4

\* The two matches that a later one waits for
LEMMA FeederIs ==
    ASSUME NEW rounds \in Nat, NEW k \in Keys(rounds), k[1] > 1, NEW s \in {"a", "b"}
    PROVE  Feeder(k, s) \in Keys(rounds) /\ Feeder(k, s)[1] = k[1] - 1
<1>1. /\ k[1] \in 1..rounds /\ k[2] \in Nat /\ k[2] < 2^(rounds - k[1]) /\ rounds - k[1] \in Nat
    BY KeyIs
<1> DEFINE p == 2^(rounds - k[1])
           q == 2^(rounds - (k[1] - 1))
           i == 2 * k[2] + IF s = "a" THEN 0 ELSE 1
<1>2. rounds - (k[1] - 1) = (rounds - k[1]) + 1
    BY <1>1
<1>3. p \in Nat /\ q = 2 * p /\ k[2] < p
    BY <1>1, <1>2, Power
<1>4. i \in Nat /\ i < q
    <2> HIDE DEF p, q
    <2> QED BY <1>1, <1>3
<1>5. k[1] - 1 \in 1..rounds
    BY <1>1
<1> QED BY <1>4, <1>5, KeyMade DEF Feeder

\* They are those that it is next for
LEMMA FeederUp ==
    ASSUME NEW rounds \in Nat, NEW k \in Keys(rounds), NEW l \in Keys(rounds), l[1] > 1, NEW s \in {"a", "b"}
    PROVE  Feeder(l, s) = k <=> l = Up(k) /\ s = SideUp(k)
<1>1. /\ k = <<k[1], k[2]>> /\ k[1] \in 1..rounds /\ k[2] \in Nat
      /\ l = <<l[1], l[2]>> /\ l[1] \in 1..rounds /\ l[2] \in Nat
    BY KeyIs
<1>2. Feeder(l, s) = k <=> l[1] - 1 = k[1] /\ 2 * l[2] + (IF s = "a" THEN 0 ELSE 1) = k[2]
    BY <1>1 DEF Feeder
<1>3. l = Up(k) <=> l[1] = k[1] + 1 /\ l[2] = k[2] \div 2
    BY <1>1 DEF Up
<1>4. s = SideUp(k) <=> k[2] % 2 = IF s = "a" THEN 0 ELSE 1
    BY <1>1 DEF SideUp
<1>5. 2 * l[2] + (IF s = "a" THEN 0 ELSE 1) = k[2] <=> (l[2] = k[2] \div 2 /\ k[2] % 2 = IF s = "a" THEN 0 ELSE 1)
    BY <1>1
<1>6. l[1] - 1 = k[1] <=> l[1] = k[1] + 1
    BY <1>1
<1> QED BY <1>2, <1>3, <1>4, <1>5, <1>6

\* A bracket has as many rounds as its keys say
LEMMA RoundsAre ==
    ASSUME NEW rounds \in Nat \ {0}, NEW b, DOMAIN b = Keys(rounds)
    PROVE  RoundsOf(b) = rounds /\ FinalKey(b) = <<rounds, 0>>
<1> DEFINE S == {k[1] : k \in DOMAIN b}
<1>1. rounds \in S /\ \A k \in DOMAIN b : k[1] <= rounds /\ k[1] \in Nat
    <2>1. <<rounds, 0>> \in DOMAIN b /\ <<rounds, 0>>[1] = rounds
        BY Final
    <2> QED BY <2>1, KeyIs
<1>2. ASSUME NEW r \in S, \A k \in DOMAIN b : k[1] <= r
      PROVE  r = rounds
    <2>1. <<rounds, 0>> \in DOMAIN b /\ <<rounds, 0>>[1] = rounds
        BY Final
    <2>2. rounds <= r /\ r <= rounds /\ r \in Nat
        BY <1>1, <1>2, <2>1
    <2> QED BY <2>2
<1>3. RoundsOf(b) = rounds
    <2> HIDE DEF S
    <2>1. RoundsOf(b) = CHOOSE r \in S : \A k \in DOMAIN b : k[1] <= r
        BY DEF RoundsOf, S
    <2> QED BY <1>1, <1>2, <2>1
<1> QED BY <1>3 DEF FinalKey

-----------------------------------------------------------------------------
\* A bracket is a tree, and stays one when a match is finished

Sides(m) == {m.side[s] : s \in Side}

\* A match of the bracket
MatchInv(m) ==
    /\ m.status = "live" <=> m.live # NoGame
    /\ m.status # "pending" => m.known = Side
    /\ m.winner \in Sides(m) \cup {NoEntry}

\* What is known of a later match is what the matches before it decided
FedBy(m, s, feeder) ==
    /\ s \in m.known <=> feeder.status = "done"
    /\ m.side[s] = IF feeder.status = "done" THEN feeder.winner ELSE NoEntry

\* Nobody is placed twice
PlacedOnce(b) ==
    \A k, l \in DOMAIN b : k[1] = 1 /\ l[1] = 1 => Sides(b[k]) \cap Sides(b[l]) \subseteq {NoEntry} \/ k = l

Tree(b, rounds) ==
    /\ b \in [Keys(rounds) -> BracketMatch]
    /\ \A k \in Keys(rounds) : MatchInv(b[k])
    /\ \A k \in Keys(rounds), s \in Side : IF k[1] = 1 THEN s \in b[k].known ELSE FedBy(b[k], s, b[Feeder(k, s)])
    /\ PlacedOnce(b)

\* What a step on the bracket leaves alone, but for match k
KeepsBut(b, c, k) ==
    \A l \in DOMAIN b : l # k =>
        /\ b[l].status \in {"done", "provisioning", "live"} => c[l] = b[l]
        /\ c[l].status \in {"provisioning", "live"} => c[l] = b[l]

Keeps(b, c) ==
    \A l \in DOMAIN b :
        /\ b[l].status \in {"done", "provisioning", "live"} => c[l] = b[l]
        /\ c[l].status \in {"provisioning", "live"} => c[l] = b[l]

-----------------------------------------------------------------------------
\* What finishing match k for w writes
Written(b, c, rounds, k, w, res) ==
    /\ c \in [Keys(rounds) -> BracketMatch]
    /\ c[k] = [b[k] EXCEPT !.status = "done", !.winner = w, !.resolution = res, !.live = NoGame]
    /\ \A l \in Keys(rounds) : l # k /\ l # Up(k) => c[l] = b[l]
    /\ Up(k) \in Keys(rounds) =>
          /\ c[Up(k)].status = b[Up(k)].status /\ c[Up(k)].live = b[Up(k)].live
          /\ c[Up(k)].winner = b[Up(k)].winner
          /\ c[Up(k)].known = b[Up(k)].known \cup {SideUp(k)} /\ c[Up(k)].side[SideUp(k)] = w
          /\ \A t \in Side : t # SideUp(k) => c[Up(k)].side[t] = b[Up(k)].side[t]

\* Finishing a match writes that
LEMMA FinishIs ==
    ASSUME NEW rounds \in Nat \ {0}, NEW b, Tree(b, rounds), NEW k \in Keys(rounds),
           NEW w \in Entry \cup {NoEntry}, NEW res \in Resolution, NEW c, c = Finish(b, k, w, res)
    PROVE  Written(b, c, rounds, k, w, res)
<1> DEFINE up == Up(k)
           s == SideUp(k)
           m == [b[k] EXCEPT !.status = "done", !.winner = w, !.resolution = res, !.live = NoGame]
           done == [b EXCEPT ![k] = m]
           n == [b[up] EXCEPT !.side = [@ EXCEPT ![s] = w], !.known = @ \cup {s}]
<1>1. b \in [Keys(rounds) -> BracketMatch] /\ b[k] \in BracketMatch
    BY DEF Tree
<1>2. m \in BracketMatch
    BY <1>1 DEF BracketMatch
<1>3. done \in [Keys(rounds) -> BracketMatch] /\ done[k] = m /\ \A l \in Keys(rounds) : l # k => done[l] = b[l]
    <2> HIDE DEF m
    <2> QED BY <1>1, <1>2
<1>4. [b EXCEPT ![k].status = "done", ![k].winner = w, ![k].resolution = res, ![k].live = NoGame] = done
    BY <1>1
<1>5. c = IF up \notin DOMAIN b THEN done
          ELSE [done EXCEPT ![up].side = [@ EXCEPT ![s] = w], ![up].known = @ \cup {s}]
    <2> DEFINE d == [b EXCEPT ![k].status = "done", ![k].winner = w, ![k].resolution = res, ![k].live = NoGame]
    <2>1. c = IF up \notin DOMAIN b THEN d
              ELSE [d EXCEPT ![up].side = [@ EXCEPT ![s] = w], ![up].known = @ \cup {s}]
        BY Zenon DEF Finish, Up, SideUp
    <2>2. d = done
        BY <1>4
    <2> HIDE DEF d, done, up, s
    <2> QED BY <2>1, <2>2
<1>6. CASE up \notin Keys(rounds)
    <2> HIDE DEF done, m
    <2>1. c = done
        BY <1>1, <1>5, <1>6
    <2> QED BY <1>3, <1>6, <2>1 DEF m, Written
<1>7. CASE up \in Keys(rounds)
    <2>1. up # k /\ s \in Side
        BY UpIs DEF Side
    <2>2. n \in BracketMatch
        <3>1. b[up] \in BracketMatch
            BY <1>1, <1>7
        <3> HIDE DEF up, s
        <3> QED BY <2>1, <3>1 DEF BracketMatch
    <2>3. [done EXCEPT ![up].side = [@ EXCEPT ![s] = w], ![up].known = @ \cup {s}] = [done EXCEPT ![up] = n]
        <3>1. done[up] = b[up]
            BY <1>3, <1>7, <2>1
        <3> HIDE DEF up, s, done
        <3> QED BY <1>3, <3>1
    <2>4. c = [done EXCEPT ![up] = n]
        <3> HIDE DEF done, up, s, n
        <3> QED BY <1>1, <1>5, <1>7, <2>3
    <2>5. c \in [Keys(rounds) -> BracketMatch] /\ c[up] = n /\ \A l \in Keys(rounds) : l # up => c[l] = done[l]
        <3> HIDE DEF done, up, n
        <3> QED BY <1>3, <1>7, <2>2, <2>4
    <2>6. /\ n.status = b[up].status /\ n.live = b[up].live /\ n.winner = b[up].winner
          /\ n.known = b[up].known \cup {s} /\ n.side[s] = w
          /\ \A t \in Side : t # s => n.side[t] = b[up].side[t]
        <3>1. b[up] \in BracketMatch
            BY <1>1, <1>7
        <3> DEFINE side == [b[up].side EXCEPT ![s] = w]
        <3>2. side[s] = w /\ \A t \in Side : t # s => side[t] = b[up].side[t]
            <4> HIDE DEF up, s
            <4> QED BY <2>1, <3>1 DEF BracketMatch
        <3>3. n = [b[up] EXCEPT !.side = side, !.known = @ \cup {s}]
            OBVIOUS
        <3> HIDE DEF up, s, side, n
        <3>4. /\ n.status = b[up].status /\ n.live = b[up].live /\ n.winner = b[up].winner
              /\ n.known = b[up].known \cup {s} /\ n.side = side
            BY <3>1, <3>3 DEF BracketMatch
        <3> QED BY <3>2, <3>4
    <2> HIDE DEF n, done
    <2> QED BY <1>3, <1>7, <2>1, <2>5, <2>6 DEF Written
<1> QED BY <1>6, <1>7

\* Finishing a match whose sides are known keeps the tree
LEMMA FinishTree ==
    ASSUME NEW rounds \in Nat \ {0}, NEW b, Tree(b, rounds), NEW k \in Keys(rounds),
           b[k].known = Side, b[k].status # "done",
           NEW w \in Sides(b[k]) \cup {NoEntry}, NEW res \in Resolution, NEW c, c = Finish(b, k, w, res)
    PROVE  /\ Tree(c, rounds) /\ c[k].status = "done" /\ KeepsBut(b, c, k)
           /\ Sides(c[k]) = Sides(b[k]) /\ c[k].winner = w /\ c[k].resolution = res
<1> DEFINE up == Up(k)
           s == SideUp(k)
<1>1. b \in [Keys(rounds) -> BracketMatch] /\ b[k] \in BracketMatch
    BY DEF Tree
<1>2. w \in Entry \cup {NoEntry}
    BY <1>1 DEF Sides, BracketMatch
<1>3. /\ c \in [Keys(rounds) -> BracketMatch]
      /\ c[k] = [b[k] EXCEPT !.status = "done", !.winner = w, !.resolution = res, !.live = NoGame]
      /\ \A l \in Keys(rounds) : l # k /\ l # up => c[l] = b[l]
      /\ up \in Keys(rounds) =>
            /\ c[up].status = b[up].status /\ c[up].live = b[up].live /\ c[up].winner = b[up].winner
            /\ c[up].known = b[up].known \cup {s} /\ c[up].side[s] = w
            /\ \A t \in Side : t # s => c[up].side[t] = b[up].side[t]
    <2>1. Written(b, c, rounds, k, w, res)
        BY <1>2, FinishIs
    <2> QED BY <2>1 DEF Written
<1>4. up # k /\ up[1] = k[1] + 1 /\ s \in Side
    BY UpIs DEF Side
<1>5. /\ c[k].status = "done" /\ c[k].winner = w /\ c[k].side = b[k].side /\ c[k].known = b[k].known
      /\ c[k].live = NoGame /\ c[k].resolution = res /\ Sides(c[k]) = Sides(b[k])
    <2>1. /\ c[k].status = "done" /\ c[k].winner = w /\ c[k].side = b[k].side /\ c[k].known = b[k].known
          /\ c[k].live = NoGame /\ c[k].resolution = res
        BY <1>1, <1>3 DEF BracketMatch
    <2> QED BY <2>1 DEF Sides
<1>6. ASSUME up \in Keys(rounds)
      PROVE  /\ c[up].status = b[up].status /\ c[up].live = b[up].live /\ c[up].winner = b[up].winner
             /\ c[up].known = b[up].known \cup {s} /\ c[up].side[s] = w
             /\ \A t \in Side : t # s => c[up].side[t] = b[up].side[t]
             /\ b[up].status = "pending" /\ b[up].side[s] = NoEntry /\ Feeder(up, s) = k /\ up[1] # 1
    <2>3. k[1] \in Nat /\ k[1] >= 1 /\ up[1] > 1
        BY <1>4, KeyIs
    <2>4. Feeder(up, s) = k
        BY <1>4, <1>6, <2>3, FeederUp DEF Side
    <2>5. FedBy(b[up], s, b[k]) /\ MatchInv(b[up])
        BY <1>4, <1>6, <2>3, <2>4 DEF Tree
    <2>6. s \notin b[up].known /\ b[up].side[s] = NoEntry
        BY <2>5 DEF FedBy
    <2>7. b[up].status = "pending"
        BY <1>4, <2>5, <2>6 DEF MatchInv
    <2> QED BY <1>3, <1>6, <2>3, <2>4, <2>6, <2>7
<1>7. ASSUME NEW l \in Keys(rounds) PROVE MatchInv(c[l])
    <2>1. MatchInv(b[l])
        BY DEF Tree
    <2>2. CASE l = k
        BY <1>5, <2>1, <2>2 DEF MatchInv
    <2>3. CASE l # k /\ l = up
        <3>1. b[up].winner = NoEntry \/ b[up].winner \in Sides(c[up])
            <4>1. b[up].winner \in Sides(b[up]) \cup {NoEntry}
                BY <2>1, <2>3 DEF MatchInv
            <4>2. CASE b[up].winner \in Sides(b[up]) /\ b[up].winner # NoEntry
                <5>1. PICK t \in Side : b[up].winner = b[up].side[t]
                    BY <4>2 DEF Sides
                <5>2. t # s
                    BY <1>6, <2>3, <4>2, <5>1
                <5> QED BY <1>6, <2>3, <5>1, <5>2 DEF Sides
            <4> QED BY <4>1, <4>2
        <3> QED BY <1>6, <2>1, <2>3, <3>1 DEF MatchInv
    <2>4. CASE l # k /\ l # up
        BY <1>3, <2>1, <2>4
    <2> QED BY <2>2, <2>3, <2>4
<1>8. ASSUME NEW l \in Keys(rounds), NEW t \in Side
      PROVE  IF l[1] = 1 THEN t \in c[l].known ELSE FedBy(c[l], t, c[Feeder(l, t)])
    <2>1. IF l[1] = 1 THEN t \in b[l].known ELSE FedBy(b[l], t, b[Feeder(l, t)])
        BY DEF Tree
    <2>2. CASE l[1] = 1
        <3>1. l # up
            <4>1. k[1] \in Nat /\ k[1] >= 1
                BY KeyIs
            <4> QED BY <1>4, <2>2, <4>1
        <3> QED BY <1>3, <1>5, <2>1, <2>2, <3>1
    <2>3. CASE l[1] # 1
        <3>1. l[1] > 1 /\ Feeder(l, t) \in Keys(rounds) /\ Feeder(l, t)[1] = l[1] - 1 /\ l[1] \in Nat
            <4>1. l[1] > 1 /\ l[1] \in Nat
                BY <2>3, KeyIs
            <4> QED BY <4>1, FeederIs DEF Side
        <3>2. Feeder(l, t) = k <=> l = up /\ t = s
            BY <3>1, FeederUp DEF Side
        <3>3. /\ Feeder(l, t) = up => b[up].status = "pending" /\ c[up].status = "pending"
              /\ Feeder(l, t) # k => c[Feeder(l, t)].status = b[Feeder(l, t)].status
                                     /\ c[Feeder(l, t)].winner = b[Feeder(l, t)].winner
            BY <1>3, <1>6, <3>1
        <3>4. CASE l = up /\ t = s
            <4>1. t \in c[l].known /\ c[l].side[t] = w
                BY <1>6, <3>4
            <4> QED BY <1>5, <2>3, <3>2, <3>4, <4>1 DEF FedBy
        <3>5. CASE ~(l = up /\ t = s)
            <4>1. (t \in c[l].known <=> t \in b[l].known) /\ c[l].side[t] = b[l].side[t]
                <5>1. CASE l = up
                    BY <1>6, <3>5, <5>1
                <5>2. CASE l = k
                    BY <1>5, <5>2
                <5>3. CASE l # up /\ l # k
                    BY <1>3, <5>3
                <5> QED BY <5>1, <5>2, <5>3
            <4> QED BY <2>1, <2>3, <3>2, <3>3, <3>5, <4>1 DEF FedBy
        <3> QED BY <3>4, <3>5
    <2> QED BY <2>2, <2>3
<1>9. PlacedOnce(c)
    <2>1. ASSUME NEW l \in Keys(rounds), l[1] = 1 PROVE Sides(c[l]) = Sides(b[l])
        <3>1. l # up
            <4>1. k[1] \in Nat /\ k[1] >= 1
                BY KeyIs
            <4> QED BY <1>4, <2>1, <4>1
        <3> QED BY <1>3, <1>5, <3>1
    <2>2. DOMAIN b = Keys(rounds) /\ DOMAIN c = Keys(rounds)
        BY <1>1, <1>3
    <2> QED BY <2>1, <2>2 DEF Tree, PlacedOnce
<1>10. KeepsBut(b, c, k)
    BY <1>1, <1>3, <1>6 DEF KeepsBut
<1>11. Tree(c, rounds)
    BY <1>3, <1>7, <1>8, <1>9 DEF Tree
<1> QED BY <1>5, <1>10, <1>11

-----------------------------------------------------------------------------
\* What else keeps it: a match gets another status, and matches are settled

\* A match that is not over gets another status that is not over
Opened(m, n) ==
    n = m \/ /\ m.status # "done" /\ n.status # "done" /\ MatchInv(n)
             /\ n.side = m.side /\ n.known = m.known /\ n.winner = m.winner

\* It keeps the tree
LEMMA OpenTree ==
    ASSUME NEW rounds \in Nat \ {0}, NEW b, Tree(b, rounds), NEW c \in [Keys(rounds) -> BracketMatch],
           \A l \in Keys(rounds) : Opened(b[l], c[l])
    PROVE  Tree(c, rounds)
<1>1. ASSUME NEW l \in Keys(rounds)
      PROVE  /\ MatchInv(c[l]) /\ c[l].side = b[l].side /\ c[l].known = b[l].known /\ c[l].winner = b[l].winner
             /\ c[l].status = "done" <=> b[l].status = "done"
    BY DEF Opened, Tree
<1>2. ASSUME NEW l \in Keys(rounds), NEW t \in Side
      PROVE  IF l[1] = 1 THEN t \in c[l].known ELSE FedBy(c[l], t, c[Feeder(l, t)])
    <2>1. IF l[1] = 1 THEN t \in b[l].known ELSE FedBy(b[l], t, b[Feeder(l, t)])
        BY DEF Tree
    <2>2. CASE l[1] = 1
        BY <1>1, <2>1, <2>2
    <2>3. CASE l[1] # 1
        <3>1. l[1] > 1
            BY <2>3, KeyIs
        <3>2. Feeder(l, t) \in Keys(rounds)
            BY <3>1, FeederIs DEF Side
        <3> QED BY <1>1, <2>1, <2>3, <3>2 DEF FedBy
    <2> QED BY <2>2, <2>3
<1>3. PlacedOnce(c)
    <2>1. DOMAIN b = Keys(rounds) /\ DOMAIN c = Keys(rounds)
        BY DEF Tree
    <2>2. \A l \in Keys(rounds) : Sides(c[l]) = Sides(b[l])
        BY <1>1 DEF Sides
    <2> QED BY <2>1, <2>2 DEF Tree, PlacedOnce
<1> QED BY <1>1, <1>2, <1>3 DEF Tree

\* What is kept twice is kept
LEMMA KeepsOn ==
    ASSUME NEW S, NEW b, NEW c, NEW d, DOMAIN b = S, DOMAIN c = S, Keeps(b, c), Keeps(c, d)
    PROVE  Keeps(b, d)
<1> SUFFICES ASSUME NEW l \in S
             PROVE  /\ b[l].status \in {"done", "provisioning", "live"} => d[l] = b[l]
                    /\ d[l].status \in {"provisioning", "live"} => d[l] = b[l]
    BY DEF Keeps
<1> QED BY DEF Keeps

\* One match is settled
LEMMA SettleMatchTree ==
    ASSUME NEW rounds \in Nat \ {0}, NEW b, Tree(b, rounds), NEW k \in Keys(rounds),
           b[k].status = "pending", b[k].known = Side
    PROVE  Tree(SettleMatch(b, k), rounds) /\ Keeps(b, SettleMatch(b, k))
<1> DEFINE there == {s \in Side : b[k].side[s] # NoEntry}
           c == SettleMatch(b, k)
<1>1. b \in [Keys(rounds) -> BracketMatch] /\ b[k] \in BracketMatch /\ MatchInv(b[k])
    BY DEF Tree
<1>2. ASSUME NEW w \in Sides(b[k]) \cup {NoEntry}, NEW res \in Resolution, c = Finish(b, k, w, res)
      PROVE  Tree(c, rounds) /\ Keeps(b, c)
    <2> HIDE DEF c
    <2>1. Tree(c, rounds) /\ c[k].status = "done" /\ KeepsBut(b, c, k)
        BY <1>2, FinishTree
    <2>2. Keeps(b, c)
        BY <2>1 DEF Keeps, KeepsBut
    <2> QED BY <2>1, <2>2
<1>3. CASE there = Side
    <2> DEFINE m == [b[k] EXCEPT !.status = "ready"]
    <2>1. m \in BracketMatch
        BY <1>1 DEF BracketMatch, OpenStatuses
    <2>2. m.status = "ready" /\ m.side = b[k].side /\ m.known = b[k].known /\ m.winner = b[k].winner /\ m.live = b[k].live
        BY <1>1 DEF BracketMatch
    <2>3. Opened(b[k], m)
        <3>1. MatchInv(m)
            <4> HIDE DEF m
            <4> QED BY <1>1, <2>2 DEF MatchInv, Sides
        <3> HIDE DEF m
        <3> QED BY <2>2, <3>1 DEF Opened
    <2>4. c = [b EXCEPT ![k] = m]
        BY <1>1, <1>3 DEF SettleMatch
    <2> HIDE DEF m, c
    <2>5. c \in [Keys(rounds) -> BracketMatch] /\ c[k] = m /\ \A l \in Keys(rounds) : l # k => c[l] = b[l]
        BY <1>1, <2>1, <2>4
    <2>6. Tree(c, rounds)
        <3>1. \A l \in Keys(rounds) : Opened(b[l], c[l])
            BY <2>3, <2>5 DEF Opened
        <3> QED BY <2>5, <3>1, OpenTree
    <2>7. Keeps(b, c)
        BY <1>1, <2>2, <2>5 DEF Keeps
    <2> QED BY <2>6, <2>7 DEF c
<1>4. CASE there = {}
    <2>1. c = Finish(b, k, NoEntry, "void")
        BY <1>4 DEF SettleMatch, Side
    <2> QED BY <1>2, <2>1 DEF Resolution
<1>5. CASE there # Side /\ there # {}
    <2> DEFINE w == b[k].side[CHOOSE s \in there : TRUE]
               res == IF k[1] = 1 THEN "bye" ELSE "walkover"
    <2>1. c = Finish(b, k, w, res)
        BY <1>5 DEF SettleMatch
    <2>2. w \in Sides(b[k])
        <3>1. (CHOOSE s \in there : TRUE) \in Side
            BY <1>5
        <3> QED BY <3>1 DEF Sides
    <2>3. res \in Resolution
        BY DEF Resolution
    <2> HIDE DEF w, res, c
    <2> QED BY <1>2, <2>1, <2>2, <2>3 DEF c
<1> QED BY <1>3, <1>4, <1>5

\* As the loop settles it
LEMMA SettleOneTree ==
    ASSUME NEW rounds \in Nat \ {0}, NEW b, Tree(b, rounds)
    PROVE  Tree(SettleOne(b), rounds) /\ Keeps(b, SettleOne(b))
<1> DEFINE unsettled == {k \in DOMAIN b : b[k].status = "pending" /\ b[k].known = Side}
<1>1. CASE unsettled = {}
    <2>1. SettleOne(b) = b
        BY <1>1 DEF SettleOne
    <2> QED BY <2>1 DEF Keeps
<1>2. CASE unsettled # {}
    <2> DEFINE k == CHOOSE k \in unsettled : TRUE
    <2>1. SettleOne(b) = SettleMatch(b, k)
        BY <1>2 DEF SettleOne
    <2>2. k \in unsettled
        BY <1>2
    <2>3. k \in Keys(rounds) /\ b[k].status = "pending" /\ b[k].known = Side
        BY <2>2 DEF Tree
    <2> HIDE DEF k
    <2> QED BY <2>1, <2>3, SettleMatchTree
<1> QED BY <1>1, <1>2

\* All of them are settled
LEMMA SettleTree ==
    ASSUME NEW rounds \in Nat \ {0}, NEW b, Tree(b, rounds)
    PROVE  Tree(Settle(b), rounds) /\ Keeps(b, Settle(b))
<1> DEFINE size == 2^RoundsOf(b)
           B == {c \in [Keys(rounds) -> BracketMatch] : Tree(c, rounds) /\ Keeps(b, c)}
           step == [c \in B |-> SettleOne(c)]
           After(f) == f = [i \in 0..size |-> IF i = 0 THEN b ELSE SettleOne(f[i - 1])]
<1>1. size \in Nat /\ b \in [Keys(rounds) -> BracketMatch]
    <2>1. b \in [Keys(rounds) -> BracketMatch]
        BY DEF Tree
    <2>2. RoundsOf(b) = rounds
        BY <2>1, RoundsAre
    <2> QED BY <2>1, <2>2, Power
<1>2. b \in B
    BY <1>1 DEF Keeps
<1>3. ASSUME NEW c \in B PROVE SettleOne(c) \in B
    <2>1. Tree(SettleOne(c), rounds) /\ Keeps(c, SettleOne(c))
        BY <1>3, SettleOneTree
    <2>2. Keeps(b, SettleOne(c))
        <3>1. DOMAIN b = Keys(rounds) /\ DOMAIN c = Keys(rounds) /\ Keeps(b, c)
            BY <1>1, <1>3
        <3> QED BY <2>1, <3>1, KeepsOn
    <2> QED BY <2>1, <2>2 DEF Tree
<1>4. step \in [B -> B]
    BY <1>3
<1>5. \E f : After(f)
    <2>1. PICK f \in [0..size -> B] : Loops(f, size, b, step)
        <3> HIDE DEF size, B, step
        <3> QED BY <1>1, <1>2, <1>4, Loop
    <2>2. \A i \in 0..size : i # 0 => f[i - 1] \in B /\ step[f[i - 1]] = SettleOne(f[i - 1])
        <3>1. \A i \in 0..size : i # 0 => i - 1 \in 0..size
            <4> HIDE DEF size
            <4> QED BY <1>1
        <3> HIDE DEF size, B
        <3> QED BY <3>1
    <2>3. After(f)
        <3> HIDE DEF step, B, size
        <3> QED BY <2>1, <2>2 DEF Loops
    <2> HIDE DEF After
    <2> QED BY <2>3
<1> DEFINE after == CHOOSE f : After(f)
<1>6. Settle(b) = after[size]
    BY DEF Settle
<1>7. After(after)
    <2> HIDE DEF After
    <2> QED BY <1>5
<1> DEFINE T == {i \in 0..size : after[i] \in B}
<1>8. \A i \in 0..size : i \in T
    <2> HIDE DEF after, B, size
    <2>1. 0 \in T
        BY <1>1, <1>2, <1>7
    <2>2. ASSUME NEW i \in 0..size, i < size, i \in T PROVE i + 1 \in T
        <3>1. i + 1 \in 0..size /\ i + 1 # 0 /\ (i + 1) - 1 = i
            BY <1>1, <2>2
        <3>2. after[i + 1] = SettleOne(after[i])
            BY <1>7, <3>1
        <3> QED BY <1>3, <2>2, <3>1, <3>2
    <2> HIDE DEF T
    <2> QED BY <1>1, <2>1, <2>2, UpTo
<1>9. after[size] \in B
    <2> HIDE DEF after, B, size
    <2> QED BY <1>1, <1>8
<1> HIDE DEF after, size
<1> QED BY <1>6, <1>9

-----------------------------------------------------------------------------
\* The bracket that a cup starts with

\* An order of 2^m seeds in which every seed has one place
Orders(m) == {o \in [1..2^m -> 1..2^m] : \A i, j \in 1..2^m : o[i] = o[j] => i = j}

\* Twice as many seeds
LEMMA SpreadIs ==
    ASSUME NEW m \in Nat, NEW o \in Orders(m)
    PROVE  Spread(o) \in Orders(m + 1)
<1> DEFINE p == 2^m
           q == 2^(m + 1)
           d == Spread(o)
<1>1. p \in Nat /\ q = 2 * p
    BY Power
<1>2. o \in [1..p -> 1..p] /\ \A i, j \in 1..p : o[i] = o[j] => i = j
    BY DEF Orders
<1>3. Len(o) = p
    <2> HIDE DEF p
    <2> QED BY <1>1, <1>2
<1>4. d = [i \in 1..(2 * p) |-> IF i % 2 = 1 THEN o[(i + 1) \div 2] ELSE 2 * p + 1 - o[(i + 1) \div 2]]
    <2> HIDE DEF p
    <2> QED BY <1>3 DEF Spread
<1> HIDE DEF p, q, d
<1>5. ASSUME NEW i \in 1..q
      PROVE  /\ (i + 1) \div 2 \in 1..p /\ o[(i + 1) \div 2] \in 1..p
             /\ i % 2 = 1 => d[i] = o[(i + 1) \div 2]
             /\ i % 2 # 1 => d[i] = q + 1 - o[(i + 1) \div 2]
             /\ d[i] \in 1..q
    <2>1. (i + 1) \div 2 \in 1..p
        BY <1>1
    <2>2. o[(i + 1) \div 2] \in 1..p
        BY <1>2, <2>1
    <2>3. d[i] = IF i % 2 = 1 THEN o[(i + 1) \div 2] ELSE q + 1 - o[(i + 1) \div 2]
        BY <1>1, <1>4
    <2> QED BY <1>1, <2>1, <2>2, <2>3
<1>6. d \in [1..q -> 1..q]
    BY <1>1, <1>4, <1>5
<1>7. ASSUME NEW i \in 1..q, NEW j \in 1..q, d[i] = d[j] PROVE i = j
    <2>1. i % 2 = 1 <=> j % 2 = 1
        BY <1>1, <1>5, <1>7
    <2> DEFINE oi == o[(i + 1) \div 2]
               oj == o[(j + 1) \div 2]
    <2>2. oi = oj
        <3>1. oi \in 1..p /\ oj \in 1..p /\ d[i] = d[j]
            BY <1>5, <1>7
        <3>2. CASE i % 2 = 1
            <4>1. d[i] = oi /\ d[j] = oj
                BY <1>5, <2>1, <3>2
            <4> QED BY <1>7, <4>1
        <3>3. CASE i % 2 # 1
            <4>1. d[i] = q + 1 - oi /\ d[j] = q + 1 - oj
                BY <1>5, <2>1, <3>3
            <4>2. q + 1 - oi = q + 1 - oj
                BY <3>1, <4>1
            <4>3. q \in Int /\ oi \in Int /\ oj \in Int
                BY <1>1, <3>1
            <4> HIDE DEF oi, oj
            <4> QED BY <4>2, <4>3
        <3> QED BY <3>2, <3>3
    <2>3. (i + 1) \div 2 = (j + 1) \div 2
        BY <1>2, <1>5, <2>2
    <2> QED BY <1>1, <2>1, <2>3
<1> QED BY <1>6, <1>7 DEF Orders, q, d

\* Every seed has one place in the bracket
LEMMA SeedsArePlaced ==
    ASSUME NEW rounds \in Nat \ {0}
    PROVE  SeedPositions(rounds) \in Orders(rounds)
<1> DEFINE n == rounds - 1
           B == UNION {Orders(m) : m \in Nat}
           step == [o \in B |-> Spread(o)]
           Order(f) == f = [i \in 0..n |-> IF i = 0 THEN <<1, 2>> ELSE Spread(f[i - 1])]
<1>1. n \in Nat
    OBVIOUS
<1>2. <<1, 2>> \in Orders(1)
    <2>1. 2^1 = 2
        <3>1. 2^0 = 1 /\ 2^(0 + 1) = 2 * 2^0 /\ 0 + 1 = 1
            BY PowerPositive, Power
        <3> QED BY <3>1
    <2>2. <<1, 2>> \in [1..2 -> 1..2] /\ \A i, j \in 1..2 : <<1, 2>>[i] = <<1, 2>>[j] => i = j
        OBVIOUS
    <2> QED BY <2>1, <2>2 DEF Orders
<1>3. step \in [B -> B]
    <2>1. ASSUME NEW o \in B PROVE Spread(o) \in B
        <3>1. PICK m \in Nat : o \in Orders(m)
            OBVIOUS
        <3>2. Spread(o) \in Orders(m + 1) /\ m + 1 \in Nat
            BY <3>1, SpreadIs
        <3> QED BY <3>2
    <2> QED BY <2>1
<1>4. \E f : Order(f)
    <2>1. PICK f \in [0..n -> B] : Loops(f, n, <<1, 2>>, step)
        <3>1. <<1, 2>> \in B
            BY <1>2
        <3> HIDE DEF n, B, step
        <3> QED BY <1>1, <1>3, <3>1, Loop
    <2>2. \A i \in 0..n : i # 0 => f[i - 1] \in B /\ step[f[i - 1]] = Spread(f[i - 1])
        <3>1. \A i \in 0..n : i # 0 => i - 1 \in 0..n
            <4> HIDE DEF n
            <4> QED BY <1>1
        <3> HIDE DEF n, B
        <3> QED BY <3>1
    <2>3. Order(f)
        <3> HIDE DEF step, B, n
        <3> QED BY <2>1, <2>2 DEF Loops
    <2> HIDE DEF Order
    <2> QED BY <2>3
<1> DEFINE order == CHOOSE f : Order(f)
<1>5. SeedPositions(rounds) = order[n]
    BY DEF SeedPositions
<1>6. Order(order)
    <2> HIDE DEF Order
    <2> QED BY <1>4
<1> DEFINE T == {i \in 0..n : order[i] \in Orders(i + 1)}
<1>7. \A i \in 0..n : i \in T
    <2> HIDE DEF order, n
    <2>1. 0 \in T
        <3>1. 0 \in 0..n /\ 0 + 1 = 1
            BY <1>1
        <3>2. order[0] = <<1, 2>>
            BY <1>6, <3>1
        <3> QED BY <1>2, <3>1, <3>2
    <2>2. ASSUME NEW i \in 0..n, i < n, i \in T PROVE i + 1 \in T
        <3>1. i + 1 \in 0..n /\ i + 1 # 0 /\ (i + 1) - 1 = i /\ i + 1 \in Nat
            BY <1>1, <2>2
        <3>2. order[i + 1] = Spread(order[i])
            BY <1>6, <3>1
        <3>3. Spread(order[i]) \in Orders((i + 1) + 1)
            BY <2>2, <3>1, SpreadIs
        <3> QED BY <3>1, <3>2, <3>3
    <2> HIDE DEF T
    <2> QED BY <1>1, <2>1, <2>2, UpTo
<1>8. order[n] \in Orders(n + 1) /\ n + 1 = rounds
    <2> HIDE DEF order
    <2>1. n \in 0..n /\ n + 1 = rounds
        OBVIOUS
    <2> QED BY <1>7, <2>1
<1> HIDE DEF order, n
<1> QED BY <1>5, <1>8

\* Two entries or more have a bracket with rounds
LEMMA RoundsForIs ==
    ASSUME NEW n \in Nat, n >= 2
    PROVE  RoundsFor(n) \in Nat \ {0}
<1> DEFINE T == {m \in Nat : 2^m \in Nat /\ 2^m >= m + 1}
<1>1. 0 \in T
    BY PowerPositive
<1>2. ASSUME NEW m \in 0..n, m < n, m \in T PROVE m + 1 \in T
    <2> DEFINE p == 2^m
               q == 2^(m + 1)
    <2>1. p \in Nat /\ q = 2 * p /\ p >= m + 1
        BY <1>2, Power
    <2>2. q \in Nat /\ q >= (m + 1) + 1
        <3> HIDE DEF p, q
        <3> QED BY <2>1
    <2> QED BY <2>2
<1>3. 2^n \in Nat /\ 2^n >= n
    <2>1. n \in T
        <3> HIDE DEF T
        <3> QED BY <1>1, <1>2, UpTo
    <2> DEFINE p == 2^n
    <2>2. p \in Nat /\ p >= n + 1
        BY <2>1
    <2> HIDE DEF p
    <2>3. p >= n
        BY <2>2
    <2> QED BY <2>2, <2>3 DEF p
<1> DEFINE Enough == {r \in 1..n : 2^r >= n}
<1>4. PICK r \in Enough : \A q \in Enough : r <= q
    <2>1. n \in Enough /\ Enough \in SUBSET Nat
        BY <1>3
    <2> HIDE DEF Enough
    <2> QED BY <2>1, Least
<1>5. r \in 1..n /\ 2^r >= n /\ \A q \in 1..n : 2^q >= n => r <= q
    BY <1>4
<1>6. RoundsFor(n) \in 1..n
    BY <1>5 DEF RoundsFor
<1> QED BY <1>6

\* The bracket of two entries or more is a tree, and none of its matches is being started
LEMMA BuildTree ==
    ASSUME NEW entries \in SUBSET Entry, ~(Cardinality(entries) < 2)
    PROVE  /\ \E rounds \in Nat \ {0} : Tree(BuildBracket(entries), rounds)
           /\ \A k \in DOMAIN BuildBracket(entries) : BuildBracket(entries)[k].status # "provisioning"
<1> DEFINE rounds == RoundsFor(Cardinality(entries))
           pos == SeedPositions(rounds)
           At(i) == Seeded(entries, pos[i])
           Place(s) == IF s = "a" THEN 1 ELSE 2
           m(k) == [side |-> [s \in Side |-> IF k[1] = 1 THEN At(2 * k[2] + (IF s = "a" THEN 1 ELSE 2)) ELSE NoEntry],
                    known |-> IF k[1] = 1 THEN Side ELSE {}, status |-> "pending",
                    live |-> NoGame, winner |-> NoEntry, resolution |-> "none"]
           b == [k \in Keys(rounds) |-> m(k)]
<1>1. rounds \in Nat \ {0}
    <2>1. IsFiniteSet(entries)
        BY FS_Subset, BracketAssumption
    <2>2. Cardinality(entries) \in Nat /\ Cardinality(entries) >= 2
        BY <2>1, FS_CardinalityType
    <2> QED BY <2>2, RoundsForIs
<1>2. BuildBracket(entries) = Settle(b)
    BY DEF BuildBracket
<1>3. pos \in Orders(rounds)
    <2> HIDE DEF rounds
    <2> QED BY <1>1, SeedsArePlaced
<1>4. \A i : At(i) \in Entry \cup {NoEntry} /\ (At(i) # NoEntry => SeedOf(entries, At(i)) = pos[i])
    <2> HIDE DEF pos
    <2> QED BY DEF Seeded
<1> HIDE DEF At, pos, rounds
<1>5. ASSUME NEW k \in Keys(rounds)
      PROVE  /\ b[k] \in BracketMatch /\ b[k].status = "pending" /\ b[k].live = NoGame /\ b[k].winner = NoEntry
             /\ b[k].known = IF k[1] = 1 THEN Side ELSE {}
             /\ k[1] # 1 => \A s \in Side : b[k].side[s] = NoEntry
             /\ k[1] = 1 => \A s \in Side : b[k].side[s] = At(2 * k[2] + Place(s))
    <2>1. b[k] = m(k)
        OBVIOUS
    <2>2. m(k).side \in [Side -> Entry \cup {NoEntry}]
        BY <1>4
    <2> QED BY <2>1, <2>2 DEF BracketMatch, Resolution
<1>6. b \in [Keys(rounds) -> BracketMatch]
    <2>1. DOMAIN b = Keys(rounds) /\ b = [k \in Keys(rounds) |-> b[k]]
        OBVIOUS
    <2> HIDE DEF b
    <2> QED BY <1>5, <2>1
<1> HIDE DEF b
<1>7. ASSUME NEW k \in Keys(rounds) PROVE MatchInv(b[k])
    BY <1>5 DEF MatchInv
<1>8. ASSUME NEW k \in Keys(rounds), NEW s \in Side
      PROVE  IF k[1] = 1 THEN s \in b[k].known ELSE FedBy(b[k], s, b[Feeder(k, s)])
    <2>1. CASE k[1] = 1
        BY <1>5, <2>1
    <2>2. CASE k[1] # 1
        <3>1. k[1] > 1
            BY <1>1, <2>2, KeyIs
        <3>2. Feeder(k, s) \in Keys(rounds)
            BY <1>1, <3>1, FeederIs DEF Side
        <3> QED BY <1>5, <2>2, <3>2 DEF FedBy
    <2> QED BY <2>1, <2>2
<1>9. PlacedOnce(b)
    <2> SUFFICES ASSUME NEW k \in Keys(rounds), NEW l \in Keys(rounds), k[1] = 1, l[1] = 1,
                        NEW e \in Sides(b[k]), e \in Sides(b[l]), e # NoEntry
                 PROVE  k = l
        BY <1>6 DEF PlacedOnce
    <2>1. PICK s \in Side : e = b[k].side[s]
        BY DEF Sides
    <2>2. PICK t \in Side : e = b[l].side[t]
        BY DEF Sides
    <2> DEFINE i == 2 * k[2] + Place(s)
               j == 2 * l[2] + Place(t)
               p == 2^rounds
    <2>3. e = At(i) /\ e = At(j)
        BY <1>5, <2>1, <2>2
    <2>4. pos[i] = pos[j]
        <3> HIDE DEF i, j
        <3> QED BY <1>4, <2>3
    <2>5. i \in 1..p /\ j \in 1..p /\ (i = j => k[2] = l[2])
        <3> DEFINE h == 2^(rounds - 1)
        <3>1. rounds - 1 \in Nat /\ (rounds - 1) + 1 = rounds
            BY <1>1
        <3>2. h \in Nat /\ p = 2 * h
            BY <3>1, Power
        <3>3. k[2] \in Nat /\ k[2] < h /\ l[2] \in Nat /\ l[2] < h
            BY <1>1, KeyIs
        <3>4. Place(s) \in 1..2 /\ Place(t) \in 1..2
            OBVIOUS
        <3> HIDE DEF h, p, Place
        <3> QED BY <3>2, <3>3, <3>4
    <2>6. i = j
        <3> HIDE DEF i, j
        <3> QED BY <1>3, <2>4, <2>5 DEF Orders
    <2> QED BY <1>1, <2>5, <2>6, KeyIs
<1>10. Tree(b, rounds)
    BY <1>6, <1>7, <1>8, <1>9 DEF Tree
<1>11. Tree(Settle(b), rounds) /\ Keeps(b, Settle(b))
    BY <1>1, <1>10, SettleTree
<1>12. ASSUME NEW k \in DOMAIN Settle(b) PROVE Settle(b)[k].status # "provisioning"
    <2>1. k \in Keys(rounds) /\ k \in DOMAIN b
        BY <1>6, <1>11 DEF Tree
    <2> QED BY <1>5, <1>11, <2>1 DEF Keeps
<1> QED BY <1>1, <1>2, <1>11, <1>12

-----------------------------------------------------------------------------
\* What a tree says of an entry: one match in each round, and every one before it won

\* Who a match of a later round has won the match before
LEMMA FromFeeder ==
    ASSUME NEW rounds \in Nat \ {0}, NEW b, Tree(b, rounds), NEW k \in Keys(rounds), k[1] > 1,
           NEW s \in Side, b[k].side[s] # NoEntry
    PROVE  /\ Feeder(k, s) \in Keys(rounds) /\ Feeder(k, s)[1] = k[1] - 1
           /\ b[Feeder(k, s)].status = "done" /\ b[Feeder(k, s)].winner = b[k].side[s]
           /\ b[k].side[s] \in Sides(b[Feeder(k, s)])
<1>1. Feeder(k, s) \in Keys(rounds) /\ Feeder(k, s)[1] = k[1] - 1
    BY FeederIs DEF Side
<1>2. FedBy(b[k], s, b[Feeder(k, s)]) /\ MatchInv(b[Feeder(k, s)])
    BY <1>1 DEF Tree
<1>3. b[Feeder(k, s)].status = "done" /\ b[Feeder(k, s)].winner = b[k].side[s]
    BY <1>2 DEF FedBy
<1> QED BY <1>1, <1>2, <1>3 DEF MatchInv

\* In each round an entry has one match
LEMMA OncePerRound ==
    ASSUME NEW rounds \in Nat \ {0}, NEW b, Tree(b, rounds), NEW k \in Keys(rounds), NEW l \in Keys(rounds),
           k[1] = l[1], NEW e, e # NoEntry, e \in Sides(b[k]), e \in Sides(b[l])
    PROVE  k = l
<1> DEFINE Once(r) == \A x, y \in Keys(rounds) :
                         x[1] = r /\ y[1] = r /\ e \in Sides(b[x]) /\ e \in Sides(b[y]) => x = y
           T == {r \in 0..rounds : Once(r)}
<1>1. 0 \in T
    BY KeyIs
<1>2. ASSUME NEW r \in 0..rounds, r < rounds, r \in T PROVE r + 1 \in T
    <2> SUFFICES ASSUME NEW x \in Keys(rounds), NEW y \in Keys(rounds), x[1] = r + 1, y[1] = r + 1,
                        e \in Sides(b[x]), e \in Sides(b[y])
                 PROVE  x = y
        BY <1>2
    <2>1. CASE r = 0
        <3>1. DOMAIN b = Keys(rounds) /\ PlacedOnce(b) /\ x[1] = 1 /\ y[1] = 1
            BY <2>1 DEF Tree
        <3> QED BY <3>1 DEF PlacedOnce
    <2>2. CASE r # 0
        <3>1. x[1] > 1 /\ y[1] > 1 /\ x[1] - 1 = r /\ y[1] - 1 = r
            BY <1>2, <2>2
        <3>2. PICK s \in Side : e = b[x].side[s]
            BY DEF Sides
        <3>3. PICK t \in Side : e = b[y].side[t]
            BY DEF Sides
        <3>4. Feeder(x, s) \in Keys(rounds) /\ Feeder(x, s)[1] = r /\ e \in Sides(b[Feeder(x, s)])
            BY <3>1, <3>2, FromFeeder
        <3>5. Feeder(y, t) \in Keys(rounds) /\ Feeder(y, t)[1] = r /\ e \in Sides(b[Feeder(y, t)])
            BY <3>1, <3>3, FromFeeder
        <3>6. Feeder(x, s) = Feeder(y, t)
            BY <1>2, <3>4, <3>5
        <3>7. x = Up(Feeder(x, s)) /\ y = Up(Feeder(y, t))
            BY <3>1, <3>4, <3>5, FeederUp DEF Side
        <3> QED BY <3>6, <3>7
    <2> QED BY <2>1, <2>2
<1>3. k[1] \in 0..rounds
    BY KeyIs
<1>4. k[1] \in T
    <2> HIDE DEF T
    <2> QED BY <1>1, <1>2, <1>3, UpTo
<1> QED BY <1>4

\* An entry has won every match before the one it is in
LEMMA WonBefore ==
    ASSUME NEW rounds \in Nat \ {0}, NEW b, Tree(b, rounds), NEW k \in Keys(rounds), NEW l \in Keys(rounds),
           k[1] < l[1], NEW e, e # NoEntry, e \in Sides(b[k]), e \in Sides(b[l])
    PROVE  b[k].status = "done" /\ b[k].winner = e
<1> DEFINE Came(d) == \E x \in Keys(rounds) :
                         /\ x[1] = l[1] - d /\ e \in Sides(b[x])
                         /\ d > 0 => b[x].status = "done" /\ b[x].winner = e
           n == l[1] - 1
           T == {d \in 0..n : Came(d)}
<1>1. l[1] \in Nat /\ k[1] \in Nat /\ l[1] >= 1 /\ k[1] >= 1 /\ n \in Nat
    BY KeyIs
<1>2. 0 \in T
    <2>1. Came(0)
        BY <1>1
    <2> QED BY <1>1, <2>1
<1>3. ASSUME NEW d \in 0..n, d < n, d \in T PROVE d + 1 \in T
    <2>1. PICK x \in Keys(rounds) : x[1] = l[1] - d /\ e \in Sides(b[x])
        BY <1>3
    <2>2. x[1] > 1 /\ x[1] - 1 = l[1] - (d + 1)
        BY <1>1, <1>3, <2>1
    <2>3. PICK s \in Side : e = b[x].side[s]
        BY <2>1 DEF Sides
    <2> DEFINE f == Feeder(x, s)
    <2>4. f \in Keys(rounds) /\ f[1] = x[1] - 1 /\ b[f].status = "done" /\ b[f].winner = e /\ e \in Sides(b[f])
        BY <2>2, <2>3, FromFeeder
    <2>5. Came(d + 1)
        <3> HIDE DEF f
        <3> QED BY <2>2, <2>4
    <2> QED BY <1>1, <1>3, <2>5
<1>4. l[1] - k[1] \in T
    <2>1. l[1] - k[1] \in 0..n
        BY <1>1
    <2> HIDE DEF T, n
    <2> QED BY <1>1, <1>2, <1>3, <2>1, UpTo
<1>5. PICK x \in Keys(rounds) : x[1] = k[1] /\ e \in Sides(b[x]) /\ b[x].status = "done" /\ b[x].winner = e
    <2>1. PICK x \in Keys(rounds) : /\ x[1] = l[1] - (l[1] - k[1]) /\ e \in Sides(b[x])
                                    /\ l[1] - k[1] > 0 => b[x].status = "done" /\ b[x].winner = e
        BY <1>4
    <2> QED BY <1>1, <2>1
<1> QED BY <1>5, OncePerRound

\* Once the final is over, so is every match
LEMMA DoneBelow ==
    ASSUME NEW rounds \in Nat \ {0}, NEW b, Tree(b, rounds), IsComplete(b), NEW k \in Keys(rounds)
    PROVE  b[k].status = "done"
<1> DEFINE n == rounds - 1
           AllOver(d) == \A x \in Keys(rounds) : x[1] = rounds - d => b[x].status = "done"
           T == {d \in 0..n : AllOver(d)}
<1>1. 0 \in T
    <2>1. DOMAIN b = Keys(rounds)
        BY DEF Tree
    <2>2. b[<<rounds, 0>>].status = "done"
        BY <2>1, RoundsAre DEF IsComplete
    <2>3. AllOver(0)
        BY <2>2, Final
    <2> QED BY <2>3
<1>2. ASSUME NEW d \in 0..n, d < n, d \in T PROVE d + 1 \in T
    <2>1. ASSUME NEW x \in Keys(rounds), x[1] = rounds - (d + 1) PROVE b[x].status = "done"
        <3>1. x[1] < rounds /\ x[1] >= 1 /\ x[1] \in Nat /\ x[1] + 1 = rounds - d
            BY <1>2, <2>1, KeyIs
        <3> DEFINE u == Up(x)
                   s == SideUp(x)
        <3>2. u \in Keys(rounds) /\ u[1] = x[1] + 1 /\ s \in Side
            BY <3>1, UpIs DEF Side
        <3>3. Feeder(u, s) = x
            <4>1. u[1] > 1 /\ s \in {"a", "b"}
                BY <3>1, <3>2 DEF Side
            <4> QED BY <3>2, <4>1, FeederUp
        <3>4. b[u].status = "done"
            <4> HIDE DEF u
            <4> QED BY <1>2, <3>1, <3>2
        <3>5. MatchInv(b[u]) /\ FedBy(b[u], s, b[x])
            <4>1. u[1] # 1
                BY <3>1, <3>2
            <4> HIDE DEF u, s
            <4> QED BY <3>2, <3>3, <4>1 DEF Tree
        <3> HIDE DEF u, s
        <3> QED BY <3>2, <3>4, <3>5 DEF MatchInv, FedBy
    <2> QED BY <1>2, <2>1
<1>3. \A d \in 0..n : d \in T
    <2>1. n \in Nat
        OBVIOUS
    <2> HIDE DEF T, n
    <2> QED BY <1>1, <1>2, <2>1, UpTo
<1>4. rounds - k[1] \in 0..n /\ k[1] = rounds - (rounds - k[1])
    BY KeyIs
<1>5. rounds - k[1] \in T
    <2> HIDE DEF T, n
    <2> QED BY <1>3, <1>4
<1> QED BY <1>4, <1>5

-----------------------------------------------------------------------------
\* The match that a placement is for is the last that its entry is in
LEMMA PlacementIs ==
    ASSUME NEW rounds \in Nat \ {0}, NEW b, Tree(b, rounds), NEW p \in Placements(b)
    PROVE  /\ p = <<p[1], p[2]>> /\ p[1] # NoEntry
           /\ \E k \in Keys(rounds) :
                /\ p[1] \in Sides(b[k])
                /\ \A l \in Keys(rounds) : p[1] \in Sides(b[l]) => l = k \/ l[1] < k[1]
                /\ \/ p[2] = "champion" /\ k = <<rounds, 0>> /\ b[k].winner = p[1]
                   \/ /\ b[k].winner # p[1] /\ b[k].resolution \notin {"forfeit", "disqualified"}
                      /\ \/ p[2] = "runner_up" /\ k = <<rounds, 0>>
                         \/ p[2] = "semifinalist" /\ k # <<rounds, 0>>
<1> DEFINE final == <<rounds, 0>>
<1>1. DOMAIN b = Keys(rounds) /\ FinalKey(b) = final
    <2>1. DOMAIN b = Keys(rounds)
        BY DEF Tree
    <2> QED BY <2>1, RoundsAre
<1>2. final \in Keys(rounds) /\ \A l \in Keys(rounds) : l = final \/ l[1] < final[1]
    <2>1. final[1] = rounds
        OBVIOUS
    <2>2. ASSUME NEW l \in Keys(rounds) PROVE l = final \/ l[1] < rounds
        <3>1. l[1] = rounds => l = <<rounds, 0>>
            BY Final
        <3>2. l[1] \in 1..rounds
            BY KeyIs
        <3> QED BY <3>1, <3>2
    <2> HIDE DEF final
    <2> QED BY <2>1, <2>2, Final DEF final
<1> HIDE DEF final
<1>3. \/ p[2] = "champion" /\ p = <<p[1], p[2]>> /\ p[1] = b[final].winner /\ p[1] # NoEntry
      \/ p[2] = "runner_up" /\ p = <<p[1], p[2]>> /\ p[1] \in LoserOf(b[final])
      \/ /\ p[2] = "semifinalist" /\ p = <<p[1], p[2]>>
         /\ \E k \in Keys(rounds) : k[1] = final[1] - 1 /\ p[1] \in LoserOf(b[k])
    BY <1>1 DEF Placements
<1>4. ASSUME NEW k \in Keys(rounds), p[1] \in LoserOf(b[k])
      PROVE  /\ p[1] \in Sides(b[k]) /\ p[1] # NoEntry /\ p[1] # b[k].winner
             /\ b[k].resolution \notin {"forfeit", "disqualified"}
    BY <1>4 DEF LoserOf, Sides
<1>5. CASE p[2] = "champion" /\ p = <<p[1], p[2]>> /\ p[1] = b[final].winner /\ p[1] # NoEntry
    <2>1. MatchInv(b[final])
        BY <1>2 DEF Tree
    <2>2. p[1] \in Sides(b[final])
        BY <1>5, <2>1 DEF MatchInv
    <2> QED BY <1>2, <1>5, <2>2 DEF final
<1>6. CASE p[2] = "runner_up" /\ p = <<p[1], p[2]>> /\ p[1] \in LoserOf(b[final])
    <2>1. /\ p[1] \in Sides(b[final]) /\ p[1] # NoEntry /\ p[1] # b[final].winner
          /\ b[final].resolution \notin {"forfeit", "disqualified"}
        BY <1>2, <1>4, <1>6
    <2> QED BY <1>2, <1>6, <2>1 DEF final
<1>7. CASE /\ p[2] = "semifinalist" /\ p = <<p[1], p[2]>>
           /\ \E k \in Keys(rounds) : k[1] = final[1] - 1 /\ p[1] \in LoserOf(b[k])
    <2>1. PICK k \in Keys(rounds) : k[1] = final[1] - 1 /\ p[1] \in LoserOf(b[k])
        BY <1>7
    <2>2. /\ p[1] \in Sides(b[k]) /\ p[1] # NoEntry /\ p[1] # b[k].winner
          /\ b[k].resolution \notin {"forfeit", "disqualified"}
        BY <1>4, <2>1
    <2>3. k[1] \in Nat /\ final[1] = rounds /\ k[1] < rounds
        BY <2>1, KeyIs DEF final
    <2>4. ASSUME NEW l \in Keys(rounds), p[1] \in Sides(b[l]) PROVE l = k \/ l[1] < k[1]
        <3>1. CASE k[1] < l[1]
            <4> DEFINE e == p[1]
            <4>1. e # NoEntry /\ e \in Sides(b[k]) /\ e \in Sides(b[l]) /\ e # b[k].winner
                BY <2>2, <2>4
            <4> HIDE DEF e
            <4>2. b[k].winner = e
                BY <3>1, <4>1, WonBefore
            <4> QED BY <4>1, <4>2
        <3>2. CASE l[1] = k[1]
            BY <2>2, <2>4, <3>2, OncePerRound
        <3>3. l[1] \in Nat
            BY KeyIs
        <3> QED BY <2>3, <3>1, <3>2, <3>3
    <2>5. k # final
        BY <2>3
    <2> QED BY <1>7, <2>2, <2>4, <2>5 DEF final
<1> QED BY <1>3, <1>5, <1>6, <1>7

\* One placement for each
LEMMA PlacedAtMostOnce ==
    ASSUME NEW rounds \in Nat \ {0}, NEW b, Tree(b, rounds), NEW p \in Placements(b), NEW q \in Placements(b), p[1] = q[1]
    PROVE  p = q
<1>1. PICK k \in Keys(rounds) :
                /\ p[1] \in Sides(b[k])
                /\ \A l \in Keys(rounds) : p[1] \in Sides(b[l]) => l = k \/ l[1] < k[1]
                /\ \/ p[2] = "champion" /\ k = <<rounds, 0>> /\ b[k].winner = p[1]
                   \/ /\ b[k].winner # p[1] /\ b[k].resolution \notin {"forfeit", "disqualified"}
                      /\ \/ p[2] = "runner_up" /\ k = <<rounds, 0>>
                         \/ p[2] = "semifinalist" /\ k # <<rounds, 0>>
    BY PlacementIs
<1>2. PICK l \in Keys(rounds) :
                /\ q[1] \in Sides(b[l])
                /\ \A x \in Keys(rounds) : q[1] \in Sides(b[x]) => x = l \/ x[1] < l[1]
                /\ \/ q[2] = "champion" /\ l = <<rounds, 0>> /\ b[l].winner = q[1]
                   \/ /\ b[l].winner # q[1] /\ b[l].resolution \notin {"forfeit", "disqualified"}
                      /\ \/ q[2] = "runner_up" /\ l = <<rounds, 0>>
                         \/ q[2] = "semifinalist" /\ l # <<rounds, 0>>
    BY PlacementIs
<1>3. k = l
    <2>1. k[1] \in Nat /\ l[1] \in Nat
        BY KeyIs
    <2>2. l = k \/ l[1] < k[1]
        BY <1>1, <1>2
    <2>3. k = l \/ k[1] < l[1]
        BY <1>1, <1>2
    <2> QED BY <2>1, <2>2, <2>3
<1>4. p[2] = q[2]
    BY <1>1, <1>2, <1>3
<1> QED BY <1>4, PlacementIs

-----------------------------------------------------------------------------
\* The invariant of the cup, and the operations on its bracket

\* A cup that runs has a bracket
StatusInv ==
    /\ cup \in {"open", "running", "completed", "cancelled"}
    /\ cup = "open" => bracket = <<>>
    /\ cup \in {"running", "completed"} => bracket # <<>>

BracketInv == bracket = <<>> \/ \E rounds \in Nat \ {0} : Tree(bracket, rounds)

\* A bracket match has a claim exactly while it is provisioning
ClaimInv ==
    /\ DOMAIN claim \subseteq DOMAIN bracket
    /\ \A k \in DOMAIN bracket : bracket[k].status = "provisioning" <=> k \in DOMAIN claim

GameInv == game \in [Game -> [key : DOMAIN bracket \cup {<<>>}, status : {"none", "on", "over"}]]

\* What is under way is about matches of the cup, and a result about one that is over
JobInv ==
    /\ \A j \in starts : /\ j = [key |-> j.key, claim |-> j.claim, game |-> j.game]
                         /\ j.key \in DOMAIN bracket /\ j.game \in Game \cup {NoGame}
    /\ stops \subseteq Game
    /\ \A r \in results : /\ r.game \in Game /\ game[r.game].status = "over"
                          /\ r.side \in Side \cup {Level} /\ r.absent \subseteq Side
    /\ crashes \in Nat

\* Badges are placements of a bracket that is over
BadgeInv ==
    /\ cup # "completed" => badges = {}
    /\ cup = "completed" => IsComplete(bracket) /\ badges \subseteq Placements(bracket)

IInv == StatusInv /\ BracketInv /\ ClaimInv /\ GameInv /\ JobInv /\ BadgeInv /\ NoGameForNothing

\* What no step may undo
DoneKept == \A k \in DOMAIN bracket : bracket[k].status = "done" => bracket'[k] = bracket[k]

-----------------------------------------------------------------------------
\* A match that is over is decided, and what is settled then leaves the others alone
LEMMA DecidedTree ==
    ASSUME NEW rounds \in Nat \ {0}, NEW b, Tree(b, rounds), NEW k \in Keys(rounds), b[k].status \in OpenStatuses,
           NEW w \in Sides(b[k]) \cup {NoEntry}, NEW res \in Resolution
    PROVE  /\ Tree(Settle(Finish(b, k, w, res)), rounds)
           /\ KeepsBut(b, Settle(Finish(b, k, w, res)), k)
           /\ Settle(Finish(b, k, w, res))[k].status = "done"
<1> DEFINE c == Finish(b, k, w, res)
           d == Settle(c)
<1>1. b[k].known = Side /\ b[k].status # "done"
    <2>1. MatchInv(b[k])
        BY DEF Tree
    <2> QED BY <2>1 DEF MatchInv, OpenStatuses
<1>2. Tree(c, rounds) /\ c[k].status = "done" /\ KeepsBut(b, c, k)
    BY <1>1, FinishTree
<1> HIDE DEF c
<1>3. Tree(d, rounds) /\ Keeps(c, d)
    BY <1>2, SettleTree
<1> HIDE DEF d
<1>4. DOMAIN b = Keys(rounds) /\ DOMAIN c = Keys(rounds)
    BY <1>2 DEF Tree
<1>5. d[k].status = "done"
    BY <1>2, <1>3, <1>4 DEF Keeps
<1>6. KeepsBut(b, d, k)
    <2> SUFFICES ASSUME NEW l \in Keys(rounds), l # k
                 PROVE  /\ b[l].status \in {"done", "provisioning", "live"} => d[l] = b[l]
                        /\ d[l].status \in {"provisioning", "live"} => d[l] = b[l]
        BY <1>4 DEF KeepsBut
    <2>1. /\ b[l].status \in {"done", "provisioning", "live"} => c[l] = b[l]
          /\ c[l].status \in {"provisioning", "live"} => c[l] = b[l]
        BY <1>2, <1>4 DEF KeepsBut
    <2>2. /\ c[l].status \in {"done", "provisioning", "live"} => d[l] = c[l]
          /\ d[l].status \in {"provisioning", "live"} => d[l] = c[l]
        BY <1>3, <1>4 DEF Keeps
    <2> QED BY <2>1, <2>2
<1> QED BY <1>3, <1>5, <1>6 DEF c, d

\* Match k is decided, and the others that are under way or over are left alone
Decided(b, c, rounds, k) == Tree(c, rounds) /\ KeepsBut(b, c, k) /\ c[k].status = "done"

\* The operations of bracket.ts that end a match do that
LEMMA OperationsDecide ==
    ASSUME NEW rounds \in Nat \ {0}, NEW b, Tree(b, rounds), NEW k \in Keys(rounds), b[k].status \in OpenStatuses
    PROVE  /\ \A s \in Side : /\ Decided(b, RecordGame(b, k, s), rounds, k)
                              /\ Decided(b, Disqualify(b, k, s), rounds, k)
                              /\ Decided(b, Decide(b, k, s), rounds, k)
           /\ \A losers \in SUBSET Side : losers # {} => Decided(b, Forfeit(b, k, losers), rounds, k)
<1>1. ASSUME NEW w \in Sides(b[k]) \cup {NoEntry}, NEW res \in Resolution
      PROVE  Decided(b, Settle(Finish(b, k, w, res)), rounds, k)
    BY DecidedTree DEF Decided
<1>2. \A s \in Side : b[k].side[s] \in Sides(b[k])
    BY DEF Sides
<1>3. {"played", "disqualified", "admin_decision", "forfeit", "double_forfeit"} \subseteq Resolution
    BY DEF Resolution
<1>4. ASSUME NEW s \in Side
      PROVE  /\ Decided(b, RecordGame(b, k, s), rounds, k)
             /\ Decided(b, Disqualify(b, k, s), rounds, k)
             /\ Decided(b, Decide(b, k, s), rounds, k)
    <2>1. Other(s) \in Side
        BY DEF Other, Side
    <2>2. Decided(b, RecordGame(b, k, s), rounds, k)
        BY <1>1, <1>2, <1>3 DEF RecordGame
    <2>3. Decided(b, Disqualify(b, k, s), rounds, k)
        BY <1>1, <1>2, <1>3, <2>1 DEF Disqualify
    <2>4. Decided(b, Decide(b, k, s), rounds, k)
        BY <1>1, <1>2, <1>3 DEF Decide
    <2> QED BY <2>2, <2>3, <2>4
<1>5. ASSUME NEW losers \in SUBSET Side, losers # {}
      PROVE  Decided(b, Forfeit(b, k, losers), rounds, k)
    <2>1. CASE losers = Side
        BY <1>1, <1>3, <2>1 DEF Forfeit
    <2>2. CASE losers # Side
        <3> DEFINE s == CHOOSE s \in Side \ losers : TRUE
        <3>1. s \in Side
            BY <2>2
        <3>2. Forfeit(b, k, losers) = Settle(Finish(b, k, b[k].side[s], "forfeit"))
            BY <2>2 DEF Forfeit
        <3> HIDE DEF s
        <3> QED BY <1>1, <1>2, <1>3, <3>1, <3>2
    <2> QED BY <2>1, <2>2
<1> QED BY <1>4, <1>5

\* A ready match with a disqualified side is decided
LEMMA SweepOneTree ==
    ASSUME NEW rounds \in Nat \ {0}, NEW b, Tree(b, rounds)
    PROVE  Tree(SweepOne(b), rounds) /\ Keeps(b, SweepOne(b))
<1> DEFINE lost == {k \in PlayableMatches(b) : \E s \in Side : Out(b[k].side[s])}
<1>1. CASE lost = {}
    <2>1. SweepOne(b) = b
        BY <1>1 DEF SweepOne
    <2> QED BY <2>1 DEF Keeps
<1>2. CASE lost # {}
    <2> DEFINE k == CHOOSE k \in lost : TRUE
               out == {s \in Side : Out(b[k].side[s])}
               c == SweepMatch(b, k)
    <2>1. SweepOne(b) = c
        BY <1>2 DEF SweepOne
    <2>2. k \in lost
        BY <1>2
    <2>3. k \in Keys(rounds) /\ b[k].status = "ready" /\ b[k].status \in OpenStatuses /\ out # {}
        BY <2>2 DEF PlayableMatches, Tree, OpenStatuses
    <2> HIDE DEF k
    <2>4. Decided(b, c, rounds, k)
        <3>1. CASE out = Side
            <4>1. c = Forfeit(b, k, Side)
                BY <3>1 DEF SweepMatch
            <4>2. Side # {} /\ Side \in SUBSET Side
                BY DEF Side
            <4> QED BY <2>3, <4>1, <4>2, OperationsDecide
        <3>2. CASE out # Side
            <4> DEFINE s == CHOOSE s \in out : TRUE
            <4>1. c = Disqualify(b, k, s)
                BY <3>2 DEF SweepMatch
            <4>2. s \in Side
                BY <2>3
            <4> HIDE DEF s, c
            <4> QED BY <2>3, <4>1, <4>2, OperationsDecide
        <3> QED BY <3>1, <3>2
    <2> HIDE DEF c
    <2>5. Keeps(b, c)
        BY <2>3, <2>4 DEF Decided, Keeps, KeepsBut
    <2> QED BY <2>1, <2>4, <2>5 DEF Decided
<1> QED BY <1>1, <1>2

\* All of them are
LEMMA SweepTree ==
    ASSUME NEW rounds \in Nat \ {0}, NEW b, Tree(b, rounds)
    PROVE  Tree(SweepDisqualified(b), rounds) /\ Keeps(b, SweepDisqualified(b))
<1> DEFINE size == 2^RoundsOf(b)
           B == {c \in [Keys(rounds) -> BracketMatch] : Tree(c, rounds) /\ Keeps(b, c)}
           step == [c \in B |-> SweepOne(c)]
           After(f) == f = [i \in 0..size |-> IF i = 0 THEN b ELSE SweepOne(f[i - 1])]
<1>1. size \in Nat /\ b \in [Keys(rounds) -> BracketMatch]
    <2>1. b \in [Keys(rounds) -> BracketMatch]
        BY DEF Tree
    <2>2. RoundsOf(b) = rounds
        BY <2>1, RoundsAre
    <2> QED BY <2>1, <2>2, Power
<1>2. b \in B
    BY <1>1 DEF Keeps
<1>3. ASSUME NEW c \in B PROVE SweepOne(c) \in B
    <2>1. Tree(SweepOne(c), rounds) /\ Keeps(c, SweepOne(c))
        BY <1>3, SweepOneTree
    <2>2. Keeps(b, SweepOne(c))
        <3>1. DOMAIN b = Keys(rounds) /\ DOMAIN c = Keys(rounds) /\ Keeps(b, c)
            BY <1>1, <1>3
        <3> QED BY <2>1, <3>1, KeepsOn
    <2> QED BY <2>1, <2>2 DEF Tree
<1>4. step \in [B -> B]
    BY <1>3
<1>5. \E f : After(f)
    <2>1. PICK f \in [0..size -> B] : Loops(f, size, b, step)
        <3> HIDE DEF size, B, step
        <3> QED BY <1>1, <1>2, <1>4, Loop
    <2>2. \A i \in 0..size : i # 0 => f[i - 1] \in B /\ step[f[i - 1]] = SweepOne(f[i - 1])
        <3>1. \A i \in 0..size : i # 0 => i - 1 \in 0..size
            <4> HIDE DEF size
            <4> QED BY <1>1
        <3> HIDE DEF size, B
        <3> QED BY <3>1
    <2>3. After(f)
        <3> HIDE DEF step, B, size
        <3> QED BY <2>1, <2>2 DEF Loops
    <2> HIDE DEF After
    <2> QED BY <2>3
<1> DEFINE after == CHOOSE f : After(f)
<1>6. SweepDisqualified(b) = after[size]
    BY DEF SweepDisqualified
<1>7. After(after)
    <2> HIDE DEF After
    <2> QED BY <1>5
<1> DEFINE T == {i \in 0..size : after[i] \in B}
<1>8. \A i \in 0..size : i \in T
    <2> HIDE DEF after, B, size
    <2>1. 0 \in T
        BY <1>1, <1>2, <1>7
    <2>2. ASSUME NEW i \in 0..size, i < size, i \in T PROVE i + 1 \in T
        <3>1. i + 1 \in 0..size /\ i + 1 # 0 /\ (i + 1) - 1 = i
            BY <1>1, <2>2
        <3>2. after[i + 1] = SweepOne(after[i])
            BY <1>7, <3>1
        <3> QED BY <1>3, <2>2, <3>1, <3>2
    <2> HIDE DEF T
    <2> QED BY <1>1, <2>1, <2>2, UpTo
<1>9. after[size] \in B
    <2> HIDE DEF after, B, size
    <2> QED BY <1>1, <1>8
<1> HIDE DEF after, size
<1> QED BY <1>6, <1>9

-----------------------------------------------------------------------------
\* The first steps: sign-up, the start, and the matches that begin and end

\* A tree is not the empty bracket
LEMMA TreeNotEmpty ==
    ASSUME NEW rounds \in Nat \ {0}, NEW b, Tree(b, rounds)
    PROVE  b # <<>> /\ DOMAIN b = Keys(rounds)
<1>1. DOMAIN b = Keys(rounds) /\ <<rounds, 0>> \in DOMAIN b
    BY Final DEF Tree
<1>2. DOMAIN <<>> = {}
    OBVIOUS
<1> QED BY <1>1, <1>2

\* The rounds of a bracket that is not empty
LEMMA HasRounds ==
    ASSUME BracketInv, DOMAIN bracket # {}
    PROVE  \E rounds \in Nat \ {0} : Tree(bracket, rounds)
<1>1. bracket # <<>>
    <2>1. DOMAIN <<>> = {}
        OBVIOUS
    <2> QED BY <2>1
<1> QED BY <1>1 DEF BracketInv

\* A match of the bracket that names a game is live, and under way in the bracket
LEMMA LiveIs ==
    ASSUME BracketInv, NEW k \in DOMAIN bracket
    PROVE  /\ bracket[k].live \in Game \cup {NoGame}
           /\ bracket[k].status = "live" <=> bracket[k].live # NoGame
           /\ \A g \in Game : bracket[k].live = g => bracket[k].status = "live"
<1>1. PICK rounds \in Nat \ {0} : Tree(bracket, rounds)
    BY HasRounds
<1>2. k \in Keys(rounds)
    BY <1>1, TreeNotEmpty
<1>3. bracket[k] \in BracketMatch /\ MatchInv(bracket[k])
    BY <1>1, <1>2 DEF Tree
<1> QED BY <1>3, BracketAssumption DEF BracketMatch, MatchInv

-----------------------------------------------------------------------------
\* A cup that is open has none of it
LEMMA InitInv == Init => IInv
<1> SUFFICES ASSUME Init PROVE IInv
    OBVIOUS
<1> USE DEF Init
<1>1. DOMAIN <<>> = {}
    OBVIOUS
<1>2. StatusInv /\ BracketInv
    BY DEF StatusInv, BracketInv
<1>3. ClaimInv
    BY <1>1 DEF ClaimInv
<1>4. GameInv
    BY DEF GameInv, NoMatch
<1>5. JobInv /\ BadgeInv
    BY DEF JobInv, BadgeInv
<1>6. NoGameForNothing
    BY DEF NoGameForNothing, On, NoMatch
<1> QED BY <1>2, <1>3, <1>4, <1>5, <1>6 DEF IInv

\* Steps that touch nothing the invariant is about
LEMMA NothingKeeps ==
    ASSUME IInv, UNCHANGED <<cup, bracket, claim, badges, game, starts, stops, results, crashes>>
    PROVE  IInv' /\ DoneKept
<1>1. StatusInv' /\ BracketInv'
    BY DEF IInv, StatusInv, BracketInv
<1>2. ClaimInv' /\ GameInv'
    BY DEF IInv, ClaimInv, GameInv
<1>3. JobInv'
    BY DEF IInv, JobInv
<1>4. BadgeInv'
    BY DEF IInv, BadgeInv
<1>5. NoGameForNothing'
    BY DEF IInv, NoGameForNothing, On, LiveKeys
<1> QED BY <1>1, <1>2, <1>3, <1>4, <1>5 DEF IInv, DoneKept

\* The cup starts with a bracket, or is cancelled
LEMMA StartKeeps ==
    ASSUME IInv, NEW untrusted \in SUBSET In, Start(untrusted)
    PROVE  IInv' /\ DoneKept
<1>1. /\ cup = "open" /\ bracket = <<>> /\ badges = {}
      /\ UNCHANGED <<claim, badges, game, starts, stops, results, crashes>>
    BY DEF Start, IInv, StatusInv, BadgeInv, jobVars, counts
<1>2. DOMAIN bracket = {} /\ DOMAIN claim = {} /\ starts = {}
    <2>1. DOMAIN <<>> = {}
        OBVIOUS
    <2> QED BY <1>1, <2>1 DEF IInv, ClaimInv, JobInv
<1>3. \/ cup' = "cancelled" /\ bracket' = bracket
      \/ /\ cup' = "running" /\ \E rounds \in Nat \ {0} : Tree(bracket', rounds)
         /\ \A k \in DOMAIN bracket' : bracket'[k].status # "provisioning"
    <2>1. CASE Cardinality(In \ untrusted) < 2
        BY <2>1 DEF Start
    <2>2. CASE ~(Cardinality(In \ untrusted) < 2)
        <3>1. cup' = "running" /\ bracket' = BuildBracket(In \ untrusted)
            BY <2>2 DEF Start
        <3>2. In \ untrusted \in SUBSET Entry
            BY DEF In
        <3>3. \E rounds \in Nat \ {0} : Tree(bracket', rounds)
            BY <2>2, <3>1, <3>2, BuildTree
        <3>4. \A k \in DOMAIN bracket' : bracket'[k].status # "provisioning"
            BY <2>2, <3>1, <3>2, BuildTree
        <3> QED BY <3>1, <3>3, <3>4
    <2> QED BY <2>1, <2>2
<1>4. StatusInv' /\ BracketInv'
    BY <1>1, <1>3, TreeNotEmpty DEF StatusInv, BracketInv
<1>5. ClaimInv'
    BY <1>1, <1>2, <1>3 DEF ClaimInv
<1>6. GameInv'
    BY <1>1, <1>2 DEF IInv, GameInv
<1>7. JobInv' /\ BadgeInv'
    BY <1>1, <1>2, <1>3 DEF IInv, JobInv, BadgeInv
<1>8. NoGameForNothing'
    BY <1>1, <1>2 DEF IInv, NoGameForNothing, On, LiveKeys
<1> QED BY <1>2, <1>4, <1>5, <1>6, <1>7, <1>8 DEF IInv, DoneKept

\* A start has made its match
LEMMA StartMatchKeeps ==
    ASSUME IInv, NEW j \in starts, StartMatch(j)
    PROVE  IInv' /\ DoneKept
<1> DEFINE g == CHOOSE g \in Unused : TRUE
           n == [j EXCEPT !.game = g]
<1>1. /\ j.game = NoGame /\ g \in Unused
      /\ game' = [game EXCEPT ![g] = [key |-> j.key, status |-> "on"]]
      /\ starts' = (starts \ {j}) \cup {n}
      /\ UNCHANGED <<cup, bracket, claim, badges, stops, results, crashes>>
    BY DEF StartMatch, cupVars, counts
<1>2. g \in Game /\ game[g].status = "none"
    BY <1>1 DEF Unused
<1>3. j = [key |-> j.key, claim |-> j.claim, game |-> j.game] /\ j.key \in DOMAIN bracket
    BY DEF IInv, JobInv
<1> HIDE DEF g
<1>4. n.key = j.key /\ n.game = g /\ n = [key |-> n.key, claim |-> n.claim, game |-> n.game]
    BY <1>3
<1> HIDE DEF n
<1>5. StatusInv' /\ BracketInv' /\ ClaimInv' /\ BadgeInv'
    BY <1>1 DEF IInv, StatusInv, BracketInv, ClaimInv, BadgeInv
<1>6. GameInv' /\ \A h \in Game : h # g => game'[h] = game[h]
    BY <1>1, <1>2, <1>3 DEF IInv, GameInv
<1>7. JobInv'
    <2>1. \A r \in results : r.game # g
        BY <1>2 DEF IInv, JobInv
    <2> QED BY <1>1, <1>2, <1>3, <1>4, <1>6, <2>1 DEF IInv, JobInv
<1>8. NoGameForNothing'
    <2> SUFFICES ASSUME crashes = 0, cup # "cancelled", NEW h \in Game, On(h)'
                 PROVE  h \in stops \/ LiveKeys(h) # {} \/ \E x \in starts' : x.game = h
        BY <1>1 DEF NoGameForNothing, LiveKeys
    <2>1. CASE h = g
        BY <1>1, <1>4, <2>1
    <2>2. CASE h # g
        <3>1. On(h)
            BY <1>6, <2>2 DEF On
        <3>2. h \in stops \/ LiveKeys(h) # {} \/ \E x \in starts : x.game = h
            BY <3>1 DEF IInv, NoGameForNothing
        <3>3. h # NoGame
            BY BracketAssumption
        <3> QED BY <1>1, <3>2, <3>3
    <2> QED BY <2>1, <2>2
<1> QED BY <1>1, <1>5, <1>6, <1>7, <1>8 DEF IInv, DoneKept

\* A match is over and its result on its way
LEMMA OverKeeps ==
    ASSUME IInv, NEW g \in Game, On(g), NEW outcome, NEW side \in Side \cup {Level}, NEW absent \in SUBSET Side,
           Over(g, outcome, side, absent), stops' = stops \/ stops' = stops \ {g},
           UNCHANGED <<cup, bracket, claim, badges, starts, crashes>>
    PROVE  IInv' /\ DoneKept
<1> DEFINE r == [game |-> g, outcome |-> outcome, side |-> side, absent |-> absent]
<1>1. game' = [game EXCEPT ![g].status = "over"] /\ results' = results \cup {r}
    BY DEF Over
<1>2. r.game = g /\ r.side = side /\ r.absent = absent
    OBVIOUS
<1> HIDE DEF r
<1>3. /\ GameInv' /\ game'[g].status = "over" /\ \A h \in Game : h # g => game'[h] = game[h]
      /\ ~On(g)'
    BY <1>1 DEF IInv, GameInv, On
<1>4. StatusInv' /\ BracketInv' /\ ClaimInv' /\ BadgeInv'
    BY DEF IInv, StatusInv, BracketInv, ClaimInv, BadgeInv
<1>5. JobInv'
    <2>1. \A x \in results : x.game \in Game /\ game'[x.game].status = "over"
        BY <1>3 DEF IInv, JobInv
    <2> QED BY <1>1, <1>2, <1>3, <2>1 DEF IInv, JobInv
<1>6. NoGameForNothing'
    BY <1>3 DEF IInv, NoGameForNothing, On, LiveKeys
<1> QED BY <1>3, <1>4, <1>5, <1>6 DEF IInv, DoneKept

-----------------------------------------------------------------------------
\* What results, starts and admins do to a bracket match

\* One match of the bracket gets another status that is not over
Reopened(b, k, status, live) == [b EXCEPT ![k] = [b[k] EXCEPT !.status = status, !.live = live]]

\* It stays a tree
LEMMA ReopenTree ==
    ASSUME NEW rounds \in Nat \ {0}, NEW b, Tree(b, rounds), NEW k \in Keys(rounds), b[k].status \in OpenStatuses,
           NEW status \in OpenStatuses, NEW live \in Game \cup {NoGame}, status = "live" <=> live # NoGame
    PROVE  /\ Tree(Reopened(b, k, status, live), rounds) /\ KeepsBut(b, Reopened(b, k, status, live), k)
           /\ Reopened(b, k, status, live)[k].status = status /\ Reopened(b, k, status, live)[k].live = live
<1> DEFINE c == Reopened(b, k, status, live)
           m == [b[k] EXCEPT !.status = status, !.live = live]
<1>1. b \in [Keys(rounds) -> BracketMatch] /\ b[k] \in BracketMatch /\ MatchInv(b[k])
    BY DEF Tree
<1>2. /\ m \in BracketMatch /\ m.status = status /\ m.live = live
      /\ m.side = b[k].side /\ m.known = b[k].known /\ m.winner = b[k].winner
    BY <1>1 DEF BracketMatch
<1>3. c = [b EXCEPT ![k] = m]
    BY DEF Reopened
<1> HIDE DEF m, c
<1>4. c \in [Keys(rounds) -> BracketMatch] /\ c[k] = m /\ \A l \in Keys(rounds) : l # k => c[l] = b[l]
    BY <1>1, <1>2, <1>3
<1>5. MatchInv(m)
    BY <1>1, <1>2 DEF MatchInv, Sides, OpenStatuses
<1>6. Opened(b[k], m)
    BY <1>2, <1>5 DEF Opened, OpenStatuses
<1>7. Tree(c, rounds)
    <2>1. \A l \in Keys(rounds) : Opened(b[l], c[l])
        BY <1>4, <1>6 DEF Opened
    <2> QED BY <1>4, <2>1, OpenTree
<1>8. KeepsBut(b, c, k)
    BY <1>1, <1>4 DEF KeepsBut
<1> QED BY <1>2, <1>4, <1>7, <1>8 DEF c

\* Giving a match back is of that kind
LEMMA CancelTree ==
    ASSUME NEW rounds \in Nat \ {0}, NEW b, Tree(b, rounds), NEW k \in Keys(rounds), b[k].status \in OpenStatuses
    PROVE  /\ Tree(CancelGame(b, k), rounds) /\ KeepsBut(b, CancelGame(b, k), k)
           /\ CancelGame(b, k)[k].status = "ready"
<1>1. b \in [Keys(rounds) -> BracketMatch]
    BY DEF Tree
<1>2. CancelGame(b, k) = Reopened(b, k, "ready", NoGame)
    BY <1>1 DEF CancelGame, Reopened
<1> QED BY <1>2, ReopenTree DEF OpenStatuses

\* So is naming the game of one
LEMMA StartTree ==
    ASSUME NEW rounds \in Nat \ {0}, NEW b, Tree(b, rounds), NEW k \in Keys(rounds), b[k].status \in OpenStatuses,
           NEW g \in Game
    PROVE  /\ Tree(StartGame(b, k, g), rounds) /\ KeepsBut(b, StartGame(b, k, g), k)
           /\ StartGame(b, k, g)[k].status = "live" /\ StartGame(b, k, g)[k].live = g
<1>1. b \in [Keys(rounds) -> BracketMatch]
    BY DEF Tree
<1>2. StartGame(b, k, g) = Reopened(b, k, "live", g)
    BY <1>1 DEF StartGame, Reopened
<1>3. g # NoGame
    BY BracketAssumption
<1> QED BY <1>2, <1>3, ReopenTree DEF OpenStatuses

\* What a release of several matches writes
LEMMA ReleaseTree ==
    ASSUME NEW rounds \in Nat \ {0}, NEW b, Tree(b, rounds), NEW S
    PROVE  /\ Tree(ReleaseGame(b, S), rounds)
           /\ \A k \in Keys(rounds) :
                IF k \in S /\ b[k].status = "provisioning" THEN ReleaseGame(b, S)[k].status = "ready"
                ELSE ReleaseGame(b, S)[k] = b[k]
<1> DEFINE c == ReleaseGame(b, S)
<1>1. b \in [Keys(rounds) -> BracketMatch]
    BY DEF Tree
<1>2. c = [k \in Keys(rounds) |-> IF k \in S /\ b[k].status = "provisioning" THEN [b[k] EXCEPT !.status = "ready"] ELSE b[k]]
    BY <1>1 DEF ReleaseGame
<1> HIDE DEF c
<1>3. ASSUME NEW k \in Keys(rounds)
      PROVE  /\ c[k] \in BracketMatch /\ Opened(b[k], c[k])
             /\ IF k \in S /\ b[k].status = "provisioning" THEN c[k].status = "ready" ELSE c[k] = b[k]
    <2>1. b[k] \in BracketMatch /\ MatchInv(b[k])
        BY DEF Tree
    <2>2. CASE k \in S /\ b[k].status = "provisioning"
        <3> DEFINE m == [b[k] EXCEPT !.status = "ready"]
        <3>1. /\ m \in BracketMatch /\ m.status = "ready" /\ m.live = b[k].live
              /\ m.side = b[k].side /\ m.known = b[k].known /\ m.winner = b[k].winner
            BY <2>1 DEF BracketMatch, OpenStatuses
        <3>2. c[k] = m
            BY <1>2, <2>2
        <3> HIDE DEF m
        <3>3. MatchInv(m)
            BY <2>1, <2>2, <3>1 DEF MatchInv, Sides
        <3> QED BY <2>2, <3>1, <3>2, <3>3 DEF Opened
    <2>3. CASE ~(k \in S /\ b[k].status = "provisioning")
        <3>1. c[k] = b[k]
            BY <1>2, <2>3
        <3> QED BY <2>1, <2>3, <3>1 DEF Opened
    <2> QED BY <2>2, <2>3
<1>4. c \in [Keys(rounds) -> BracketMatch]
    BY <1>2, <1>3
<1>5. Tree(c, rounds)
    BY <1>3, <1>4, OpenTree
<1> QED BY <1>3, <1>5 DEF c

\* What a claim of several matches writes
LEMMA ClaimTree ==
    ASSUME NEW rounds \in Nat \ {0}, NEW b, Tree(b, rounds), NEW S \in SUBSET PlayableMatches(b)
    PROVE  /\ Tree(ClaimGame(b, S), rounds) /\ S \subseteq Keys(rounds)
           /\ \A k \in Keys(rounds) :
                IF k \in S THEN ClaimGame(b, S)[k].status = "provisioning" /\ b[k].status = "ready"
                ELSE ClaimGame(b, S)[k] = b[k]
<1> DEFINE c == ClaimGame(b, S)
<1>1. b \in [Keys(rounds) -> BracketMatch]
    BY DEF Tree
<1>2. c = [k \in Keys(rounds) |-> IF k \in S THEN [b[k] EXCEPT !.status = "provisioning"] ELSE b[k]]
    BY <1>1 DEF ClaimGame
<1>3. S \subseteq Keys(rounds) /\ \A k \in S : b[k].status = "ready"
    BY <1>1 DEF PlayableMatches
<1> HIDE DEF c
<1>4. ASSUME NEW k \in Keys(rounds)
      PROVE  /\ c[k] \in BracketMatch /\ Opened(b[k], c[k])
             /\ IF k \in S THEN c[k].status = "provisioning" /\ b[k].status = "ready" ELSE c[k] = b[k]
    <2>1. b[k] \in BracketMatch /\ MatchInv(b[k])
        BY DEF Tree
    <2>2. CASE k \in S
        <3> DEFINE m == [b[k] EXCEPT !.status = "provisioning"]
        <3>1. /\ m \in BracketMatch /\ m.status = "provisioning" /\ m.live = b[k].live
              /\ m.side = b[k].side /\ m.known = b[k].known /\ m.winner = b[k].winner
            BY <2>1 DEF BracketMatch, OpenStatuses
        <3>2. c[k] = m /\ b[k].status = "ready"
            BY <1>2, <1>3, <2>2
        <3> HIDE DEF m
        <3>3. MatchInv(m)
            BY <2>1, <3>1, <3>2 DEF MatchInv, Sides
        <3> QED BY <2>2, <3>1, <3>2, <3>3 DEF Opened
    <2>3. CASE k \notin S
        <3>1. c[k] = b[k]
            BY <1>2, <2>3
        <3> QED BY <2>1, <2>3, <3>1 DEF Opened
    <2> QED BY <2>2, <2>3
<1>5. c \in [Keys(rounds) -> BracketMatch]
    BY <1>2, <1>4
<1>6. Tree(c, rounds)
    BY <1>4, <1>5, OpenTree
<1> QED BY <1>3, <1>4, <1>6 DEF c

-----------------------------------------------------------------------------
\* Badges are given to the bracket that is over
LEMMA CompleteKeeps ==
    ASSUME IInv, cup = "running", NEW rounds \in Nat \ {0}, Tree(bracket', rounds),
           NEW c, Complete(c), IsComplete(c) => bracket' = c
    PROVE  StatusInv' /\ BracketInv' /\ BadgeInv'
<1>1. bracket' # <<>>
    BY TreeNotEmpty
<1>2. badges = {}
    BY DEF IInv, BadgeInv
<1>3. CASE IsComplete(c)
    <2>1. cup' = "completed" /\ badges' = Placements(bracket') /\ bracket' = c
        BY <1>2, <1>3 DEF Complete
    <2> QED BY <1>1, <1>3, <2>1 DEF StatusInv, BracketInv, BadgeInv
<1>4. CASE ~IsComplete(c)
    <2>1. cup' = "running" /\ badges' = {}
        BY <1>2, <1>4 DEF Complete
    <2> QED BY <1>1, <2>1 DEF StatusInv, BracketInv, BadgeInv
<1> QED BY <1>3, <1>4

\* A match of the bracket that is open is decided, or given back, by a result or an admin
LEMMA DecideKeeps ==
    ASSUME IInv, cup = "running", NEW rounds \in Nat \ {0}, Tree(bracket, rounds), Tree(bracket', rounds),
           NEW k \in Keys(rounds), bracket[k].status \in OpenStatuses, KeepsBut(bracket, bracket', k),
           bracket'[k].status \in {"done", "ready"}, Complete(bracket'), DOMAIN claim' = DOMAIN claim \ {k},
           stops \subseteq stops', stops' \subseteq Game, results' \subseteq results, UNCHANGED <<game, starts, crashes>>,
           \A g \in Game : bracket[k].live = g => g \in stops' \/ ~On(g)
    PROVE  IInv' /\ DoneKept
<1>1. DOMAIN bracket = Keys(rounds) /\ DOMAIN bracket' = Keys(rounds)
    BY TreeNotEmpty
<1>2. StatusInv' /\ BracketInv' /\ BadgeInv'
    BY CompleteKeeps
<1>3. \A l \in Keys(rounds) : l # k =>
          /\ bracket[l].status \in {"done", "provisioning", "live"} => bracket'[l] = bracket[l]
          /\ bracket'[l].status \in {"provisioning", "live"} => bracket'[l] = bracket[l]
    BY <1>1 DEF KeepsBut
<1>4. ClaimInv'
    <2>1. DOMAIN claim \subseteq Keys(rounds) /\ \A l \in Keys(rounds) : bracket[l].status = "provisioning" <=> l \in DOMAIN claim
        BY <1>1 DEF IInv, ClaimInv
    <2> QED BY <1>1, <1>3, <2>1 DEF ClaimInv
<1>5. GameInv'
    BY <1>1 DEF IInv, GameInv
<1>6. JobInv'
    BY <1>1 DEF IInv, JobInv
<1>7. NoGameForNothing'
    <2> SUFFICES ASSUME crashes = 0, NEW g \in Game, On(g)
                 PROVE  g \in stops' \/ LiveKeys(g)' # {} \/ \E j \in starts : j.game = g
        BY DEF NoGameForNothing, On
    <2>1. g \in stops \/ LiveKeys(g) # {} \/ \E j \in starts : j.game = g
        BY DEF IInv, NoGameForNothing
    <2>2. ASSUME LiveKeys(g) # {} PROVE g \in stops' \/ LiveKeys(g)' # {}
        <3>1. PICK l \in Keys(rounds) : bracket[l].live = g
            BY <1>1, <2>2 DEF LiveKeys
        <3>2. CASE l = k
            BY <3>1, <3>2
        <3>3. CASE l # k
            <4>1. bracket[l].status = "live"
                BY <1>1, <3>1, LiveIs DEF IInv
            <4>2. bracket'[l] = bracket[l]
                BY <1>3, <3>3, <4>1
            <4> QED BY <1>1, <3>1, <4>2 DEF LiveKeys
        <3> QED BY <3>2, <3>3
    <2> QED BY <2>1, <2>2
<1>8. DoneKept
    BY <1>1, <1>3 DEF DoneKept, OpenStatuses
<1> QED BY <1>2, <1>4, <1>5, <1>6, <1>7, <1>8 DEF IInv

-----------------------------------------------------------------------------
\* Their steps

\* A start stores its match, gives the bracket match back, or has its match cancelled
LEMMA StoreStartKeeps ==
    ASSUME IInv, NEW j \in starts, StoreStart(j)
    PROVE  IInv' /\ DoneKept
<1> DEFINE k == j.key
<1>1. j = [key |-> j.key, claim |-> j.claim, game |-> j.game] /\ k \in DOMAIN bracket /\ j.game \in Game \cup {NoGame}
    BY DEF IInv, JobInv
<1>2. starts' = starts \ {j} /\ UNCHANGED <<cup, badges, game, results, crashes>>
    BY DEF StoreStart, counts
<1>3. CASE ~(bracket[k].status = "provisioning" /\ k \in DOMAIN claim /\ claim[k] = j.claim)
    <2>1. stops' = stops \cup ({j.game} \ {NoGame}) /\ claim' = claim /\ bracket' = bracket
        BY <1>3 DEF StoreStart
    <2>2. StatusInv' /\ BracketInv' /\ BadgeInv'
        BY <1>2, <2>1 DEF IInv, StatusInv, BracketInv, BadgeInv
    <2>3. ClaimInv' /\ GameInv'
        BY <1>2, <2>1 DEF IInv, ClaimInv, GameInv
    <2>4. JobInv'
        BY <1>1, <1>2, <2>1 DEF IInv, JobInv
    <2>5. NoGameForNothing'
        <3> SUFFICES ASSUME crashes = 0, cup # "cancelled", NEW g \in Game, On(g)
                     PROVE  g \in stops' \/ LiveKeys(g) # {} \/ \E x \in starts' : x.game = g
            BY <1>2, <2>1 DEF NoGameForNothing, LiveKeys, On
        <3>1. g \in stops \/ LiveKeys(g) # {} \/ \E x \in starts : x.game = g
            BY DEF IInv, NoGameForNothing
        <3>2. g # NoGame
            BY BracketAssumption
        <3> QED BY <1>2, <2>1, <3>1, <3>2
    <2> QED BY <2>1, <2>2, <2>3, <2>4, <2>5 DEF IInv, DoneKept
<1>4. CASE bracket[k].status = "provisioning" /\ k \in DOMAIN claim /\ claim[k] = j.claim
    <2>1. /\ claim' = Without(claim, {k}) /\ stops' = stops
          /\ bracket' = IF j.game = NoGame THEN ReleaseGame(bracket, {k}) ELSE StartGame(bracket, k, j.game)
        BY <1>4 DEF StoreStart
    <2>2. PICK rounds \in Nat \ {0} : Tree(bracket, rounds)
        BY <1>1, HasRounds DEF IInv
    <2>3. DOMAIN bracket = Keys(rounds) /\ k \in Keys(rounds)
        BY <1>1, <2>2, TreeNotEmpty
    <2> HIDE DEF k
    <2>4. /\ Tree(bracket', rounds) /\ KeepsBut(bracket, bracket', k)
          /\ IF j.game = NoGame THEN bracket'[k].status = "ready"
             ELSE bracket'[k].status = "live" /\ bracket'[k].live = j.game
        <3>1. CASE j.game = NoGame
            <4>1. bracket' = ReleaseGame(bracket, {k})
                BY <2>1, <3>1
            <4>2. /\ Tree(ReleaseGame(bracket, {k}), rounds)
                  /\ \A l \in Keys(rounds) :
                       IF l \in {k} /\ bracket[l].status = "provisioning" THEN ReleaseGame(bracket, {k})[l].status = "ready"
                       ELSE ReleaseGame(bracket, {k})[l] = bracket[l]
                BY <2>2, ReleaseTree
            <4> QED BY <1>4, <2>3, <3>1, <4>1, <4>2 DEF KeepsBut
        <3>2. CASE j.game # NoGame
            BY <1>1, <1>4, <2>1, <2>2, <2>3, <3>2, StartTree DEF OpenStatuses
        <3> QED BY <3>1, <3>2
    <2>5. DOMAIN bracket' = Keys(rounds) /\ bracket' # <<>>
        BY <2>4, TreeNotEmpty
    <2>6. cup # "completed"
        <3>1. ASSUME IsComplete(bracket) PROVE FALSE
            <4>1. bracket[k].status = "done"
                BY <2>2, <2>3, <3>1, DoneBelow
            <4> QED BY <1>4, <4>1
        <3> QED BY <3>1 DEF IInv, BadgeInv
    <2>7. StatusInv' /\ BracketInv' /\ BadgeInv'
        <3>1. bracket # <<>>
            BY <2>2, TreeNotEmpty
        <3> QED BY <1>2, <2>4, <2>5, <2>6, <3>1 DEF IInv, StatusInv, BracketInv, BadgeInv
    <2>8. \A l \in Keys(rounds) : l # k =>
              /\ bracket[l].status \in {"done", "provisioning", "live"} => bracket'[l] = bracket[l]
              /\ bracket'[l].status \in {"provisioning", "live"} => bracket'[l] = bracket[l]
        BY <2>3, <2>4 DEF KeepsBut
    <2>9. ClaimInv'
        <3>1. DOMAIN claim' = DOMAIN claim \ {k}
            BY <2>1 DEF Without
        <3>2. DOMAIN claim \subseteq Keys(rounds) /\ \A l \in Keys(rounds) : bracket[l].status = "provisioning" <=> l \in DOMAIN claim
            BY <2>3 DEF IInv, ClaimInv
        <3>3. bracket'[k].status # "provisioning"
            BY <2>4
        <3>4. \A l \in Keys(rounds) : bracket'[l].status = "provisioning" <=> l \in DOMAIN claim'
            BY <2>8, <3>1, <3>2, <3>3
        <3> QED BY <2>5, <3>1, <3>2, <3>4 DEF ClaimInv
    <2>10. GameInv' /\ JobInv'
        BY <1>2, <2>1, <2>3, <2>5 DEF IInv, GameInv, JobInv
    <2>11. NoGameForNothing'
        <3> SUFFICES ASSUME crashes = 0, cup # "cancelled", NEW g \in Game, On(g)
                     PROVE  g \in stops \/ LiveKeys(g)' # {} \/ \E x \in starts' : x.game = g
            BY <1>2, <2>1 DEF NoGameForNothing, On
        <3>1. g \in stops \/ LiveKeys(g) # {} \/ \E x \in starts : x.game = g
            BY DEF IInv, NoGameForNothing
        <3>2. g # NoGame
            BY BracketAssumption
        <3>3. ASSUME LiveKeys(g) # {} PROVE LiveKeys(g)' # {}
            <4>1. PICK l \in Keys(rounds) : bracket[l].live = g
                BY <2>3, <3>3 DEF LiveKeys
            <4>2. bracket[l].status = "live"
                BY <2>3, <4>1, LiveIs DEF IInv
            <4>3. l # k
                BY <1>4, <4>2
            <4>4. bracket'[l].live = g
                BY <2>8, <4>1, <4>2, <4>3
            <4> QED BY <2>5, <4>4 DEF LiveKeys
        <3>4. ASSUME j.game = g PROVE LiveKeys(g)' # {}
            BY <2>3, <2>4, <2>5, <3>2, <3>4 DEF LiveKeys
        <3> QED BY <1>2, <3>1, <3>3, <3>4
    <2>12. DoneKept
        BY <1>4, <2>3, <2>8 DEF DoneKept
    <2> QED BY <2>7, <2>9, <2>10, <2>11, <2>12 DEF IInv
<1> QED BY <1>3, <1>4

\* A result counts for the bracket match that is live with it
LEMMA HandleResultKeeps ==
    ASSUME IInv, NEW r \in results, HandleResult(r)
    PROVE  IInv' /\ DoneKept
<1>1. results' = results \ {r} /\ UNCHANGED <<claim, game, starts, stops, crashes>>
    BY DEF HandleResult, counts
<1>2. r.game \in Game /\ game[r.game].status = "over" /\ r.side \in Side \cup {Level} /\ r.absent \subseteq Side
    BY DEF IInv, JobInv
<1>3. CASE ~(cup = "running" /\ LiveKeys(r.game) # {})
    <2>1. UNCHANGED <<bracket, cup, badges>>
        BY <1>3 DEF HandleResult
    <2>2. StatusInv' /\ BracketInv' /\ BadgeInv'
        BY <2>1 DEF IInv, StatusInv, BracketInv, BadgeInv
    <2>3. ClaimInv' /\ GameInv' /\ JobInv'
        BY <1>1, <2>1 DEF IInv, ClaimInv, GameInv, JobInv
    <2>4. NoGameForNothing'
        BY <1>1, <2>1 DEF IInv, NoGameForNothing, On, LiveKeys
    <2> QED BY <2>1, <2>2, <2>3, <2>4 DEF IInv, DoneKept
<1>4. CASE cup = "running" /\ LiveKeys(r.game) # {}
    <2> DEFINE k == CHOOSE k \in LiveKeys(r.game) : TRUE
    <2>1. bracket' = ApplyResult(k, r) /\ Complete(bracket')
        BY <1>4 DEF HandleResult
    <2>2. k \in LiveKeys(r.game)
        BY <1>4
    <2>3. k \in DOMAIN bracket /\ bracket[k].live = r.game
        BY <2>2 DEF LiveKeys
    <2> HIDE DEF k
    <2>4. bracket[k].status = "live" /\ bracket[k].status \in OpenStatuses
        BY <1>2, <2>3, LiveIs DEF IInv, OpenStatuses
    <2>5. PICK rounds \in Nat \ {0} : Tree(bracket, rounds)
        BY <2>3, HasRounds DEF IInv
    <2>6. DOMAIN bracket = Keys(rounds) /\ k \in Keys(rounds)
        BY <2>3, <2>5, TreeNotEmpty
    <2>7. Tree(bracket', rounds) /\ KeepsBut(bracket, bracket', k) /\ bracket'[k].status \in {"done", "ready"}
        <3>1. CASE r.outcome = "completed" /\ r.side # Level
            <4>1. bracket' = RecordGame(bracket, k, r.side) /\ r.side \in Side
                BY <1>2, <2>1, <3>1 DEF ApplyResult
            <4>2. Decided(bracket, RecordGame(bracket, k, r.side), rounds, k)
                BY <2>4, <2>5, <2>6, <4>1, OperationsDecide
            <4> QED BY <4>1, <4>2 DEF Decided
        <3>2. CASE r.outcome = "abandoned" /\ r.absent # {}
            <4>1. bracket' = Forfeit(bracket, k, r.absent)
                BY <2>1, <3>2 DEF ApplyResult
            <4>2. Decided(bracket, Forfeit(bracket, k, r.absent), rounds, k)
                BY <1>2, <2>4, <2>5, <2>6, <3>2, OperationsDecide
            <4> QED BY <4>1, <4>2 DEF Decided
        <3>3. CASE ~(r.outcome = "completed" /\ r.side # Level) /\ ~(r.outcome = "abandoned" /\ r.absent # {})
            <4>1. bracket' = CancelGame(bracket, k)
                BY <2>1, <3>3 DEF ApplyResult
            <4> QED BY <2>4, <2>5, <2>6, <4>1, CancelTree
        <3> QED BY <3>1, <3>2, <3>3
    <2>8. DOMAIN claim' = DOMAIN claim \ {k}
        <3>1. k \notin DOMAIN claim
            BY <2>3, <2>4 DEF IInv, ClaimInv
        <3> QED BY <1>1, <3>1
    <2>9. \A g \in Game : bracket[k].live = g => ~On(g)
        BY <1>2, <2>3 DEF On
    <2>10. stops' \subseteq Game
        BY <1>1 DEF IInv, JobInv
    <2> QED BY <1>1, <1>4, <2>1, <2>4, <2>5, <2>6, <2>7, <2>8, <2>9, <2>10, DecideKeeps
<1> QED BY <1>3, <1>4

\* A bracket match is decided from outside
LEMMA SaveAdminBracketKeeps ==
    ASSUME IInv, cup = "running", NEW rounds \in Nat \ {0}, Tree(bracket, rounds), NEW k \in Keys(rounds),
           bracket[k].status \in OpenStatuses, NEW b, Decided(bracket, b, rounds, k), SaveAdminBracket(k, b),
           UNCHANGED <<game, starts, results, crashes>>
    PROVE  IInv' /\ DoneKept
<1>1. /\ bracket' = b /\ claim' = Without(claim, {k}) /\ stops' = stops \cup ({bracket[k].live} \ {NoGame})
      /\ Complete(bracket')
    BY DEF SaveAdminBracket
<1>2. Tree(bracket', rounds) /\ KeepsBut(bracket, bracket', k) /\ bracket'[k].status \in {"done", "ready"}
    BY <1>1 DEF Decided
<1>3. DOMAIN claim' = DOMAIN claim \ {k}
    BY <1>1 DEF Without
<1>4. bracket[k].live \in Game \cup {NoGame}
    <2>1. k \in DOMAIN bracket
        BY TreeNotEmpty
    <2> QED BY <2>1, LiveIs DEF IInv
<1>5. stops \subseteq stops' /\ stops' \subseteq Game
    BY <1>1, <1>4 DEF IInv, JobInv
<1>6. \A g \in Game : bracket[k].live = g => g \in stops'
    BY <1>1, BracketAssumption
<1> QED BY <1>1, <1>2, <1>3, <1>5, <1>6, DecideKeeps

\* A disqualified entry loses the match it is in
LEMMA DisqualifyEntryKeeps ==
    ASSUME IInv, NEW e \in Entry, DisqualifyEntry(e)
    PROVE  IInv' /\ DoneKept
<1> DEFINE open == {k \in DOMAIN bracket : bracket[k].status \in OpenStatuses /\ \E s \in Side : bracket[k].side[s] = e}
<1>1. cup \in {"open", "running"} /\ UNCHANGED <<game, starts, results, crashes>>
    BY DEF DisqualifyEntry
<1>2. CASE open = {}
    <2>1. UNCHANGED <<cup, bracket, claim, stops, badges>>
        BY <1>2 DEF DisqualifyEntry
    <2> QED BY <1>1, <2>1, NothingKeeps
<1>3. CASE open # {}
    <2> DEFINE k == CHOOSE k \in open : TRUE
               s == CHOOSE s \in Side : bracket[k].side[s] = e
    <2>1. SaveAdminBracket(k, Disqualify(bracket, k, s))
        BY <1>3 DEF DisqualifyEntry
    <2>2. k \in open
        BY <1>3
    <2>3. k \in DOMAIN bracket /\ bracket[k].status \in OpenStatuses /\ s \in Side
        BY <2>2
    <2> HIDE DEF k, s
    <2>4. cup = "running"
        <3>1. DOMAIN <<>> = {}
            OBVIOUS
        <3> QED BY <1>1, <2>3, <3>1 DEF IInv, StatusInv
    <2>5. PICK rounds \in Nat \ {0} : Tree(bracket, rounds)
        BY <2>3, HasRounds DEF IInv
    <2>6. k \in Keys(rounds)
        BY <2>3, <2>5, TreeNotEmpty
    <2>7. Decided(bracket, Disqualify(bracket, k, s), rounds, k)
        BY <2>3, <2>5, <2>6, OperationsDecide
    <2> QED BY <1>1, <2>1, <2>3, <2>4, <2>5, <2>6, <2>7, SaveAdminBracketKeeps
<1> QED BY <1>2, <1>3

\* An admin decides a match
LEMMA ForceResultKeeps ==
    ASSUME IInv, NEW k \in DOMAIN bracket, NEW s \in Side, ForceResult(k, s)
    PROVE  IInv' /\ DoneKept
<1>1. /\ cup = "running" /\ bracket[k].status \in OpenStatuses /\ SaveAdminBracket(k, Decide(bracket, k, s))
      /\ UNCHANGED <<game, starts, results, crashes>>
    BY DEF ForceResult
<1>2. PICK rounds \in Nat \ {0} : Tree(bracket, rounds)
    BY HasRounds DEF IInv
<1>3. k \in Keys(rounds)
    BY <1>2, TreeNotEmpty
<1>4. Decided(bracket, Decide(bracket, k, s), rounds, k)
    BY <1>1, <1>2, <1>3, OperationsDecide
<1> QED BY <1>1, <1>2, <1>3, <1>4, SaveAdminBracketKeeps

\* A cup is cancelled with the matches that are live
LEMMA CancelKeeps ==
    ASSUME IInv, Cancel
    PROVE  IInv' /\ DoneKept
<1> DEFINE live == {bracket[k].live : k \in {k \in DOMAIN bracket : bracket[k].status = "live"}}
<1>1. /\ cup \in {"open", "running"} /\ cup' = "cancelled" /\ stops' = stops \cup live
      /\ UNCHANGED <<bracket, claim, badges, game, starts, results, crashes>>
    BY DEF Cancel
<1>2. live \subseteq Game
    BY LiveIs DEF IInv
<1> HIDE DEF live
<1>3. StatusInv' /\ BracketInv' /\ BadgeInv'
    BY <1>1 DEF IInv, StatusInv, BracketInv, BadgeInv
<1>4. ClaimInv' /\ GameInv'
    BY <1>1 DEF IInv, ClaimInv, GameInv
<1>5. JobInv'
    BY <1>1, <1>2 DEF IInv, JobInv
<1>6. NoGameForNothing'
    BY <1>1 DEF NoGameForNothing
<1> QED BY <1>1, <1>3, <1>4, <1>5, <1>6 DEF IInv, DoneKept

\* Badges are taken back
LEMMA StripBadgesKeeps ==
    ASSUME IInv, NEW e \in Entry, StripBadges(e)
    PROVE  IInv' /\ DoneKept
<1>1. /\ cup = "completed" /\ badges' \subseteq badges
      /\ UNCHANGED <<cup, bracket, claim, game, starts, stops, results, crashes>>
    BY DEF StripBadges, jobVars
<1>2. StatusInv' /\ BracketInv' /\ BadgeInv'
    BY <1>1 DEF IInv, StatusInv, BracketInv, BadgeInv
<1>3. ClaimInv' /\ GameInv' /\ JobInv'
    BY <1>1 DEF IInv, ClaimInv, GameInv, JobInv
<1>4. NoGameForNothing'
    BY <1>1 DEF IInv, NoGameForNothing, On, LiveKeys
<1> QED BY <1>1, <1>2, <1>3, <1>4 DEF IInv, DoneKept

\* A restart loses what is under way
LEMMA CrashKeeps ==
    ASSUME IInv, Crash
    PROVE  IInv' /\ DoneKept
<1>1. /\ starts' = {} /\ stops' = {} /\ results' = {} /\ crashes' = crashes + 1 /\ crashes \in Nat
      /\ UNCHANGED <<cup, bracket, claim, badges, game>>
    BY DEF Crash, cupVars, IInv, JobInv
<1>2. StatusInv' /\ BracketInv' /\ BadgeInv'
    BY <1>1 DEF IInv, StatusInv, BracketInv, BadgeInv
<1>3. ClaimInv' /\ GameInv' /\ JobInv'
    BY <1>1 DEF IInv, ClaimInv, GameInv, JobInv
<1>4. NoGameForNothing'
    BY <1>1 DEF NoGameForNothing
<1> QED BY <1>1, <1>2, <1>3, <1>4 DEF IInv, DoneKept

-----------------------------------------------------------------------------
\* The tick of the scheduler, and all steps together

\* A tick decides what is lost already, gives back old claims and claims what is ready
LEMMA ProvisionKeeps ==
    ASSUME IInv, NEW old \in SUBSET DOMAIN claim, Provision(old)
    PROVE  IInv' /\ DoneKept
<1> DEFINE swept == SweepDisqualified(bracket)
           free == ReleaseGame(swept, old)
           asked == IF IsComplete(swept) THEN {} ELSE PlayableMatches(free)
           now == CHOOSE c \in Claim : c \notin InUse
           new == {[key |-> k, claim |-> now, game |-> NoGame] : k \in asked}
<1>1. /\ cup = "running" /\ \A k \in old : bracket[k].status = "provisioning"
      /\ bracket' = ClaimGame(free, asked)
      /\ claim' = [k \in asked \cup (DOMAIN claim \ old) |-> IF k \in asked THEN now ELSE claim[k]]
      /\ starts' = starts \cup new /\ Complete(swept)
      /\ UNCHANGED <<game, stops, results, crashes>>
    BY DEF Provision, Claimed
<1>2. PICK rounds \in Nat \ {0} : Tree(bracket, rounds)
    BY <1>1 DEF IInv, StatusInv, BracketInv
<1>3. Tree(swept, rounds) /\ Keeps(bracket, swept)
    BY <1>2, SweepTree
<1> HIDE DEF swept
<1>4. /\ Tree(free, rounds)
      /\ \A k \in Keys(rounds) : IF k \in old /\ swept[k].status = "provisioning" THEN free[k].status = "ready"
                                 ELSE free[k] = swept[k]
    BY <1>3, ReleaseTree
<1> HIDE DEF free
<1>5. asked \in SUBSET PlayableMatches(free)
    OBVIOUS
<1>6. /\ Tree(bracket', rounds) /\ asked \subseteq Keys(rounds)
      /\ \A k \in Keys(rounds) : IF k \in asked THEN bracket'[k].status = "provisioning" /\ free[k].status = "ready"
                                 ELSE bracket'[k] = free[k]
    <2> HIDE DEF asked
    <2> QED BY <1>1, <1>4, <1>5, ClaimTree
<1>7. DOMAIN bracket = Keys(rounds) /\ DOMAIN swept = Keys(rounds) /\ DOMAIN bracket' = Keys(rounds)
    BY <1>2, <1>3, <1>6, TreeNotEmpty
<1>8. \A k \in Keys(rounds) :
          /\ bracket[k].status \in {"done", "provisioning", "live"} => swept[k] = bracket[k]
          /\ swept[k].status \in {"provisioning", "live"} => swept[k] = bracket[k]
    BY <1>3, <1>7 DEF Keeps
<1>9. IsComplete(swept) => bracket' = swept
    <2> SUFFICES ASSUME IsComplete(swept) PROVE bracket' = swept
        OBVIOUS
    <2>1. ASSUME NEW k \in Keys(rounds) PROVE bracket'[k] = swept[k]
        <3>1. swept[k].status = "done"
            BY <1>3, DoneBelow
        <3>2. k \notin asked
            OBVIOUS
        <3> HIDE DEF asked
        <3> QED BY <1>4, <1>6, <3>1, <3>2
    <2>2. bracket' \in [Keys(rounds) -> BracketMatch] /\ swept \in [Keys(rounds) -> BracketMatch]
        BY <1>3, <1>6 DEF Tree
    <2> HIDE DEF asked
    <2> QED BY <2>1, <2>2
<1> HIDE DEF asked, now
<1>10. StatusInv' /\ BracketInv' /\ BadgeInv'
    BY <1>1, <1>6, <1>9, CompleteKeeps
<1>11. \A k \in Keys(rounds) : bracket[k].status \in {"done", "live"} => bracket'[k] = bracket[k]
    <2> SUFFICES ASSUME NEW k \in Keys(rounds), bracket[k].status \in {"done", "live"} PROVE bracket'[k] = bracket[k]
        OBVIOUS
    <2>1. swept[k] = bracket[k]
        BY <1>8
    <2>2. free[k] = bracket[k]
        BY <1>4, <2>1
    <2> QED BY <1>6, <2>2
<1>12. ClaimInv'
    <2>1. DOMAIN claim' = asked \cup (DOMAIN claim \ old)
        BY <1>1
    <2>2. DOMAIN claim \subseteq Keys(rounds) /\ \A k \in Keys(rounds) : bracket[k].status = "provisioning" <=> k \in DOMAIN claim
        BY <1>7 DEF IInv, ClaimInv
    <2>3. ASSUME NEW k \in Keys(rounds) PROVE bracket'[k].status = "provisioning" <=> k \in DOMAIN claim'
        <3>1. swept[k].status = "provisioning" <=> k \in DOMAIN claim
            BY <1>8, <2>2
        <3>2. free[k].status = "provisioning" <=> k \in DOMAIN claim \ old
            BY <1>4, <3>1
        <3> QED BY <1>6, <2>1, <3>2
    <2> QED BY <1>6, <1>7, <2>1, <2>2, <2>3 DEF ClaimInv
<1>13. GameInv'
    BY <1>1, <1>7 DEF IInv, GameInv
<1>14. JobInv'
    <2>1. ASSUME NEW j \in new
          PROVE  /\ j = [key |-> j.key, claim |-> j.claim, game |-> j.game]
                 /\ j.key \in Keys(rounds) /\ j.game = NoGame
        <3>1. PICK k \in asked : j = [key |-> k, claim |-> now, game |-> NoGame]
            OBVIOUS
        <3> QED BY <1>6, <3>1
    <2> HIDE DEF new
    <2> QED BY <1>1, <1>7, <2>1 DEF IInv, JobInv
<1>15. NoGameForNothing'
    <2> SUFFICES ASSUME crashes = 0, NEW g \in Game, On(g)
                 PROVE  g \in stops \/ LiveKeys(g)' # {} \/ \E j \in starts' : j.game = g
        BY <1>1 DEF NoGameForNothing, On
    <2>1. g \in stops \/ LiveKeys(g) # {} \/ \E j \in starts : j.game = g
        BY <1>1 DEF IInv, NoGameForNothing
    <2>2. ASSUME LiveKeys(g) # {} PROVE LiveKeys(g)' # {}
        <3>1. PICK k \in Keys(rounds) : bracket[k].live = g
            BY <1>7, <2>2 DEF LiveKeys
        <3>2. bracket[k].status = "live"
            BY <1>7, <3>1, LiveIs DEF IInv
        <3> QED BY <1>7, <1>11, <3>1, <3>2 DEF LiveKeys
    <2> QED BY <1>1, <2>1, <2>2
<1> QED BY <1>7, <1>10, <1>11, <1>12, <1>13, <1>14, <1>15 DEF IInv, DoneKept

-----------------------------------------------------------------------------
\* Every step keeps the invariant, and every match that is over
LEMMA NextKeeps ==
    ASSUME IInv, [Next]_vars
    PROVE  IInv' /\ DoneKept
<1>1. CASE UNCHANGED vars
    BY <1>1, NothingKeeps DEF vars, cupVars, jobVars, counts
<1>2. CASE SignUp
    <2>1. UNCHANGED <<cup, bracket, claim, badges, game, starts, stops, results, crashes>>
        BY <1>2 DEF SignUp, StartsAt, Enter, Withdraw, jobVars, counts
    <2> QED BY <2>1, NothingKeeps
<1>3. CASE Scheduler
    BY <1>3, StartKeeps, ProvisionKeeps DEF Scheduler
<1>4. CASE Starting
    BY <1>4, StartMatchKeeps, StoreStartKeeps DEF Starting
<1>5. CASE Listening
    BY <1>5, HandleResultKeeps DEF Listening
<1>6. CASE Admin
    <2>1. CASE Cancel
        BY <2>1, CancelKeeps
    <2>2. CASE Reschedule
        <3>1. UNCHANGED <<cup, bracket, claim, badges, game, starts, stops, results, crashes>>
            BY <2>2 DEF Reschedule, jobVars
        <3> QED BY <3>1, NothingKeeps
    <2>3. CASE \E e \in Entry : DisqualifyEntry(e) \/ StripBadges(e)
        BY <2>3, DisqualifyEntryKeeps, StripBadgesKeeps
    <2>4. CASE \E k \in DOMAIN bracket, s \in Side : ForceResult(k, s)
        BY <2>4, ForceResultKeeps
    <2> QED BY <1>6, <2>1, <2>2, <2>3, <2>4 DEF Admin
<1>7. CASE Crash
    BY <1>7, CrashKeeps
<1>8. ASSUME NEW g \in Game, GameEnds(g) PROVE IInv' /\ DoneKept
    <2>1. ASSUME NEW side \in Side \cup {Level}, Finished(g, side) PROVE IInv' /\ DoneKept
        <3>1. On(g) /\ Over(g, "completed", side, {}) /\ UNCHANGED <<cup, bracket, claim, badges, starts, stops, crashes>>
            BY <2>1 DEF Finished, cupVars, counts
        <3> QED BY <3>1, OverKeeps
    <2>2. ASSUME NEW absent \in SUBSET Side, Abandoned(g, absent) PROVE IInv' /\ DoneKept
        <3>1. On(g) /\ Over(g, "abandoned", Level, absent) /\ UNCHANGED <<cup, bracket, claim, badges, starts, stops, crashes>>
            BY <2>2 DEF Abandoned, cupVars, counts
        <3> QED BY <3>1, OverKeeps
    <2>3. ASSUME Cancelled(g) PROVE IInv' /\ DoneKept
        <3>1. On(g) /\ Over(g, "cancelled", Level, {}) /\ UNCHANGED <<cup, bracket, claim, badges, starts, stops, crashes>>
            BY <2>3 DEF Cancelled, cupVars, counts
        <3> QED BY <3>1, OverKeeps
    <2> QED BY <1>8, <2>1, <2>2, <2>3 DEF GameEnds
<1>9. ASSUME NEW g \in Game, Stop(g) PROVE IInv' /\ DoneKept
    <2>1. stops' = stops \ {g} /\ g \in stops /\ UNCHANGED <<cup, bracket, claim, badges, starts, crashes>>
        BY <1>9 DEF Stop, cupVars, counts
    <2>2. CASE On(g)
        <3>1. Over(g, "cancelled", Level, {})
            BY <1>9, <2>2 DEF Stop
        <3> QED BY <2>1, <2>2, <3>1, OverKeeps
    <2>3. CASE ~On(g)
        <3>1. UNCHANGED <<game, results>>
            BY <1>9, <2>3 DEF Stop
        <3>2. StatusInv' /\ BracketInv' /\ BadgeInv' /\ ClaimInv' /\ GameInv' /\ JobInv'
            BY <2>1, <3>1 DEF IInv, StatusInv, BracketInv, BadgeInv, ClaimInv, GameInv, JobInv
        <3>3. NoGameForNothing'
            BY <2>1, <2>3, <3>1 DEF IInv, NoGameForNothing, On, LiveKeys
        <3> QED BY <2>1, <3>2, <3>3 DEF IInv, DoneKept
    <2> QED BY <2>2, <2>3
<1> QED BY <1>1, <1>2, <1>3, <1>4, <1>5, <1>6, <1>7, <1>8, <1>9 DEF Next

-----------------------------------------------------------------------------
\* The invariant holds in every state
THEOREM CupInvariant == Spec => []IInv
<1>1. IInv /\ [Next]_vars => IInv'
    BY NextKeeps
<1> QED BY InitInv, <1>1, PTL DEF Spec

\* A set without two members
LEMMA AtMostOne ==
    ASSUME NEW S, \A x, y \in S : x = y
    PROVE  Cardinality(S) <= 1
<1>1. CASE S = {}
    BY <1>1, FS_EmptySet
<1>2. CASE S # {}
    <2>1. PICK x \in S : S = {x}
        BY <1>2
    <2> QED BY <2>1, FS_Singleton
<1> QED BY <1>1, <1>2

\* The invariant says that the bracket is a tree in which nobody is in two open matches
LEMMA TreeIsTree ==
    ASSUME IInv
    PROVE  BracketIsTree
<1>1. CASE bracket = <<>>
    <2>1. DOMAIN bracket = {}
        BY <1>1
    <2>2. \A e \in Entry : {k \in DOMAIN bracket : /\ bracket[k].status \in OpenStatuses
                                                   /\ \E s \in Side : bracket[k].side[s] = e} = {}
        BY <2>1
    <2> QED BY <2>1, <2>2, AtMostOne DEF BracketIsTree
<1>2. CASE bracket # <<>>
    <2>1. PICK rounds \in Nat \ {0} : Tree(bracket, rounds)
        BY <1>2 DEF IInv, BracketInv
    <2>2. DOMAIN bracket = Keys(rounds)
        BY <2>1, TreeNotEmpty
    <2>3. ASSUME NEW k \in DOMAIN bracket, NEW s \in Side, k[1] > 1
          PROVE  FedBy(bracket[k], s, bracket[Feeder(k, s)])
        <3>1. k \in Keys(rounds) /\ k[1] # 1
            BY <2>2, <2>3
        <3> QED BY <2>1, <3>1 DEF Tree
    <2>4. ASSUME NEW e \in Entry
          PROVE  Cardinality({k \in DOMAIN bracket : /\ bracket[k].status \in OpenStatuses
                                                     /\ \E s \in Side : bracket[k].side[s] = e}) <= 1
        <3> DEFINE S == {k \in DOMAIN bracket : /\ bracket[k].status \in OpenStatuses
                                                /\ \E s \in Side : bracket[k].side[s] = e}
        <3>1. ASSUME NEW k \in S, NEW l \in S PROVE k = l
            <4>1. /\ k \in Keys(rounds) /\ l \in Keys(rounds) /\ e # NoEntry
                  /\ e \in Sides(bracket[k]) /\ e \in Sides(bracket[l])
                  /\ bracket[k].status # "done" /\ bracket[l].status # "done"
                BY <2>2, BracketAssumption DEF Sides, OpenStatuses
            <4> HIDE DEF S
            <4>2. ~(k[1] < l[1]) /\ ~(l[1] < k[1])
                BY <2>1, <4>1, WonBefore
            <4>3. k[1] \in Nat /\ l[1] \in Nat
                BY <4>1, KeyIs
            <4>4. k[1] = l[1]
                BY <4>2, <4>3
            <4> QED BY <2>1, <4>1, <4>4, OncePerRound
        <3> HIDE DEF S
        <3>2. Cardinality(S) <= 1
            BY <3>1, AtMostOne
        <3> QED BY <3>2 DEF S
    <2> QED BY <2>3, <2>4 DEF BracketIsTree, FedBy, Feeder
<1> QED BY <1>1, <1>2

\* A side of a later round is known exactly when the match before it is over, and is its winner; and
\* nobody is in two open matches (bracket.ts finish, settle), for a cup of any size
THEOREM TreeCorrect == Spec => []BracketIsTree
BY CupInvariant, TreeIsTree, PTL

\* Without a restart no match of a cup is played for nothing (service.ts startClaim, stopMatches)
THEOREM NoGameForNothingCorrect == Spec => []NoGameForNothing
<1>1. IInv => NoGameForNothing
    BY DEF IInv
<1> QED BY CupInvariant, <1>1, PTL

\* The badges of the invariant are earned
LEMMA PlacementsAreEarned ==
    ASSUME IInv
    PROVE  BadgesAreEarned
<1> SUFFICES ASSUME NEW b \in badges
             PROVE  /\ \A c \in badges : c[1] = b[1] => c = b
                    /\ LastMatch(b[1]).winner # b[1] => LastMatch(b[1]).resolution \notin {"forfeit", "disqualified"}
    BY DEF BadgesAreEarned
<1>1. cup = "completed" /\ badges \subseteq Placements(bracket) /\ bracket # <<>>
    BY DEF IInv, BadgeInv, StatusInv
<1>2. PICK rounds \in Nat \ {0} : Tree(bracket, rounds)
    BY <1>1 DEF IInv, BracketInv
<1>3. \A c \in badges : c[1] = b[1] => c = b
    BY <1>1, <1>2, PlacedAtMostOnce
<1>4. PICK k \in Keys(rounds) :
                /\ b[1] \in Sides(bracket[k])
                /\ \A l \in Keys(rounds) : b[1] \in Sides(bracket[l]) => l = k \/ l[1] < k[1]
                /\ \/ b[2] = "champion" /\ k = <<rounds, 0>> /\ bracket[k].winner = b[1]
                   \/ /\ bracket[k].winner # b[1] /\ bracket[k].resolution \notin {"forfeit", "disqualified"}
                      /\ \/ b[2] = "runner_up" /\ k = <<rounds, 0>>
                         \/ b[2] = "semifinalist" /\ k # <<rounds, 0>>
    BY <1>1, <1>2, PlacementIs
<1> DEFINE played == {x \in DOMAIN bracket : \E s \in Side : bracket[x].side[s] = b[1]}
           last == CHOOSE x \in played : \A l \in played : l[1] <= x[1]
<1>5. last = k
    <2>1. k \in played /\ \A l \in played : l \in Keys(rounds) /\ (l = k \/ l[1] < k[1])
        BY <1>2, <1>4, TreeNotEmpty DEF Sides
    <2>2. \A l \in played : l[1] \in Nat
        BY <2>1, KeyIs
    <2> HIDE DEF played
    <2>3. k \in played /\ \A l \in played : l[1] <= k[1]
        BY <2>1, <2>2
    <2>4. last \in played /\ k[1] <= last[1]
        BY <2>3
    <2> HIDE DEF last
    <2> QED BY <2>1, <2>2, <2>4
<1>6. LastMatch(b[1]) = bracket[k]
    BY <1>5 DEF LastMatch
<1> QED BY <1>3, <1>4, <1>6

\* One badge for each, and none for who lost the last match by forfeit or disqualification (bracket.ts
\* placements, service.ts complete)
THEOREM BadgesCorrect == Spec => []BadgesAreEarned
BY CupInvariant, PlacementsAreEarned, PTL

\* No step reopens a bracket match or names another winner, late results and admins included
THEOREM DoneIsFinalCorrect == Spec => DoneIsFinal
<1>1. IInv /\ [Next]_vars => [DoneKept]_vars
    BY NextKeeps
<1>2. Spec => [][DoneKept]_vars
    BY CupInvariant, <1>1, PTL DEF Spec
<1> QED BY <1>2 DEF DoneIsFinal, DoneKept
=============================================================================
