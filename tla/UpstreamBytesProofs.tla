------------------------- MODULE UpstreamBytesProofs ------------------------
(***************************************************************************)
(* Lemmas about the parts of UpstreamTools that look at bytes: patching    *)
(* and signatures, for any programs and contents.  The theorems that rest  *)
(* on them are in UpstreamProofs.                                          *)
(***************************************************************************)
EXTENDS UpstreamTools, Sequences, FiniteSetTheorems, SequenceTheorems,
        WellFoundedInduction, TLAPS

-----------------------------------------------------------------------------
(***************************************************************************)
(* What is written at addresses (Patching).                                *)
(***************************************************************************)
LEMMA PatchingConstants ==
    /\ Mapped \subseteq Nat /\ Mapped # {} /\ Outside \subseteq Nat \ Mapped
    /\ Base \in Nat \ {0} /\ Base % 2 = 0 /\ Sizes \subseteq Nat \ {0}
    /\ Offsets \subseteq Nat /\ Offsets # {}
    /\ Starts \subseteq [Mapped -> Writing!Bytes \cup {Writing!Unloaded}]
    /\ Plans \subseteq Seq(Writing!Items) /\ \A i \in Writing!Items : Writing!IsItem(i)
BY ToolsAssumption DEF Writing!PatchingAssumption

LEMMA FirstOf ==
    ASSUME NEW S, S \subseteq Nat, S # {}
    PROVE  Writing!First(S) \in S /\ \A n \in S : Writing!First(S) <= n
<1>1. PICK x \in S : \A y \in S : ~(<<y, x>> \in OpToRel(<, Nat))
  BY NatLessThanWellFounded, WFMin
<1>2. \A y \in S : ~(y < x)
  BY <1>1 DEF OpToRel
<1>3. \A y \in S : x <= y
  BY <1>2
<1> QED BY <1>3 DEF Writing!First

-----------------------------------------------------------------------------
(* What is computed from one byte, or one instruction, to the next: next   *)
(* says for each value what the i-th makes of it.                          *)
Steps(f, n, V, v, next) ==
    /\ f \in [0 .. n -> V] /\ f[0] = v
    /\ \A i \in 1 .. n : f[i] = next[f[i - 1]][i]

LEMMA StepsExist ==
    ASSUME NEW N \in Nat, NEW V, NEW v \in V, NEW next \in [V -> [1 .. N -> V]]
    PROVE  \E f : Steps(f, N, V, v, next)
<1> DEFINE Bad == {n \in Nat : n <= N /\ ~\E f : Steps(f, n, V, v, next)}
<1>1. SUFFICES ASSUME ~\E f : Steps(f, N, V, v, next) PROVE FALSE
  OBVIOUS
<1>0. N <= N
  OBVIOUS
<1>2. PICK n \in Bad : \A m \in Bad : ~(<<m, n>> \in OpToRel(<, Nat))
  BY <1>0, <1>1, NatLessThanWellFounded, WFMin
<1>3. n \in Nat /\ n <= N /\ ~\E f : Steps(f, n, V, v, next)
  BY <1>2
<1>4. n # 0
  <2>1. SUFFICES ASSUME n = 0 PROVE FALSE
    OBVIOUS
  <2> DEFINE f == [i \in 0 .. n |-> v]
  <2>2. Steps(f, n, V, v, next)
    BY <2>1 DEF Steps
  <2> QED BY <1>3, <2>2
<1>5. n - 1 \in Nat /\ n - 1 < n /\ n - 1 <= N
  BY <1>3, <1>4
<1>6. n - 1 \notin Bad
  BY <1>2, <1>5, <1>3 DEF OpToRel
<1>7. PICK g : Steps(g, n - 1, V, v, next)
  BY <1>5, <1>6
<1> DEFINE f == [i \in 0 .. n |-> IF i = n THEN next[g[n - 1]][n] ELSE g[i]]
<1>8. n - 1 \in 0 .. n - 1 /\ n \in 1 .. N
  BY <1>3, <1>5
<1>9. g \in [0 .. n - 1 -> V] /\ g[0] = v /\ \A i \in 1 .. n - 1 : g[i] = next[g[i - 1]][i]
  BY <1>7 DEF Steps
<1>10. g[n - 1] \in V /\ next[g[n - 1]] \in [1 .. N -> V] /\ next[g[n - 1]][n] \in V
  <2>1. g[n - 1] \in V
    BY <1>8, <1>9
  <2>2. next[g[n - 1]] \in [1 .. N -> V]
    BY <2>1
  <2> QED BY <1>8, <2>1, <2>2
<1>11. f \in [0 .. n -> V]
  <2>1. \A i \in 0 .. n : i # n => i \in 0 .. n - 1
    BY <1>3
  <2> QED BY <1>9, <1>10, <2>1
<1>12. f[0] = v
  BY <1>3, <1>4, <1>9
<1>13. \A i \in 1 .. n : f[i] = next[f[i - 1]][i]
  <2>1. SUFFICES ASSUME NEW i \in 1 .. n PROVE f[i] = next[f[i - 1]][i]
    OBVIOUS
  <2>2. i - 1 \in 0 .. n /\ i - 1 # n /\ i \in 0 .. n
    BY <1>3
  <2>3. f[i - 1] = g[i - 1]
    BY <2>2
  <2>4. CASE i = n
    BY <2>2, <2>3, <2>4
  <2>5. CASE i # n
    <3>1. i \in 1 .. n - 1
      BY <1>3, <2>5
    <3> QED BY <1>9, <2>2, <2>3, <2>5, <3>1
  <2> QED BY <2>4, <2>5
<1>14. Steps(f, n, V, v, next)
  <2> HIDE DEF f
  <2> QED BY <1>11, <1>12, <1>13 DEF Steps
<1> QED BY <1>3, <1>14

-----------------------------------------------------------------------------
(* The bytes of an integer.                                                *)
LEMMA RestOf ==
    ASSUME NEW c \in Writing!Classes, NEW x \in Int
    PROVE  /\ Writing!Rest(c, x) \in [0 .. c.size -> Int] /\ Writing!Rest(c, x)[0] = x
           /\ \A n \in 1 .. c.size : Writing!Rest(c, x)[n] = Writing!Rest(c, x)[n - 1] \div Base
<1> DEFINE N == c.size
           next == [y \in Int |-> [i \in 1 .. N |-> y \div Base]]
<1>1. N \in Nat \ {0} /\ Base \in Nat \ {0}
  BY PatchingConstants DEF Writing!Classes
<1>2. \A y \in Int : y \div Base \in Int
  BY <1>1
<1>3. next \in [Int -> [1 .. N -> Int]]
  BY <1>2
<1>4. PICK f : Steps(f, N, Int, x, next)
  <2> HIDE DEF next, N
  <2> QED BY <1>1, <1>3, StepsExist
<1>5. f \in [0 .. N -> Int] /\ f[0] = x /\ \A i \in 1 .. N : f[i] = f[i - 1] \div Base
  <2>1. f \in [0 .. N -> Int] /\ f[0] = x /\ \A i \in 1 .. N : f[i] = next[f[i - 1]][i]
    BY <1>4 DEF Steps
  <2>2. \A i \in 1 .. N : f[i - 1] \in Int
    <3>1. \A i \in 1 .. N : i - 1 \in 0 .. N
      BY <1>1
    <3> QED BY <2>1, <3>1
  <2> QED BY <2>1, <2>2
<1> HIDE DEF next
<1>6. f = [n \in 0 .. N |-> IF n = 0 THEN x ELSE f[n - 1] \div Base]
  <2>1. \A n \in 0 .. N : f[n] = IF n = 0 THEN x ELSE f[n - 1] \div Base
    <3>1. \A n \in 0 .. N : n # 0 => n \in 1 .. N
      BY <1>1
    <3> QED BY <1>5, <3>1
  <2>2. f = [n \in 0 .. N |-> f[n]]
    BY <1>5
  <2> QED BY <2>1, <2>2
<1> DEFINE r == Writing!Rest(c, x)
<1>7. r = [n \in 0 .. N |-> IF n = 0 THEN x ELSE r[n - 1] \div Base]
  <2>1. r = CHOOSE g : g = [n \in 0 .. N |-> IF n = 0 THEN x ELSE g[n - 1] \div Base]
    BY Zenon DEF Writing!Rest
  <2> HIDE DEF N, r
  <2> QED BY <1>6, <2>1, Zenon
<1> HIDE DEF r
<1>8. r[0] = x /\ \A n \in 1 .. N : r[n] = r[n - 1] \div Base
  <2>1. 0 \in 0 .. N /\ \A n \in 1 .. N : n \in 0 .. N /\ n # 0
    BY <1>1
  <2> QED BY <1>7, <2>1
<1>9. \A n \in 0 .. N : r[n] \in Int
  <2> DEFINE Bad == {n \in Nat : n <= N /\ r[n] \notin Int}
  <2>1. SUFFICES ASSUME Bad # {} PROVE FALSE
    BY <1>1
  <2>2. PICK n \in Bad : \A m \in Bad : ~(<<m, n>> \in OpToRel(<, Nat))
    BY <2>1, NatLessThanWellFounded, WFMin
  <2>3. n \in Nat /\ n <= N /\ r[n] \notin Int
    BY <2>2
  <2>4. n # 0
    BY <1>8, <2>3
  <2>5. n - 1 \in Nat /\ n - 1 < n /\ n - 1 <= N /\ n \in 1 .. N
    BY <1>1, <2>3, <2>4
  <2>6. r[n - 1] \in Int
    BY <2>2, <2>3, <2>5 DEF OpToRel
  <2> QED BY <1>2, <1>8, <2>3, <2>5, <2>6
<1>10. r \in [0 .. N -> Int]
  BY <1>7, <1>9
<1> QED BY <1>8, <1>10 DEF r, N

LEMMA LittleOf ==
    ASSUME NEW c \in Writing!Classes, NEW x \in Int
    PROVE  /\ Writing!Little(c, x) \in [1 .. c.size -> Writing!Bytes]
           /\ Writing!Little(c, x) \in Seq(Writing!Bytes) /\ Len(Writing!Little(c, x)) = c.size
           /\ \A n \in 1 .. c.size : Writing!Little(c, x)[n] = Writing!Rest(c, x)[n - 1] % Base
<1> DEFINE N == c.size
           l == Writing!Little(c, x)
<1>1. N \in Nat \ {0} /\ N \in Nat /\ Base \in Nat \ {0}
  BY PatchingConstants DEF Writing!Classes
<1>2. \A n \in 1 .. N : Writing!Rest(c, x)[n - 1] \in Int
  <2>1. \A n \in 1 .. N : n - 1 \in 0 .. N
    BY <1>1
  <2> QED BY <2>1, RestOf
<1>3. \A y \in Int : y % Base \in Writing!Bytes
  BY <1>1 DEF Writing!Bytes
<1>4. l = [n \in 1 .. N |-> Writing!Rest(c, x)[n - 1] % Base]
  BY DEF Writing!Little
<1> HIDE DEF N, l
<1>5. l \in [1 .. N -> Writing!Bytes] /\ DOMAIN l = 1 .. N
  BY <1>2, <1>3, <1>4
<1>6. l \in Seq(Writing!Bytes)
  BY <1>1, <1>5, SeqDef
<1>7. Len(l) = N
  BY <1>1, <1>5, <1>6, LenProperties
<1> QED BY <1>4, <1>5, <1>6, <1>7 DEF N, l

LEMMA ReverseOf ==
    ASSUME NEW V, NEW s \in Seq(V)
    PROVE  /\ Writing!Reverse(s) \in Seq(V) /\ Len(Writing!Reverse(s)) = Len(s)
           /\ Writing!Reverse(Writing!Reverse(s)) = s
<1> DEFINE n == Len(s)
           r == Writing!Reverse(s)
           t == Writing!Reverse(r)
<1>1. n \in Nat /\ s \in [1 .. n -> V] /\ DOMAIN s = 1 .. n
  BY LenProperties
<1>2. r = [i \in 1 .. n |-> s[(n - i) + 1]]
  BY DEF Writing!Reverse
<1>3. \A i \in 1 .. n : (n - i) + 1 \in 1 .. n /\ (n - ((n - i) + 1)) + 1 = i
  BY <1>1
<1> HIDE DEF n, r
<1>4. r \in [1 .. n -> V] /\ DOMAIN r = 1 .. n
  BY <1>1, <1>2, <1>3
<1>5. r \in Seq(V)
  BY <1>1, <1>4, SeqDef
<1>6. Len(r) = n
  BY <1>1, <1>4, <1>5, LenProperties
<1>7. t = [i \in 1 .. n |-> r[(n - i) + 1]]
  BY <1>6 DEF Writing!Reverse
<1> HIDE DEF t
<1>8. \A i \in 1 .. n : t[i] = s[i]
  BY <1>2, <1>3, <1>7
<1>9. t = s
  BY <1>1, <1>7, <1>8
<1> QED BY <1>5, <1>6, <1>9 DEF n, r, t

(* An integer that its class holds is read back from its bytes.            *)
LEMMA BytesGiveInteger ==
    ASSUME NEW c \in Writing!Classes, NEW x \in Int, Writing!Holds(c, x)
    PROVE  /\ Writing!FromBytes(c, Writing!ToBytes(c, x)) = x
           /\ Writing!ToBytes(c, x) \in Seq(Writing!Bytes) /\ Len(Writing!ToBytes(c, x)) = c.size
<1> DEFINE N == c.size
           l == Writing!Little(c, x)
           r == Writing!Rest(c, x)
           data == Writing!ToBytes(c, x)
           Step(g) == [n \in 0 .. N |-> IF n = 0 THEN Writing!Sign(c, l)
                                                 ELSE g[n - 1] * Base + l[N - n + 1]]
<1>1. N \in Nat \ {0} /\ N \in Nat /\ Base \in Nat \ {0}
  BY PatchingConstants DEF Writing!Classes
<1>2. r \in [0 .. N -> Int] /\ r[0] = x /\ \A n \in 1 .. N : r[n] = r[n - 1] \div Base
  BY RestOf
<1>3. l \in Seq(Writing!Bytes) /\ Len(l) = N /\ \A n \in 1 .. N : l[n] = r[n - 1] % Base
  BY LittleOf
<1>4. r[N] = Writing!Sign(c, l)
  BY DEF Writing!Holds
<1>5. /\ (IF c.big THEN Writing!Reverse(data) ELSE data) = l
      /\ data \in Seq(Writing!Bytes) /\ Len(data) = N
  <2>1. CASE c.big
    <3>1. data = Writing!Reverse(l)
      BY <2>1 DEF Writing!ToBytes
    <3> HIDE DEF data, l
    <3> QED BY <1>3, <2>1, <3>1, ReverseOf
  <2>2. CASE ~c.big
    BY <1>3, <2>2 DEF Writing!ToBytes
  <2> QED BY <2>1, <2>2
<1>6. Writing!FromBytes(c, data) = (CHOOSE g : g = Step(g))[N]
  <2> DEFINE d == IF c.big THEN Writing!Reverse(data) ELSE data
  <2>1. Writing!FromBytes(c, data) =
          (CHOOSE g : g = [n \in 0 .. N |-> IF n = 0 THEN Writing!Sign(c, d)
                                                     ELSE g[n - 1] * Base + d[N - n + 1]])[N]
    <3> HIDE DEF data
    <3> QED BY Zenon DEF Writing!FromBytes
  <2>2. d = l
    BY <1>5
  <2> HIDE DEF d, l, data, N
  <2> QED BY <2>1, <2>2, Zenon
<1> HIDE DEF l, r, N
<1>7. \A n \in 1 .. N : r[N - n] = r[N - (n - 1)] * Base + l[N - n + 1]
  <2>1. SUFFICES ASSUME NEW n \in 1 .. N PROVE r[N - n] = r[N - (n - 1)] * Base + l[N - n + 1]
    OBVIOUS
  <2>2. /\ N - n + 1 \in 1 .. N /\ N - (n - 1) = N - n + 1 /\ (N - n + 1) - 1 = N - n
        /\ N - n \in 0 .. N
    BY <1>1
  <2>3. r[N - n + 1] = r[N - n] \div Base /\ l[N - n + 1] = r[N - n] % Base /\ r[N - n] \in Int
    BY <1>2, <1>3, <2>2
  <2>4. \A y \in Int : y = ((y \div Base) * Base) + (y % Base)
    BY <1>1
  <2> QED BY <2>2, <2>3, <2>4
<1> DEFINE f == [n \in 0 .. N |-> r[N - n]]
<1>8. f = Step(f)
  <2>1. \A n \in 0 .. N : f[n] = Step(f)[n]
    <3>1. SUFFICES ASSUME NEW n \in 0 .. N PROVE f[n] = Step(f)[n]
      OBVIOUS
    <3>2. CASE n = 0
      BY <1>1, <1>4, <3>2
    <3>3. CASE n # 0
      <4>1. n \in 1 .. N /\ n - 1 \in 0 .. N
        BY <1>1, <3>3
      <4>2. f[n] = r[N - n] /\ f[n - 1] = r[N - (n - 1)]
        BY <4>1
      <4> HIDE DEF f
      <4> QED BY <1>7, <3>3, <4>1, <4>2
    <3> QED BY <3>2, <3>3
  <2> QED BY <2>1
<1>9. PICK g : g = Step(g) /\ g = CHOOSE h : h = Step(h)
  <2> HIDE DEF Step, f
  <2> QED BY <1>8
<1>10. \A n \in 0 .. N : g[n] = r[N - n]
  <2> DEFINE Bad == {n \in Nat : n <= N /\ g[n] # r[N - n]}
  <2>1. SUFFICES ASSUME Bad # {} PROVE FALSE
    BY <1>1
  <2>2. PICK n \in Bad : \A m \in Bad : ~(<<m, n>> \in OpToRel(<, Nat))
    BY <2>1, NatLessThanWellFounded, WFMin
  <2>3. n \in Nat /\ n <= N /\ g[n] # r[N - n]
    BY <2>2
  <2>4. g[0] = r[N] /\ N - 0 = N
    BY <1>1, <1>4, <1>9
  <2>5. n # 0
    BY <2>3, <2>4
  <2>6. n - 1 \in Nat /\ n - 1 < n /\ n - 1 <= N /\ n \in 1 .. N /\ n \in 0 .. N
    BY <1>1, <2>3, <2>5
  <2>7. g[n - 1] = r[N - (n - 1)]
    BY <2>2, <2>3, <2>6 DEF OpToRel
  <2>8. g[n] = g[n - 1] * Base + l[N - n + 1]
    BY <1>9, <2>5, <2>6
  <2> QED BY <1>7, <2>3, <2>6, <2>7, <2>8
<1>11. g[N] = x
  <2>1. N \in 0 .. N /\ N - N = 0
    BY <1>1
  <2> QED BY <1>2, <1>10, <2>1
<1>12. Writing!FromBytes(c, data) = x
  <2> HIDE DEF Step, data
  <2> QED BY <1>6, <1>9, <1>11
<1> QED BY <1>5, <1>12 DEF N

LEMMA BytesOfInteger ==
    ASSUME NEW c \in Writing!Classes, NEW x \in Int
    PROVE  Writing!ToBytes(c, x) \in Seq(Writing!Bytes) /\ Len(Writing!ToBytes(c, x)) = c.size
BY LittleOf, ReverseOf DEF Writing!ToBytes

-----------------------------------------------------------------------------
(* The bytes of instructions.                                              *)
LEMMA AssembledOf ==
    ASSUME NEW s \in Seq(Seq(Writing!Bytes))
    PROVE  LET a == Writing!Assembled(s) IN
           /\ a \in [0 .. Len(s) -> Seq(Writing!Bytes)]
           /\ \A n \in 0 .. Len(s) : Len(a[n]) <= Len(a[Len(s)])
<1> DEFINE N == Len(s)
           V == Seq(Writing!Bytes)
           next == [y \in V |-> [i \in 1 .. N |-> y \o s[i]]]
           a == Writing!Assembled(s)
           Step(g) == [n \in 0 .. N |-> IF n = 0 THEN <<>> ELSE g[n - 1] \o s[n]]
<1>1. N \in Nat /\ s \in [1 .. N -> V]
  BY LenProperties
<1>2. \A y \in V : \A i \in 1 .. N : y \o s[i] \in V /\ Len(y \o s[i]) = Len(y) + Len(s[i])
  BY <1>1, ConcatProperties
<1>3. next \in [V -> [1 .. N -> V]]
  BY <1>2
<1>4. <<>> \in V
  OBVIOUS
<1>5. PICK f : Steps(f, N, V, <<>>, next)
  <2> HIDE DEF next, N, V
  <2> QED BY <1>1, <1>3, <1>4, StepsExist
<1>6. f \in [0 .. N -> V] /\ f[0] = <<>> /\ \A i \in 1 .. N : f[i] = f[i - 1] \o s[i]
  <2>1. f \in [0 .. N -> V] /\ f[0] = <<>> /\ \A i \in 1 .. N : f[i] = next[f[i - 1]][i]
    BY <1>5 DEF Steps
  <2>2. \A i \in 1 .. N : f[i - 1] \in V
    <3>1. \A i \in 1 .. N : i - 1 \in 0 .. N
      BY <1>1
    <3> HIDE DEF V, N, next
    <3> QED BY <2>1, <3>1
  <2> HIDE DEF V, N
  <2> QED BY <2>1, <2>2
<1> HIDE DEF next
<1>7. f = Step(f)
  <2>1. \A n \in 0 .. N : f[n] = IF n = 0 THEN <<>> ELSE f[n - 1] \o s[n]
    <3>1. \A n \in 0 .. N : n # 0 => n \in 1 .. N
      BY <1>1
    <3> QED BY <1>6, <3>1
  <2>2. f = [n \in 0 .. N |-> f[n]]
    BY <1>6
  <2> QED BY <2>1, <2>2
<1>8. a = Step(a)
  <2>1. a = CHOOSE g : g = Step(g)
    BY Zenon DEF Writing!Assembled
  <2> HIDE DEF Step, a
  <2> QED BY <1>7, <2>1, Zenon
<1> HIDE DEF a, V, N
<1>9. a[0] = <<>> /\ \A n \in 1 .. N : a[n] = a[n - 1] \o s[n]
  <2>1. 0 \in 0 .. N /\ \A n \in 1 .. N : n \in 0 .. N /\ n # 0
    BY <1>1
  <2> QED BY <1>8, <2>1
<1>10. \A n \in 0 .. N : a[n] \in V
  <2> DEFINE Bad == {n \in Nat : n <= N /\ a[n] \notin V}
  <2>1. SUFFICES ASSUME Bad # {} PROVE FALSE
    BY <1>1
  <2>2. PICK n \in Bad : \A m \in Bad : ~(<<m, n>> \in OpToRel(<, Nat))
    BY <2>1, NatLessThanWellFounded, WFMin
  <2>3. n \in Nat /\ n <= N /\ a[n] \notin V
    BY <2>2
  <2>4. n # 0
    BY <1>4, <1>9, <2>3
  <2>5. n - 1 \in Nat /\ n - 1 < n /\ n - 1 <= N /\ n \in 1 .. N
    BY <1>1, <2>3, <2>4
  <2>6. a[n - 1] \in V
    BY <2>2, <2>3, <2>5 DEF OpToRel
  <2> QED BY <1>2, <1>9, <2>3, <2>5, <2>6
<1>11. a \in [0 .. N -> V]
  BY <1>8, <1>10
<1>12. \A n \in 0 .. N : Len(a[n]) \in Nat
  BY <1>10, LenProperties DEF V
<1>13. \A n \in 1 .. N : Len(a[n - 1]) <= Len(a[n])
  <2>1. SUFFICES ASSUME NEW n \in 1 .. N PROVE Len(a[n - 1]) <= Len(a[n])
    OBVIOUS
  <2>2. n - 1 \in 0 .. N /\ s[n] \in V
    BY <1>1
  <2>3. a[n - 1] \in V /\ a[n] = a[n - 1] \o s[n]
    BY <1>9, <1>10, <2>2
  <2>4. Len(a[n]) = Len(a[n - 1]) + Len(s[n])
    BY <1>2, <2>3
  <2>5. Len(a[n - 1]) \in Nat /\ Len(s[n]) \in Nat
    BY <1>12, <2>2, LenProperties DEF V
  <2>6. \A x, y, z : x \in Nat /\ y \in Nat /\ z = x + y => x <= z
    OBVIOUS
  <2> QED BY <2>4, <2>5, <2>6, Zenon
<1>14. \A n \in 0 .. N : Len(a[n]) <= Len(a[N])
  <2> DEFINE Bad == {d \in Nat : d <= N /\ ~(Len(a[N - d]) <= Len(a[N]))}
  <2>1. Bad = {}
    <3>1. SUFFICES ASSUME Bad # {} PROVE FALSE
      OBVIOUS
    <3>2. PICK d \in Bad : \A e \in Bad : ~(<<e, d>> \in OpToRel(<, Nat))
      BY <3>1, NatLessThanWellFounded, WFMin
    <3>3. d \in Nat /\ d <= N /\ ~(Len(a[N - d]) <= Len(a[N]))
      BY <3>2
    <3>4. d # 0
      <4>1. N - 0 = N /\ N \in 0 .. N
        BY <1>1
      <4> QED BY <1>12, <3>3, <4>1
    <3>5. /\ d - 1 \in Nat /\ d - 1 < d /\ d - 1 <= N /\ N - (d - 1) \in 1 .. N
          /\ N - (d - 1) - 1 = N - d /\ N - d \in 0 .. N /\ N \in 0 .. N /\ N - (d - 1) \in 0 .. N
      BY <1>1, <3>3, <3>4
    <3>6. Len(a[N - (d - 1)]) <= Len(a[N])
      BY <3>2, <3>3, <3>5 DEF OpToRel
    <3>7. Len(a[N - d]) <= Len(a[N - (d - 1)])
      BY <1>13, <3>5
    <3>8. Len(a[N - d]) \in Nat /\ Len(a[N - (d - 1)]) \in Nat /\ Len(a[N]) \in Nat
      BY <1>12, <3>5
    <3> QED BY <3>3, <3>6, <3>7, <3>8
  <2>2. SUFFICES ASSUME NEW n \in 0 .. N PROVE Len(a[n]) <= Len(a[N])
    OBVIOUS
  <2>3. N - n \in Nat /\ N - n <= N /\ N - (N - n) = n
    BY <1>1
  <2> QED BY <2>1, <2>3
<1> QED BY <1>11, <1>14 DEF a, V, N

-----------------------------------------------------------------------------
(* What an item may change, and when it may: WritesBytes, WritesNote,      *)
(* NamesSlot, SetsPoint; the rest of a place stays.                        *)
WritesBytes(i, ok) ==
    /\ i.op \in Writing!Writes /\ (ok \/ i.op = "patch_asm")
    /\ \A a \in Mapped : a \notin Writing!Covers(i.at, Writing!Length(i)) => mem'[a] = mem[a]
WritesNote(i) ==
    /\ i.op = "comment"
    /\ \A a \in Writing!Addresses : a # i.at => notes'[a] = notes[a]
NamesSlot(i, ok) ==
    /\ ok
    /\ \/ /\ i.op = "declare" /\ slots[i.offset] # Kept
          /\ Writing!Named(i.name) \subseteq {i.offset}
          /\ slots' = [slots EXCEPT ![i.offset] = i.name]
       \/ /\ i.op = "delete" /\ i.name # Kept
          /\ \E o \in Writing!Named(i.name) : slots' = [slots EXCEPT ![o] = Writing!Nothing]
Conditions(i, ok) ==
    \/ points'[i.at].cond = points[i.at].cond /\ points'[i.at].lang = points[i.at].lang
    \/ points'[i.at].cond = i.cond /\ i.lang \in {Writing!Nothing, points'[i.at].lang}
    \/ i.cond = Writing!Nothing /\ i.lang = points'[i.at].lang /\ ~ok
    \/ points'[i.at].cond = Writing!Nothing
SetsPoint(i, ok) ==
    /\ i.op \in Writing!Points
    /\ \A a : a # i.at => /\ a \in DOMAIN points' <=> a \in DOMAIN points
                          /\ a \in DOMAIN points => points'[a] = points[a]
    /\ i.op = "add" => /\ i.at \notin DOMAIN points /\ ok
                       /\ points'[i.at].cond = Writing!Nothing
    /\ i.op = "remove" => i.at \notin DOMAIN points'
    /\ i.op \in {"toggle", "condition"} => i.at \in DOMAIN points /\ i.at \in DOMAIN points'
    /\ i.op = "toggle" => /\ points'[i.at].cond = points[i.at].cond
                          /\ points'[i.at].lang = points[i.at].lang
    /\ i.op = "condition" => points'[i.at].on = points[i.at].on /\ Conditions(i, ok)
Changes(i, ok, v) ==
    /\ UNCHANGED mem \/ WritesBytes(i, ok)
    /\ UNCHANGED notes \/ WritesNote(i)
    /\ UNCHANGED <<code, functions>> \/ i.op \in Writing!Defines
    /\ UNCHANGED slots \/ NamesSlot(i, ok)
    /\ UNCHANGED points \/ SetsPoint(i, ok)
    /\ i.op = "put_int" /\ ok => Writing!Holds(i.class, i.value)
    /\ i.op = "get_int" =>
           v = Writing!FromBytes(i.class, Writing!read_bytes_bss_safe(i.at, i.class.size))

WorldTypeOK ==
    /\ mem \in [Mapped -> Writing!Bytes \cup {Writing!Unloaded}]
    /\ DOMAIN notes = Writing!Addresses
    /\ \A a \in Writing!Addresses : DOMAIN notes[a] = {"line", "func", "pseudo"}
    /\ DOMAIN slots = Offsets
    /\ \A a \in DOMAIN points : DOMAIN points[a] = {"on", "cond", "lang"}
AtMostOnce ==
    \A o, p \in Offsets : slots[o] = slots[p] => o = p \/ slots[o] = Writing!Nothing
Handled(i, ok, v) ==
    /\ ok \in BOOLEAN /\ Writing!Reply(i, ok, v) /\ Changes(i, ok, v)
    /\ WorldTypeOK' /\ (ok => Writing!Done(i)')

LEMMA ItemAddress ==
    ASSUME NEW i \in Writing!Items
    PROVE  i.at \in Nat /\ i.at \in Writing!Addresses /\ Writing!IsItem(i)
BY PatchingConstants DEF Writing!IsItem, Writing!Addresses

LEMMA NothingDone ==
    ASSUME WorldTypeOK, UNCHANGED Writing!world PROVE WorldTypeOK'
BY DEF WorldTypeOK, Writing!world

LEMMA FailedItem ==
    ASSUME WorldTypeOK, NEW i \in Writing!Items, i.op # "get_int", Writing!Fails(i)
    PROVE  \E ok, v : Handled(i, ok, v)
<1>1. Writing!Reply(i, FALSE, Writing!Nothing) /\ UNCHANGED Writing!world
  BY DEF Writing!Fails, Writing!Refused
<1>2. Changes(i, FALSE, Writing!Nothing)
  BY <1>1 DEF Changes, Writing!world
<1> QED BY <1>1, <1>2, NothingDone DEF Handled

LEMMA ReadItem ==
    ASSUME WorldTypeOK, NEW i \in Writing!Items, Writing!get_int(i) \/ Writing!get_bytes(i)
    PROVE  \E ok, v : Handled(i, ok, v)
<1>1. PICK v : /\ Writing!Reply(i, TRUE, v)
               /\ i.op = "get_int" => v = Writing!FromBytes(i.class, Writing!read_bytes_bss_safe(i.at, i.class.size))
  BY DEF Writing!get_int, Writing!get_bytes
<1>2. UNCHANGED Writing!world /\ i.op \in {"get_int", "get_bytes"}
  BY DEF Writing!get_int, Writing!get_bytes
<1>3. Changes(i, TRUE, v)
  BY <1>1, <1>2 DEF Changes, Writing!world
<1>4. Writing!Done(i)'
  BY <1>2 DEF Writing!Done
<1> QED BY <1>1, <1>2, <1>3, <1>4, NothingDone DEF Handled

LEMMA BytesWritten ==
    ASSUME WorldTypeOK, NEW ea \in Nat, NEW d \in Seq(Writing!Bytes), NEW n \in Nat, Len(d) <= n,
           mem' = Writing!Written(ea, d)
    PROVE  /\ mem' \in [Mapped -> Writing!Bytes \cup {Writing!Unloaded}]
           /\ \A a \in Mapped : a \notin Writing!Covers(ea, n) => mem'[a] = mem[a]
           /\ Writing!Holding(ea, d)'
<1>1. Mapped \subseteq Nat /\ Len(d) \in Nat
  BY PatchingConstants, LenProperties
<1>2. \A a \in Mapped : mem'[a] = IF a \in Writing!Covers(ea, Len(d)) THEN d[a - ea + 1] ELSE mem[a]
  BY DEF Writing!Written
<1>3. ASSUME NEW a \in Mapped, a \in Writing!Covers(ea, Len(d))
      PROVE  d[a - ea + 1] \in Writing!Bytes /\ a \in Writing!Covers(ea, n)
  <2>1. a \in Nat /\ ea <= a /\ a <= ea + Len(d) - 1
    BY <1>1, <1>3 DEF Writing!Covers
  <2>2. a - ea + 1 \in 1 .. Len(d) /\ a \in Writing!Covers(ea, n)
    BY <1>1, <2>1 DEF Writing!Covers
  <2>3. \A k \in 1 .. Len(d) : d[k] \in Writing!Bytes
    BY ElementOfSeq
  <2> QED BY <2>2, <2>3, Zenon
<1>4. \A a \in Mapped : mem'[a] \in Writing!Bytes \cup {Writing!Unloaded}
  BY <1>2, <1>3 DEF WorldTypeOK
<1>5. mem' = [a \in Mapped |-> mem'[a]]
  BY DEF Writing!Written
<1>6. mem' \in [Mapped -> Writing!Bytes \cup {Writing!Unloaded}]
  BY <1>4, <1>5, Zenon
<1>7. \A a \in Mapped : a \notin Writing!Covers(ea, n) => mem'[a] = mem[a]
  BY <1>2, <1>3
<1>8. Writing!Holding(ea, d)'
  BY <1>2 DEF Writing!Holding
<1> QED BY <1>6, <1>7, <1>8

LEMMA PatchedItem ==
    ASSUME WorldTypeOK, NEW i \in Writing!Items, Writing!patch(i)
    PROVE  \E ok, v : Handled(i, ok, v)
<1>1. i.op = "patch" /\ i.at \in Nat /\ i.data \in Seq(Writing!Bytes)
  BY ItemAddress DEF Writing!patch, Writing!IsItem
<1>2. CASE Writing!Fails(i)
  BY <1>1, <1>2, FailedItem
<1>3. CASE ~Writing!Fails(i)
  <2>1. /\ mem' = Writing!Written(i.at, i.data) /\ Writing!Reply(i, TRUE, Writing!Nothing)
        /\ UNCHANGED <<notes, code, functions, slots, points>>
    BY <1>3 DEF Writing!patch, Writing!Succeeds
  <2>2. Len(i.data) \in Nat /\ Len(i.data) <= Len(i.data)
    BY <1>1, LenProperties
  <2>3. Writing!Length(i) = Len(i.data)
    BY <1>1 DEF Writing!Length
  <2>4. /\ mem' \in [Mapped -> Writing!Bytes \cup {Writing!Unloaded}]
        /\ \A a \in Mapped : a \notin Writing!Covers(i.at, Len(i.data)) => mem'[a] = mem[a]
        /\ Writing!Holding(i.at, i.data)'
    BY <1>1, <2>1, <2>2, BytesWritten
  <2>5. WorldTypeOK'
    BY <2>1, <2>4 DEF WorldTypeOK
  <2>6. WritesBytes(i, TRUE)
    BY <1>1, <2>3, <2>4 DEF WritesBytes, Writing!Writes
  <2>7. Changes(i, TRUE, Writing!Nothing)
    BY <1>1, <2>1, <2>6 DEF Changes
  <2>8. Writing!Done(i)'
    BY <1>1, <2>4 DEF Writing!Done
  <2> QED BY <2>1, <2>5, <2>7, <2>8 DEF Handled
<1> QED BY <1>2, <1>3

LEMMA PutItem ==
    ASSUME WorldTypeOK, NEW i \in Writing!Items, Writing!put_int(i)
    PROVE  \E ok, v : Handled(i, ok, v)
<1> DEFINE d == Writing!ToBytes(i.class, i.value)
<1>1. i.op = "put_int" /\ i.at \in Nat /\ i.class \in Writing!Classes /\ i.value \in Int
  BY ItemAddress DEF Writing!put_int, Writing!IsItem
<1>2. CASE Writing!Fails(i)
  BY <1>1, <1>2, FailedItem
<1>3. CASE ~Writing!Fails(i)
  <2>1. /\ mem' = Writing!Written(i.at, d) /\ Writing!Reply(i, TRUE, Writing!Nothing)
        /\ UNCHANGED <<notes, code, functions, slots, points>> /\ Writing!Holds(i.class, i.value)
    BY <1>3 DEF Writing!put_int, Writing!Succeeds
  <2>2. d \in Seq(Writing!Bytes) /\ Len(d) = i.class.size
    BY <1>1, BytesOfInteger
  <2> HIDE DEF d
  <2>3. Len(d) \in Nat /\ Len(d) <= Len(d) /\ Writing!Length(i) = Len(d)
    BY <1>1, <2>2, LenProperties DEF Writing!Length
  <2>4. /\ mem' \in [Mapped -> Writing!Bytes \cup {Writing!Unloaded}]
        /\ \A a \in Mapped : a \notin Writing!Covers(i.at, Len(d)) => mem'[a] = mem[a]
        /\ Writing!Holding(i.at, d)'
    BY <1>1, <2>1, <2>2, <2>3, BytesWritten
  <2>5. WorldTypeOK'
    BY <2>1, <2>4 DEF WorldTypeOK
  <2>6. WritesBytes(i, TRUE)
    BY <1>1, <2>3, <2>4 DEF WritesBytes, Writing!Writes
  <2>7. Changes(i, TRUE, Writing!Nothing)
    BY <1>1, <2>1, <2>6 DEF Changes
  <2>8. Writing!Done(i)'
    BY <1>1, <2>4 DEF Writing!Done, d
  <2> QED BY <2>1, <2>5, <2>7, <2>8 DEF Handled
<1> QED BY <1>2, <1>3

LEMMA AssembledItem ==
    ASSUME WorldTypeOK, NEW i \in Writing!Items, Writing!patch_asm(i)
    PROVE  \E ok, v : Handled(i, ok, v)
<1> DEFINE s == i.insns
           bad == Writing!Unknown(s)
           done == IF bad = {} THEN Len(s) ELSE Writing!First(bad) - 1
           d == Writing!Assembled(s)[done]
<1>1. i.op = "patch_asm" /\ i.at \in Nat /\ s \in Seq(Seq(Writing!Bytes))
  BY ItemAddress DEF Writing!patch_asm, Writing!IsItem
<1>2. PICK ok \in BOOLEAN :
          /\ ok <=> bad = {}
          /\ mem' = Writing!Written(i.at, d) /\ Writing!Reply(i, ok, Writing!Nothing)
          /\ UNCHANGED <<notes, code, functions, slots, points>>
  BY DEF Writing!patch_asm, Writing!Succeeds, Writing!Refused
<1>3. DOMAIN s = 1 .. Len(s) /\ Len(s) \in Nat
  BY <1>1, LenProperties
<1>4. done \in 0 .. Len(s)
  <2>1. CASE bad = {}
    BY <1>3, <2>1
  <2>2. CASE bad # {}
    <3>1. bad \subseteq 1 .. Len(s) /\ bad \subseteq Nat
      BY <1>3 DEF Writing!Unknown
    <3>2. Writing!First(bad) \in 1 .. Len(s)
      BY <2>2, <3>1, FirstOf
    <3> QED BY <1>3, <2>2, <3>2
  <2> QED BY <2>1, <2>2
<1>5. d \in Seq(Writing!Bytes) /\ Len(d) <= Len(Writing!AllBytes(s)) /\ Writing!AllBytes(s) \in Seq(Writing!Bytes)
  <2>1. Len(s) \in 0 .. Len(s)
    BY <1>3
  <2> HIDE DEF done, s
  <2> QED BY <1>1, <1>4, <2>1, AssembledOf DEF Writing!AllBytes
<1>6. bad = {} => d = Writing!AllBytes(s)
  BY DEF Writing!AllBytes
<1> HIDE DEF d, done, bad
<1>7. Len(Writing!AllBytes(s)) \in Nat /\ Writing!Length(i) = Len(Writing!AllBytes(s))
  BY <1>1, <1>5, LenProperties DEF Writing!Length
<1>8. /\ mem' \in [Mapped -> Writing!Bytes \cup {Writing!Unloaded}]
      /\ \A a \in Mapped : a \notin Writing!Covers(i.at, Len(Writing!AllBytes(s))) => mem'[a] = mem[a]
      /\ Writing!Holding(i.at, d)'
  BY <1>1, <1>2, <1>5, <1>7, BytesWritten
<1>9. WorldTypeOK'
  BY <1>2, <1>8 DEF WorldTypeOK
<1>10. WritesBytes(i, ok)
  BY <1>1, <1>7, <1>8 DEF WritesBytes, Writing!Writes
<1>11. Changes(i, ok, Writing!Nothing)
  BY <1>1, <1>2, <1>10 DEF Changes
<1>12. ok => Writing!Done(i)'
  <2>1. SUFFICES ASSUME ok PROVE Writing!Done(i)'
    OBVIOUS
  <2>2. d = Writing!AllBytes(s)
    BY <1>2, <1>6, <2>1
  <2>3. Writing!Holding(i.at, Writing!AllBytes(s))'
    BY <1>8, <2>2 DEF Writing!Holding
  <2> QED BY <1>1, <2>3 DEF Writing!Done
<1> QED BY <1>2, <1>9, <1>11, <1>12 DEF Handled

-----------------------------------------------------------------------------
LEMMA NotedItem ==
    ASSUME WorldTypeOK, NEW i \in Writing!Items, NEW where, "line" \in where, Writing!Noted(i, where)
    PROVE  /\ DOMAIN notes' = Writing!Addresses
           /\ \A a \in Writing!Addresses : DOMAIN notes'[a] = {"line", "func", "pseudo"}
           /\ \A a \in Writing!Addresses : a # i.at => notes'[a] = notes[a]
           /\ notes'[i.at].line = i.new
<1>1. i.at \in Writing!Addresses
  BY ItemAddress
<1>2. PICK r : r = [w \in DOMAIN notes[i.at] |-> IF w \in where THEN i.new ELSE notes[i.at][w]]
  OBVIOUS
<1>3. notes' = [notes EXCEPT ![i.at] = r]
  BY <1>2 DEF Writing!Noted
<1>4. DOMAIN r = {"line", "func", "pseudo"} /\ r["line"] = i.new
  BY <1>1, <1>2 DEF WorldTypeOK
<1>5. notes'[i.at] = r /\ DOMAIN notes' = Writing!Addresses
  BY <1>1, <1>3 DEF WorldTypeOK
<1>6. \A a \in Writing!Addresses : a # i.at => notes'[a] = notes[a]
  BY <1>1, <1>3 DEF WorldTypeOK
<1>7. \A a \in Writing!Addresses : DOMAIN notes'[a] = {"line", "func", "pseudo"}
  BY <1>4, <1>5, <1>6 DEF WorldTypeOK
<1> QED BY <1>4, <1>5, <1>6, <1>7

LEMMA CommentedItem ==
    ASSUME WorldTypeOK, NEW i \in Writing!Items, Writing!set_comments(i)
    PROVE  \E ok, v : Handled(i, ok, v)
<1>1. i.op = "comment"
  BY DEF Writing!set_comments
<1>2. CASE Writing!Fails(i)
  BY <1>1, <1>2, FailedItem
<1>3. CASE ~Writing!Fails(i)
  <2>1. PICK ok, where :
          /\ ok \in BOOLEAN /\ "line" \in where /\ Writing!Noted(i, where) /\ Writing!Reply(i, ok, Writing!Nothing)
          /\ UNCHANGED <<mem, code, functions, slots, points>>
    <3>1. UNCHANGED <<mem, code, functions, slots, points>>
      BY <1>3 DEF Writing!set_comments
    <3>2. \/ Writing!Noted(i, {"line"}) /\ Writing!Succeeds(i)
          \/ Writing!Noted(i, {"line"}) /\ Writing!Refused(i)
          \/ Writing!Noted(i, {"line", "func"}) /\ Writing!Succeeds(i)
          \/ Writing!Noted(i, {"line", "pseudo"}) /\ Writing!Succeeds(i)
      BY <1>3 DEF Writing!set_comments
    <3>3. "line" \in {"line"} /\ "line" \in {"line", "func"} /\ "line" \in {"line", "pseudo"}
      OBVIOUS
    <3>4. /\ Writing!Succeeds(i) <=> Writing!Reply(i, TRUE, Writing!Nothing)
          /\ Writing!Refused(i) <=> Writing!Reply(i, FALSE, Writing!Nothing)
      BY DEF Writing!Succeeds, Writing!Refused
    <3> QED BY <3>1, <3>2, <3>3, <3>4, Zenon
  <2>2. /\ DOMAIN notes' = Writing!Addresses
        /\ \A a \in Writing!Addresses : DOMAIN notes'[a] = {"line", "func", "pseudo"}
        /\ \A a \in Writing!Addresses : a # i.at => notes'[a] = notes[a]
        /\ notes'[i.at].line = i.new
    BY <2>1, NotedItem
  <2>3. WorldTypeOK'
    BY <2>1, <2>2 DEF WorldTypeOK
  <2>4. WritesNote(i)
    BY <1>1, <2>2 DEF WritesNote
  <2>5. Changes(i, ok, Writing!Nothing)
    BY <1>1, <2>1, <2>4 DEF Changes
  <2>6. Writing!Done(i)'
    BY <1>1, <2>2 DEF Writing!Done
  <2> QED BY <2>1, <2>3, <2>5, <2>6 DEF Handled
<1> QED BY <1>2, <1>3

LEMMA DefinedItem ==
    ASSUME WorldTypeOK, NEW i \in Writing!Items,
           Writing!define_func(i) \/ Writing!define_code(i) \/ Writing!undefine(i)
    PROVE  \E ok, v : Handled(i, ok, v)
<1>1. i.op \in {"define_func", "define_code", "undefine"}
  BY DEF Writing!define_func, Writing!define_code, Writing!undefine
<1>2. CASE Writing!Fails(i)
  BY <1>1, <1>2, FailedItem
<1>3. CASE ~Writing!Fails(i)
  <2>1. /\ Writing!Reply(i, TRUE, Writing!Nothing) /\ UNCHANGED <<mem, notes, slots, points>>
        /\ i.op = "define_func" => i.at \in functions'
        /\ i.op = "define_code" => i.at \in code'
        /\ i.op = "undefine" => /\ code' = code \ Writing!Covers(i.at, i.size)
                                /\ functions' = functions \ Writing!Covers(i.at, i.size)
    BY <1>3 DEF Writing!define_func, Writing!define_code, Writing!undefine, Writing!Succeeds
  <2>2. WorldTypeOK'
    BY <2>1 DEF WorldTypeOK
  <2>3. Changes(i, TRUE, Writing!Nothing)
    BY <1>1, <2>1 DEF Changes, Writing!Defines
  <2>4. Writing!Done(i)'
    <3>1. CASE i.op = "define_func"
      BY <2>1, <3>1 DEF Writing!Done
    <3>2. CASE i.op = "define_code"
      BY <2>1, <3>2 DEF Writing!Done
    <3>3. CASE i.op = "undefine"
      <4>1. Writing!Covers(i.at, i.size) \cap (functions' \cup code') = {}
        BY <2>1, <3>3
      <4> QED BY <3>3, <4>1 DEF Writing!Done
    <3> QED BY <1>1, <3>1, <3>2, <3>3
  <2> QED BY <2>1, <2>2, <2>3, <2>4 DEF Handled
<1> QED BY <1>2, <1>3

LEMMA NamedItem ==
    ASSUME WorldTypeOK, AtMostOnce, NEW i \in Writing!Items,
           Writing!declare_stack(i) \/ Writing!delete_stack(i)
    PROVE  \E ok, v : Handled(i, ok, v)
<1>1. i.op \in {"declare", "delete"} /\ i.name # Writing!Nothing
  BY ItemAddress DEF Writing!IsItem, Writing!declare_stack, Writing!delete_stack
<1>2. CASE Writing!Fails(i)
  BY <1>1, <1>2, FailedItem
<1>3. CASE ~Writing!Fails(i)
  <2>1. Writing!Reply(i, TRUE, Writing!Nothing) /\ UNCHANGED <<mem, notes, code, functions, points>>
    BY <1>3 DEF Writing!declare_stack, Writing!delete_stack, Writing!Succeeds
  <2>2. NamesSlot(i, TRUE)
    BY <1>3 DEF NamesSlot, Writing!declare_stack, Writing!delete_stack
  <2>3. Changes(i, TRUE, Writing!Nothing)
    BY <1>1, <2>1, <2>2 DEF Changes
  <2>4. PICK o, x : slots' = [slots EXCEPT ![o] = x]
    BY <2>2 DEF NamesSlot
  <2>5. WorldTypeOK'
    <3>1. DOMAIN slots' = Offsets
      BY <2>4 DEF WorldTypeOK
    <3> QED BY <2>1, <3>1 DEF WorldTypeOK
  <2>6. Writing!Done(i)'
    <3>1. CASE i.op = "declare"
      <4>1. i.offset \in Offsets
        BY <3>1, ItemAddress DEF Writing!IsItem
      <4>2. slots'[i.offset] = i.name
        BY <2>2, <3>1, <4>1 DEF NamesSlot, WorldTypeOK
      <4> QED BY <3>1, <4>2 DEF Writing!Done
    <3>2. CASE i.op = "delete"
      <4>1. PICK p \in Writing!Named(i.name) : slots' = [slots EXCEPT ![p] = Writing!Nothing]
        BY <2>2, <3>2 DEF NamesSlot
      <4>2. p \in Offsets /\ slots[p] = i.name /\ slots'[p] = Writing!Nothing
        BY <4>1 DEF Writing!Named, WorldTypeOK
      <4>3. ASSUME NEW q \in Offsets, slots'[q] = i.name PROVE FALSE
        <5>1. q # p
          BY <1>1, <4>2, <4>3
        <5>2. slots[q] = i.name
          BY <4>1, <4>3, <5>1 DEF WorldTypeOK
        <5> QED BY <1>1, <4>2, <5>1, <5>2 DEF AtMostOnce
      <4>4. Writing!Named(i.name)' = {}
        BY <4>3 DEF Writing!Named
      <4> QED BY <3>2, <4>4 DEF Writing!Done
    <3> QED BY <1>1, <3>1, <3>2
  <2> QED BY <2>1, <2>3, <2>5, <2>6 DEF Handled
<1> QED BY <1>2, <1>3

-----------------------------------------------------------------------------
(* Breakpoints.                                                            *)
LEMMA PointIsSet ==
    ASSUME WorldTypeOK, NEW ea, ea \in DOMAIN points, NEW r, DOMAIN r = {"on", "cond", "lang"},
           points' = [points EXCEPT ![ea] = r]
    PROVE  /\ DOMAIN points' = DOMAIN points /\ points'[ea] = r
           /\ \A a \in DOMAIN points : a # ea => points'[a] = points[a]
           /\ \A a \in DOMAIN points' : DOMAIN points'[a] = {"on", "cond", "lang"}
BY DEF WorldTypeOK

LEMMA AddedItem ==
    ASSUME WorldTypeOK, NEW i \in Writing!Items, Writing!dbg_add_bp(i)
    PROVE  \E ok, v : Handled(i, ok, v)
<1>1. i.op = "add"
  BY DEF Writing!dbg_add_bp
<1>2. CASE Writing!Fails(i)
  BY <1>1, <1>2, FailedItem
<1>3. CASE i.at \in DOMAIN points /\ ~Writing!Fails(i)
  <2>1. Writing!Reply(i, TRUE, Writing!Nothing) /\ UNCHANGED Writing!world
    BY <1>3 DEF Writing!dbg_add_bp, Writing!list_breakpoints, Writing!Succeeds
  <2>2. Changes(i, TRUE, Writing!Nothing)
    BY <1>1, <2>1 DEF Changes, Writing!world
  <2>3. Writing!Done(i)'
    BY <1>1, <1>3, <2>1 DEF Writing!Done, Writing!world
  <2> QED BY <2>1, <2>2, <2>3, NothingDone DEF Handled
<1>4. CASE i.at \notin DOMAIN points /\ ~Writing!Fails(i)
  <2>1. PICK r : r = [on |-> TRUE, cond |-> Writing!Nothing, lang |-> "IDC"]
    OBVIOUS
  <2>2. /\ Writing!Reply(i, TRUE, Writing!Nothing) /\ UNCHANGED <<mem, notes, code, functions, slots>>
        /\ points' = [a \in DOMAIN points \cup {i.at} |-> IF a = i.at THEN r ELSE points[a]]
    BY <1>4, <2>1 DEF Writing!dbg_add_bp, Writing!list_breakpoints, Writing!Succeeds
  <2>3. /\ DOMAIN points' = DOMAIN points \cup {i.at} /\ points'[i.at] = r
        /\ \A a \in DOMAIN points : a # i.at => points'[a] = points[a]
    BY <2>2
  <2>4. DOMAIN r = {"on", "cond", "lang"} /\ r.cond = Writing!Nothing
    BY <2>1
  <2>5. WorldTypeOK'
    BY <2>2, <2>3, <2>4 DEF WorldTypeOK
  <2>6. SetsPoint(i, TRUE)
    BY <1>1, <1>4, <2>3, <2>4 DEF SetsPoint, Writing!Points
  <2>7. Changes(i, TRUE, Writing!Nothing)
    BY <1>1, <2>2, <2>6 DEF Changes
  <2>8. Writing!Done(i)'
    BY <1>1, <2>3 DEF Writing!Done
  <2> QED BY <2>2, <2>5, <2>7, <2>8 DEF Handled
<1> QED BY <1>2, <1>3, <1>4

LEMMA RemovedItem ==
    ASSUME WorldTypeOK, NEW i \in Writing!Items, Writing!dbg_delete_bp(i)
    PROVE  \E ok, v : Handled(i, ok, v)
<1>1. i.op = "remove"
  BY DEF Writing!dbg_delete_bp
<1>2. CASE Writing!Fails(i)
  BY <1>1, <1>2, FailedItem
<1>3. CASE ~Writing!Fails(i)
  <2>1. /\ Writing!Reply(i, TRUE, Writing!Nothing) /\ UNCHANGED <<mem, notes, code, functions, slots>>
        /\ points' = [a \in DOMAIN points \ {i.at} |-> points[a]]
    BY <1>3 DEF Writing!dbg_delete_bp, Writing!Succeeds, Writing!Restrict
  <2>2. /\ DOMAIN points' = DOMAIN points \ {i.at}
        /\ \A a \in DOMAIN points : a # i.at => points'[a] = points[a]
    BY <2>1
  <2>3. WorldTypeOK'
    BY <2>1, <2>2 DEF WorldTypeOK
  <2>4. SetsPoint(i, TRUE)
    BY <1>1, <2>2 DEF SetsPoint, Writing!Points
  <2>5. Changes(i, TRUE, Writing!Nothing)
    BY <1>1, <2>1, <2>4 DEF Changes
  <2>6. Writing!Done(i)'
    BY <1>1, <2>2 DEF Writing!Done
  <2> QED BY <2>1, <2>3, <2>5, <2>6 DEF Handled
<1> QED BY <1>2, <1>3

LEMMA ToggledItem ==
    ASSUME WorldTypeOK, NEW i \in Writing!Items, Writing!dbg_toggle_bp(i)
    PROVE  \E ok, v : Handled(i, ok, v)
<1>1. i.op = "toggle"
  BY DEF Writing!dbg_toggle_bp
<1>2. CASE Writing!Fails(i)
  BY <1>1, <1>2, FailedItem
<1>3. CASE ~Writing!Fails(i)
  <2>1. PICK r : r = [points[i.at] EXCEPT !.on = i.on]
    OBVIOUS
  <2>2. /\ Writing!Reply(i, TRUE, Writing!Nothing) /\ UNCHANGED <<mem, notes, code, functions, slots>>
        /\ i.at \in DOMAIN points
    BY <1>3 DEF Writing!dbg_toggle_bp, Writing!list_breakpoints, Writing!Succeeds
  <2>3. points' = [points EXCEPT ![i.at] = r]
    BY <1>3, <2>1, Zenon DEF Writing!dbg_toggle_bp
  <2>4. DOMAIN points[i.at] = {"on", "cond", "lang"}
    BY <2>2 DEF WorldTypeOK
  <2>5. /\ DOMAIN r = {"on", "cond", "lang"} /\ r.on = i.on
        /\ r.cond = points[i.at].cond /\ r.lang = points[i.at].lang
    BY <2>1, <2>4
  <2>6. /\ DOMAIN points' = DOMAIN points /\ points'[i.at] = r
        /\ \A a \in DOMAIN points : a # i.at => points'[a] = points[a]
        /\ \A a \in DOMAIN points' : DOMAIN points'[a] = {"on", "cond", "lang"}
    BY <2>2, <2>3, <2>5, PointIsSet
  <2>7. WorldTypeOK'
    BY <2>2, <2>6 DEF WorldTypeOK
  <2>8. SetsPoint(i, TRUE)
    BY <1>1, <2>2, <2>5, <2>6 DEF SetsPoint, Writing!Points
  <2>9. Changes(i, TRUE, Writing!Nothing)
    BY <1>1, <2>2, <2>8 DEF Changes
  <2>10. Writing!Done(i)'
    BY <1>1, <2>2, <2>5, <2>6 DEF Writing!Done
  <2> QED BY <2>2, <2>7, <2>9, <2>10 DEF Handled
<1> QED BY <1>2, <1>3

LEMMA ConditionedItem ==
    ASSUME WorldTypeOK, NEW i \in Writing!Items, Writing!dbg_set_bp_condition(i)
    PROVE  \E ok, v : Handled(i, ok, v)
<1>1. i.op = "condition"
  BY DEF Writing!dbg_set_bp_condition
<1>2. CASE i.at \notin DOMAIN points
  <2>1. Writing!Fails(i)
    BY <1>2 DEF Writing!dbg_set_bp_condition, Writing!list_breakpoints
  <2> QED BY <1>1, <2>1, FailedItem
<1>3. CASE i.at \in DOMAIN points
  <2> DEFINE p == points[i.at]
             p1 == Writing!Cleared(i)
             p2 == Writing!InLanguage(i)
             p3 == Writing!Conditioned(i)
  <2> DEFINE Did(ok, r) ==
               /\ r \in {p, p1, p2, p3}
               /\ ok => r = p3
               /\ points' = [points EXCEPT ![i.at] = r]
               /\ Writing!Reply(i, ok, Writing!Nothing)
               /\ UNCHANGED <<mem, notes, code, functions, slots>>
  <2>0. \E ok \in BOOLEAN : \E r : Did(ok, r)
    <3>1. p3 \in {p, p1, p2, p3}
      OBVIOUS
    <3>2. UNCHANGED <<mem, notes, code, functions, slots>>
      BY <1>3 DEF Writing!dbg_set_bp_condition, Writing!list_breakpoints
    <3>3. \/ points' = [points EXCEPT ![i.at] = p3] /\ Writing!Reply(i, TRUE, Writing!Nothing)
          \/ \E r \in {p, p1, p2, p3} :
                points' = [points EXCEPT ![i.at] = r] /\ Writing!Reply(i, FALSE, Writing!Nothing)
      <4> HIDE DEF p1, p2, p3, p
      <4>1. \/ points' = [points EXCEPT ![i.at] = p3] /\ Writing!Succeeds(i)
            \/ (\E r \in {p, p1, p2, p3} : points' = [points EXCEPT ![i.at] = r]) /\ Writing!Refused(i)
        BY <1>3, Zenon DEF Writing!dbg_set_bp_condition, Writing!list_breakpoints, p1, p2, p3, p
      <4> QED BY <4>1, Zenon DEF Writing!Succeeds, Writing!Refused
    <3> HIDE DEF p1, p2, p3, p
    <3>4. CASE points' = [points EXCEPT ![i.at] = p3] /\ Writing!Reply(i, TRUE, Writing!Nothing)
      <4>1. Did(TRUE, p3)
        BY <3>1, <3>2, <3>4
      <4> HIDE DEF Did
      <4>2. \E r : Did(TRUE, r)
        BY <4>1
      <4> QED BY <4>2
    <3>5. CASE \E r \in {p, p1, p2, p3} :
                  points' = [points EXCEPT ![i.at] = r] /\ Writing!Reply(i, FALSE, Writing!Nothing)
      <4>1. PICK r \in {p, p1, p2, p3} :
                points' = [points EXCEPT ![i.at] = r] /\ Writing!Reply(i, FALSE, Writing!Nothing)
        BY <3>5
      <4>2. Did(FALSE, r)
        BY <3>2, <4>1
      <4> HIDE DEF Did
      <4>3. \E q : Did(FALSE, q)
        BY <4>2
      <4> QED BY <4>3
    <3> QED BY <3>3, <3>4, <3>5
  <2> HIDE DEF Did
  <2>0a. PICK ok \in BOOLEAN : \E r : Did(ok, r)
    BY <2>0
  <2>0b. PICK r : Did(ok, r)
    BY <2>0a
  <2>1. /\ r \in {p, p1, p2, p3}
        /\ ok => r = p3
        /\ points' = [points EXCEPT ![i.at] = r] /\ Writing!Reply(i, ok, Writing!Nothing)
        /\ UNCHANGED <<mem, notes, code, functions, slots>>
    BY <2>0b DEF Did
  <2>2. DOMAIN p = {"on", "cond", "lang"}
    BY <1>3 DEF WorldTypeOK
  <2>3. /\ DOMAIN p1 = {"on", "cond", "lang"} /\ p1.on = p.on /\ p1.lang = p.lang
        /\ p1.cond = p.cond \/ p1.cond = Writing!Nothing
    BY <2>2 DEF Writing!Cleared
  <2>4. /\ DOMAIN p2 = {"on", "cond", "lang"} /\ p2.on = p.on
        /\ p2.cond = p1.cond
        /\ p2.lang = IF Writing!Relanguaged(i) THEN i.lang ELSE p1.lang
    BY <2>3 DEF Writing!InLanguage
  <2>5. i.lang \in {Writing!Nothing, p2.lang}
    BY <2>3, <2>4 DEF Writing!Relanguaged
  <2>6. \/ p2.cond = p.cond /\ p2.lang = p.lang
        \/ p2.cond = Writing!Nothing
        \/ i.cond = Writing!Nothing /\ i.lang = p2.lang
    <3>1. CASE ~Writing!Relanguaged(i)
      BY <3>1, <2>3, <2>4 DEF Writing!Cleared
    <3>2. CASE Writing!Relanguaged(i) /\ i.cond = Writing!Nothing
      BY <3>2, <2>4
    <3>3. CASE Writing!Relanguaged(i) /\ i.cond # Writing!Nothing
      <4>1. p1.cond = Writing!Nothing
        BY <3>3, <2>2 DEF Writing!Cleared
      <4> QED BY <4>1, <2>4
    <3> QED BY <3>1, <3>2, <3>3
  <2>7. /\ DOMAIN p3 = {"on", "cond", "lang"} /\ p3.on = p.on
        /\ p3.cond = i.cond /\ p3.lang = p2.lang
    BY <2>4 DEF Writing!Conditioned
  <2> HIDE DEF p1, p2, p3
  <2>8. DOMAIN r = {"on", "cond", "lang"} /\ r.on = p.on
    BY <2>1, <2>2, <2>3, <2>4, <2>7
  <2>9. \/ r.cond = p.cond /\ r.lang = p.lang
        \/ r.cond = i.cond /\ i.lang \in {Writing!Nothing, r.lang}
        \/ i.cond = Writing!Nothing /\ i.lang = r.lang /\ ~ok
        \/ r.cond = Writing!Nothing
    <3>1. CASE r = p3
      BY <3>1, <2>5, <2>7
    <3>2. CASE r = p2 /\ ~ok
      BY <3>2, <2>6
    <3>3. CASE r = p1
      BY <3>3, <2>3
    <3> QED BY <2>1, <3>1, <3>2, <3>3
  <2>10. /\ DOMAIN points' = DOMAIN points /\ points'[i.at] = r
         /\ \A a \in DOMAIN points : a # i.at => points'[a] = points[a]
         /\ \A a \in DOMAIN points' : DOMAIN points'[a] = {"on", "cond", "lang"}
    BY <1>3, <2>1, <2>8, PointIsSet
  <2>11. WorldTypeOK'
    BY <2>1, <2>10 DEF WorldTypeOK
  <2>12. Conditions(i, ok)
    BY <2>9, <2>10 DEF Conditions
  <2>13. SetsPoint(i, ok)
    BY <1>1, <1>3, <2>8, <2>10, <2>12 DEF SetsPoint, Writing!Points
  <2>14. Changes(i, ok, Writing!Nothing)
    BY <1>1, <2>1, <2>13 DEF Changes
  <2>15. ok => Writing!Done(i)'
    <3>1. SUFFICES ASSUME ok PROVE Writing!Done(i)'
      OBVIOUS
    <3>2. points'[i.at].cond = i.cond /\ i.lang \in {Writing!Nothing, points'[i.at].lang} /\ i.at \in DOMAIN points'
      BY <1>3, <2>1, <2>5, <2>7, <2>10, <3>1
    <3> QED BY <1>1, <3>2 DEF Writing!Done
  <2> QED BY <2>1, <2>11, <2>14, <2>15 DEF Handled
<1> QED BY <1>2, <1>3

LEMMA EveryItem ==
    ASSUME WorldTypeOK, AtMostOnce, NEW i \in Writing!Items, Writing!Item(i)
    PROVE  \E ok, v : Handled(i, ok, v)
BY ReadItem, PatchedItem, PutItem, AssembledItem, CommentedItem, DefinedItem, NamedItem, AddedItem,
   RemovedItem, ToggledItem, ConditionedItem DEF Writing!Item

-----------------------------------------------------------------------------
(* What an item has left stays until another one leaves something in the   *)
(* same place.                                                             *)
LEMMA BytesStay ==
    ASSUME NEW i, NEW ok, NEW v, Changes(i, ok, v), NEW j, j.op \in Writing!Writes,
           ~Writing!SamePlace(j, i), NEW d, Len(d) = Writing!Length(j), Writing!Holding(j.at, d)
    PROVE  Writing!Holding(j.at, d)'
<1>1. SUFFICES ASSUME NEW a \in Writing!Covers(j.at, Len(d)) \cap Mapped
               PROVE  mem'[a] = d[a - j.at + 1]
  BY DEF Writing!Holding
<1>2. mem[a] = d[a - j.at + 1]
  BY DEF Writing!Holding
<1>3. CASE UNCHANGED mem
  BY <1>2, <1>3
<1>4. CASE WritesBytes(i, ok)
  <2>1. a \notin Writing!Covers(i.at, Writing!Length(i))
    BY <1>4 DEF WritesBytes, Writing!SamePlace, Writing!Overlap
  <2> QED BY <1>2, <1>4, <2>1 DEF WritesBytes
<1> QED BY <1>3, <1>4 DEF Changes

LEMMA NamesStay ==
    ASSUME WorldTypeOK, NEW i \in Writing!Items, NEW ok, NEW v, Changes(i, ok, v),
           NEW j \in Writing!Items, j.op \in {"declare", "delete"},
           ~Writing!SamePlace(j, i), Writing!Done(j)
    PROVE  Writing!Done(j)'
<1>1. j.name # Writing!Nothing /\ (j.op = "declare" => j.offset \in Offsets)
  BY ItemAddress DEF Writing!IsItem
<1>2. CASE UNCHANGED slots
  BY <1>2 DEF Writing!Done, Writing!Named
<1>3. CASE NamesSlot(i, ok)
  <2>1. i.op \in {"declare", "delete"} /\ i.name # j.name
    BY <1>3 DEF NamesSlot, Writing!SamePlace
  <2>2. PICK o, x :
          /\ o \in Offsets /\ slots' = [slots EXCEPT ![o] = x] /\ x # j.name
          /\ j.op = "declare" => o # j.offset
    <3>1. CASE i.op = "declare"
      <4>1. i.offset \in Offsets
        BY <3>1, ItemAddress DEF Writing!IsItem
      <4>2. j.op = "declare" => i.offset # j.offset
        BY <3>1 DEF Writing!SamePlace
      <4> QED BY <1>3, <2>1, <3>1, <4>1, <4>2 DEF NamesSlot
    <3>2. CASE i.op = "delete"
      <4>1. PICK p \in Writing!Named(i.name) : slots' = [slots EXCEPT ![p] = Writing!Nothing]
        BY <1>3, <3>2 DEF NamesSlot
      <4>2. p \in Offsets /\ slots[p] = i.name
        BY <4>1 DEF Writing!Named
      <4>3. j.op = "declare" => p # j.offset
        BY <2>1, <4>2 DEF Writing!Done
      <4> QED BY <1>1, <4>1, <4>2, <4>3
    <3> QED BY <2>1, <3>1, <3>2
  <2>3. \A q \in Offsets : /\ q # o => slots'[q] = slots[q]
                           /\ slots'[o] = x
    BY <2>2 DEF WorldTypeOK
  <2>4. CASE j.op = "declare"
    BY <1>1, <2>2, <2>3, <2>4 DEF Writing!Done
  <2>5. CASE j.op = "delete"
    <3>1. \A q \in Offsets : slots[q] # j.name
      BY <2>5 DEF Writing!Done, Writing!Named
    <3>2. \A q \in Offsets : slots'[q] # j.name
      BY <2>2, <2>3, <3>1
    <3> QED BY <2>5, <3>2 DEF Writing!Done, Writing!Named
  <2> QED BY <2>4, <2>5
<1> QED BY <1>2, <1>3 DEF Changes

LEMMA PointsStay ==
    ASSUME NEW i, NEW ok, NEW v, Changes(i, ok, v),
           NEW j, j.op \in Writing!Points, ~Writing!SamePlace(j, i), Writing!Done(j)
    PROVE  Writing!Done(j)'
<1>1. CASE UNCHANGED points
  <2>1. points' = points
    BY <1>1
  <2> QED BY <2>1 DEF Writing!Done, Writing!Points
<1>2. CASE SetsPoint(i, ok) /\ i.at # j.at
  <2>1. /\ j.at \in DOMAIN points' <=> j.at \in DOMAIN points
        /\ j.at \in DOMAIN points => points'[j.at] = points[j.at]
    BY <1>2 DEF SetsPoint
  <2>2. PICK x, y : x = points[j.at] /\ y = points'[j.at]
    OBVIOUS
  <2> QED BY <2>1 DEF Writing!Done, Writing!Points
<1>3. CASE SetsPoint(i, ok) /\ i.at = j.at
  <2>1. i.op \in Writing!Points /\ i.op # j.op /\ i.op # "remove" /\ j.op # "remove"
    BY <1>3 DEF SetsPoint, Writing!SamePlace
  <2>2. j.at \in DOMAIN points
    BY <2>1 DEF Writing!Done, Writing!Points
  <2>3. i.op \in {"toggle", "condition"} /\ j.at \in DOMAIN points'
    BY <1>3, <2>1, <2>2 DEF SetsPoint, Writing!Points
  <2>4. CASE j.op = "add"
    BY <2>3, <2>4 DEF Writing!Done
  <2>5. CASE j.op = "toggle"
    <3>1. i.op = "condition"
      BY <2>1, <2>3, <2>5
    <3>2. points'[j.at].on = points[j.at].on
      BY <1>3, <3>1 DEF SetsPoint
    <3>3. points[j.at].on = j.on
      BY <2>5 DEF Writing!Done
    <3> QED BY <2>3, <2>5, <3>2, <3>3 DEF Writing!Done
  <2>6. CASE j.op = "condition"
    <3>1. i.op = "toggle"
      BY <2>1, <2>3, <2>6
    <3>2. points'[j.at].cond = points[j.at].cond /\ points'[j.at].lang = points[j.at].lang
      BY <1>3, <3>1 DEF SetsPoint
    <3>3. points[j.at].cond = j.cond /\ j.lang \in {Writing!Nothing, points[j.at].lang}
      BY <2>6 DEF Writing!Done
    <3> QED BY <2>3, <2>6, <3>2, <3>3 DEF Writing!Done
  <2> QED BY <2>1, <2>4, <2>5, <2>6 DEF Writing!Points
<1> QED BY <1>1, <1>2, <1>3 DEF Changes

LEMMA DoneStays ==
    ASSUME WorldTypeOK, NEW i \in Writing!Items, NEW ok, NEW v, Changes(i, ok, v),
           NEW j \in Writing!Items, Writing!Done(j)
    PROVE  Writing!Done(j)' \/ Writing!SamePlace(j, i)
<1>1. SUFFICES ASSUME ~Writing!SamePlace(j, i) PROVE Writing!Done(j)'
  OBVIOUS
<1>2. Writing!IsItem(j) /\ j.at \in Writing!Addresses
  BY ItemAddress
<1>3. CASE j.op \in {"get_int", "get_bytes"}
  BY <1>3 DEF Writing!Done
<1>4. CASE j.op = "patch"
  <2>1. j.op \in Writing!Writes /\ Len(j.data) = Writing!Length(j) /\ Writing!Holding(j.at, j.data)
    BY <1>4 DEF Writing!Done, Writing!Length, Writing!Writes
  <2>2. Writing!Holding(j.at, j.data)'
    BY <1>1, <2>1, BytesStay
  <2> QED BY <1>4, <2>2 DEF Writing!Done
<1>5. CASE j.op = "put_int"
  <2>1. j.class \in Writing!Classes /\ j.value \in Int
    BY <1>2, <1>5 DEF Writing!IsItem
  <2>2. PICK d : d = Writing!ToBytes(j.class, j.value)
    OBVIOUS
  <2>3. Len(d) = j.class.size
    BY <2>1, <2>2, BytesOfInteger
  <2>4. j.op \in Writing!Writes /\ Len(d) = Writing!Length(j) /\ Writing!Holding(j.at, d)
    BY <1>5, <2>2, <2>3 DEF Writing!Done, Writing!Length, Writing!Writes
  <2>5. Writing!Holding(j.at, d)'
    BY <1>1, <2>4, BytesStay
  <2> QED BY <1>5, <2>2, <2>5 DEF Writing!Done
<1>6. CASE j.op = "patch_asm"
  <2>1. PICK d : d = Writing!AllBytes(j.insns)
    OBVIOUS
  <2>2. j.op \in Writing!Writes /\ Len(d) = Writing!Length(j) /\ Writing!Holding(j.at, d)
    BY <1>6, <2>1 DEF Writing!Done, Writing!Length, Writing!Writes
  <2>3. Writing!Holding(j.at, d)'
    BY <1>1, <2>2, BytesStay
  <2> QED BY <1>6, <2>1, <2>3 DEF Writing!Done
<1>7. CASE j.op = "comment"
  <2>1. ~WritesNote(i) \/ i.at # j.at
    BY <1>1, <1>7 DEF WritesNote, Writing!SamePlace
  <2>2. notes'[j.at] = notes[j.at]
    BY <1>2, <2>1 DEF Changes, WritesNote
  <2> QED BY <1>7, <2>2 DEF Writing!Done
<1>8. CASE j.op \in Writing!Defines
  <2>1. UNCHANGED <<code, functions>>
    BY <1>1, <1>8 DEF Changes, Writing!SamePlace
  <2> QED BY <1>8, <2>1 DEF Writing!Done, Writing!Defines
<1>9. CASE j.op \in {"declare", "delete"}
  BY <1>1, <1>9, NamesStay
<1>10. CASE j.op \in Writing!Points
  BY <1>1, <1>10, PointsStay
<1> QED BY <1>2, <1>3, <1>4, <1>5, <1>6, <1>7, <1>8, <1>9, <1>10
        DEF Writing!IsItem, Writing!Defines, Writing!Points

-----------------------------------------------------------------------------
RepliesOK ==
    /\ plan \in Seq(Writing!Items)
    /\ \E S : replies \in Seq(S)
    /\ \A k \in DOMAIN replies : replies[k].item \in Writing!Items
IntegersHeld ==
    \A k \in DOMAIN replies : LET i == replies[k].item IN
        i.op = "put_int" /\ replies[k].ok => Writing!Holds(i.class, i.value)
PatchInv ==
    /\ WorldTypeOK /\ RepliesOK /\ IntegersHeld
    /\ Writing!IntegersReadBack /\ Writing!OnlyWhatWasAsked /\ Writing!AnswersHold

LEMMA PatchSafe == PatchInv => Writing!PatchesAreTrue
BY DEF PatchInv, Writing!PatchesAreTrue

LEMMA PatchStays == ASSUME PatchInv, UNCHANGED patchingVars PROVE PatchInv'
<1>1. /\ mem' = mem /\ notes' = notes /\ code' = code /\ functions' = functions /\ slots' = slots
      /\ points' = points /\ plan' = plan /\ replies' = replies /\ was' = was
  BY DEF patchingVars
<1>2. WorldTypeOK' /\ RepliesOK' /\ IntegersHeld'
  BY <1>1 DEF PatchInv, WorldTypeOK, RepliesOK, IntegersHeld
<1>3. Writing!IntegersReadBack'
  BY <1>1 DEF PatchInv, Writing!IntegersReadBack
<1>4. Writing!OnlyWhatWasAsked'
  BY <1>1 DEF PatchInv, Writing!OnlyWhatWasAsked, Writing!Asked, Writing!GivenIn
<1>5. Writing!AnswersHold'
  <2>1. \A j : Writing!Done(j) => Writing!Done(j)'
    <3>1. \A a, d : Writing!Holding(a, d)' <=> Writing!Holding(a, d)
      BY <1>1 DEF Writing!Holding
    <3>2. \A x : Writing!Named(x)' = Writing!Named(x)
      BY <1>1 DEF Writing!Named
    <3> QED BY <1>1, <3>1, <3>2 DEF Writing!Done
  <2>2. ASSUME NEW k \in DOMAIN replies', replies'[k].ok, NEW j, j = replies'[k].item
        PROVE  \/ Writing!Done(j)'
               \/ \E l \in (k + 1) .. Len(replies') : Writing!SamePlace(j, replies'[l].item)
    BY <1>1, <2>1, <2>2 DEF PatchInv, Writing!AnswersHold
  <2> QED BY <2>2 DEF Writing!AnswersHold
<1> QED BY <1>2, <1>3, <1>4, <1>5 DEF PatchInv

LEMMA PatchInit == ASSUME Writing!Init PROVE PatchInv
<1>1. mem \in Starts /\ was = mem /\ plan \in Plans /\ replies = <<>>
  BY DEF Writing!Init
<1>2. DOMAIN replies = {} /\ Len(replies) = 0 /\ replies \in Seq({})
  BY <1>1
<1>3. WorldTypeOK
  BY <1>1, PatchingConstants DEF WorldTypeOK, Writing!Init, Writing!NoNotes
<1>4. RepliesOK /\ IntegersHeld
  BY <1>1, <1>2, PatchingConstants DEF RepliesOK, IntegersHeld
<1>5. Writing!IntegersReadBack /\ Writing!AnswersHold
  BY <1>2 DEF Writing!IntegersReadBack, Writing!AnswersHold
<1>6. Writing!OnlyWhatWasAsked
  <2>1. Writing!First(Offsets) \in Offsets
    BY PatchingConstants, FirstOf
  <2>2. \A o \in Offsets : slots[o] = IF o = Writing!First(Offsets) THEN Kept ELSE Writing!Nothing
    BY DEF Writing!Init
  <2>3. slots[Writing!First(Offsets)] = Kept
    BY <2>1, <2>2
  <2>4. \A o, p \in Offsets : slots[o] = slots[p] => o = p \/ slots[o] = Writing!Nothing
    BY <2>2
  <2>5. \A a \in Writing!Addresses : notes[a] = Writing!NoNotes
    BY DEF Writing!Init
  <2>6. DOMAIN points = {}
    BY DEF Writing!Init
  <2> QED BY <1>1, <2>3, <2>4, <2>5, <2>6 DEF Writing!OnlyWhatWasAsked
<1> QED BY <1>3, <1>4, <1>5, <1>6 DEF PatchInv

-----------------------------------------------------------------------------
(* A reply more.                                                           *)
Replied(i, ok, v) ==
    /\ Len(replies) \in Nat /\ Len(replies') = Len(replies) + 1
    /\ DOMAIN replies = 1 .. Len(replies) /\ DOMAIN replies' = 1 .. Len(replies) + 1
    /\ \A k \in 1 .. Len(replies) : replies'[k] = replies[k]
    /\ replies'[Len(replies) + 1].item = i
    /\ replies'[Len(replies) + 1].ok <=> ok
    /\ replies'[Len(replies) + 1].value = v

LEMMA ReplyAppended ==
    ASSUME RepliesOK, NEW i \in Writing!Items, NEW ok \in BOOLEAN, NEW v, Writing!Reply(i, ok, v),
           plan # <<>>, plan' = Tail(plan)
    PROVE  Replied(i, ok, v) /\ RepliesOK'
<1>1. PICK S : replies \in Seq(S)
  BY DEF RepliesOK
<1>2. PICK r : r = [item |-> i, ok |-> ok, value |-> v]
  OBVIOUS
<1>3. replies' = Append(replies, r)
  BY <1>2 DEF Writing!Reply
<1>4. r.item = i /\ (r.ok <=> ok) /\ r.value = v
  BY <1>2
<1> DEFINE T == S \cup {r}
<1>5. replies \in Seq(T) /\ r \in T
  <2>1. Len(replies) \in Nat /\ replies \in [1 .. Len(replies) -> S]
    BY <1>1, LenProperties
  <2>2. replies \in [1 .. Len(replies) -> T]
    BY <2>1
  <2>3. \E n \in Nat : replies \in [1 .. n -> T]
    BY <2>1, <2>2
  <2> QED BY <2>3 DEF Seq
<1> HIDE DEF T
<1>6. /\ replies' \in Seq(T) /\ Len(replies') = Len(replies) + 1
      /\ \A k \in 1 .. Len(replies) : replies'[k] = replies[k]
      /\ replies'[Len(replies) + 1] = r
  BY <1>3, <1>5, AppendProperties
<1>7. Len(replies) \in Nat /\ DOMAIN replies = 1 .. Len(replies) /\ DOMAIN replies' = 1 .. Len(replies')
  BY <1>5, <1>6, LenProperties
<1>8. Replied(i, ok, v)
  BY <1>4, <1>6, <1>7 DEF Replied
<1>9. plan' \in Seq(Writing!Items)
  BY HeadTailProperties DEF RepliesOK
<1>10. \A k \in DOMAIN replies' : replies'[k].item \in Writing!Items
  <2>1. SUFFICES ASSUME NEW k \in 1 .. Len(replies) + 1 PROVE replies'[k].item \in Writing!Items
    BY <1>8 DEF Replied
  <2>2. CASE k \in 1 .. Len(replies)
    BY <2>2, <1>8 DEF Replied, RepliesOK
  <2>3. CASE k = Len(replies) + 1
    BY <2>3, <1>8 DEF Replied
  <2> QED BY <1>7, <2>1, <2>2, <2>3
<1> QED BY <1>6, <1>8, <1>9, <1>10 DEF RepliesOK

LEMMA AnswersHoldNext ==
    ASSUME WorldTypeOK, RepliesOK, Writing!AnswersHold, NEW i \in Writing!Items, NEW ok \in BOOLEAN, NEW v,
           Replied(i, ok, v), Changes(i, ok, v), ok => Writing!Done(i)'
    PROVE  Writing!AnswersHold'
<1> DEFINE n == Len(replies)
<1>1. /\ n \in Nat /\ Len(replies') = n + 1 /\ DOMAIN replies = 1 .. n /\ DOMAIN replies' = 1 .. n + 1
      /\ \A k \in 1 .. n : replies'[k] = replies[k]
      /\ replies'[n + 1].item = i /\ (replies'[n + 1].ok <=> ok)
  BY DEF Replied
<1> HIDE DEF n
<1>2. SUFFICES ASSUME NEW k \in 1 .. n + 1, replies'[k].ok, NEW j, j = replies'[k].item
               PROVE  \/ Writing!Done(j)'
                      \/ \E l \in (k + 1) .. (n + 1) : Writing!SamePlace(j, replies'[l].item)
  <2>1. \A j : Writing!Done(j)' => \A k \in 1 .. n + 1 : j = replies'[k].item => Writing!Done(replies[k].item)'
    OBVIOUS
  <2>2. ASSUME NEW k \in 1 .. n + 1, replies'[k].ok
        PROVE  \/ Writing!Done(replies[k].item)'
               \/ \E l \in (k + 1) .. (n + 1) : Writing!SamePlace(replies'[k].item, replies'[l].item)
    BY <1>2, <2>1, <2>2
  <2> QED BY <1>1, <2>2 DEF Writing!AnswersHold
<1>3. CASE k = n + 1
  BY <1>1, <1>2, <1>3
<1>4. CASE k \in 1 .. n
  <2>1. replies[k].ok /\ j = replies[k].item /\ j \in Writing!Items
    BY <1>1, <1>2, <1>4 DEF RepliesOK
  <2>2. \/ Writing!Done(j)
        \/ \E l \in (k + 1) .. n : Writing!SamePlace(j, replies[l].item)
    BY <1>1, <1>4, <2>1 DEF Writing!AnswersHold, n
  <2>3. CASE Writing!Done(j)
    <3>1. Writing!Done(j)' \/ Writing!SamePlace(j, i)
      BY <2>1, <2>3, DoneStays
    <3>2. n + 1 \in (k + 1) .. (n + 1)
      BY <1>1, <1>4
    <3> QED BY <1>1, <3>1, <3>2
  <2>4. CASE \E l \in (k + 1) .. n : Writing!SamePlace(j, replies[l].item)
    <3>1. PICK l \in (k + 1) .. n : Writing!SamePlace(j, replies[l].item)
      BY <2>4
    <3>2. l \in (k + 1) .. (n + 1) /\ l \in 1 .. n
      BY <1>1, <1>4
    <3> QED BY <1>1, <3>1, <3>2
  <2> QED BY <2>2, <2>3, <2>4
<1> QED BY <1>1, <1>2, <1>3, <1>4

-----------------------------------------------------------------------------
(* What is read where an integer was written, and stands.                  *)
LEMMA ReadBack ==
    ASSUME WorldTypeOK, NEW c \in Writing!Classes, NEW x \in Int, Writing!Holds(c, x),
           NEW ea \in Nat, Writing!Covers(ea, c.size) \subseteq Mapped,
           Writing!Holding(ea, Writing!ToBytes(c, x))
    PROVE  Writing!FromBytes(c, Writing!read_bytes_bss_safe(ea, c.size)) = x
<1> DEFINE d == Writing!ToBytes(c, x)
           N == c.size
<1>1. N \in Nat
  BY PatchingConstants DEF Writing!Classes
<1>2. Writing!FromBytes(c, d) = x /\ d \in Seq(Writing!Bytes) /\ Len(d) = N
  BY BytesGiveInteger
<1>3. \A a \in Writing!Covers(ea, N) : mem[a] = d[a - ea + 1]
  BY <1>2 DEF Writing!Holding
<1> HIDE DEF d, N
<1>4. ASSUME NEW n \in 1 .. N PROVE Writing!Byte(ea + n - 1) = d[n]
  <2>1. ea + n - 1 \in Writing!Covers(ea, N) /\ (ea + n - 1) - ea + 1 = n
    BY <1>1 DEF Writing!Covers
  <2>2. mem[ea + n - 1] = d[n] /\ ea + n - 1 \in Mapped
    BY <1>3, <2>1 DEF N
  <2>3. d[n] \in Writing!Bytes
    BY <1>2, ElementOfSeq
  <2>4. d[n] # Writing!Unloaded
    BY <2>3 DEF Writing!Bytes, Writing!Unloaded
  <2> QED BY <2>2, <2>4 DEF Writing!Byte
<1>5. Writing!read_bytes_bss_safe(ea, N) = [n \in 1 .. N |-> Writing!Byte(ea + n - 1)]
  BY DEF Writing!read_bytes_bss_safe
<1>6. d = [n \in 1 .. N |-> d[n]]
  BY <1>2, LenProperties
<1>7. Writing!read_bytes_bss_safe(ea, N) = d
  BY <1>4, <1>5, <1>6
<1> QED BY <1>2, <1>7 DEF N

LEMMA IntegersHeldNext ==
    ASSUME IntegersHeld, NEW i, NEW ok \in BOOLEAN, NEW v, Replied(i, ok, v), Changes(i, ok, v)
    PROVE  IntegersHeld'
<1>1. /\ Len(replies) \in Nat /\ DOMAIN replies = 1 .. Len(replies) /\ DOMAIN replies' = 1 .. Len(replies) + 1
      /\ \A k \in 1 .. Len(replies) : replies'[k] = replies[k]
      /\ replies'[Len(replies) + 1].item = i /\ (replies'[Len(replies) + 1].ok <=> ok)
  BY DEF Replied
<1>2. i.op = "put_int" /\ ok => Writing!Holds(i.class, i.value)
  BY DEF Changes
<1>3. SUFFICES ASSUME NEW k \in 1 .. Len(replies) + 1, NEW j, j = replies'[k].item,
                      j.op = "put_int", replies'[k].ok
               PROVE  Writing!Holds(j.class, j.value)
  BY <1>1 DEF IntegersHeld
<1>4. CASE k \in 1 .. Len(replies)
  BY <1>1, <1>3, <1>4 DEF IntegersHeld
<1>5. CASE k = Len(replies) + 1
  BY <1>1, <1>2, <1>3, <1>5
<1> QED BY <1>1, <1>4, <1>5

LEMMA ReadBackNext ==
    ASSUME WorldTypeOK, RepliesOK, IntegersHeld, Writing!IntegersReadBack, Writing!AnswersHold,
           NEW i \in Writing!Items, NEW ok \in BOOLEAN, NEW v, Replied(i, ok, v), Changes(i, ok, v)
    PROVE  Writing!IntegersReadBack'
<1> DEFINE n == Len(replies)
<1>1. /\ n \in Nat /\ DOMAIN replies = 1 .. n /\ DOMAIN replies' = 1 .. n + 1
      /\ \A k \in 1 .. n : replies'[k] = replies[k]
      /\ replies'[n + 1].item = i /\ (replies'[n + 1].ok <=> ok) /\ replies'[n + 1].value = v
  BY DEF Replied
<1> HIDE DEF n
<1>2. SUFFICES
        ASSUME NEW k \in 1 .. n + 1, NEW l \in 1 .. n + 1, k < l,
               NEW put, put = replies'[k].item, NEW get, get = replies'[l].item,
               put.op = "put_int", get.op = "get_int", replies'[k].ok,
               put.at = get.at, put.class = get.class, Writing!Covers(put.at, put.class.size) \subseteq Mapped,
               \A m \in Writing!Before(k, l) :
                   replies'[m].item.op \in Writing!Writes => ~Writing!Overlap(put, replies'[m].item)
        PROVE  replies'[l].value = put.value
  BY <1>1 DEF Writing!IntegersReadBack
<1>3. k \in 1 .. n
  BY <1>1, <1>2
<1>4. replies[k].item = put /\ replies[k].ok /\ put \in Writing!Items
  BY <1>1, <1>2, <1>3 DEF RepliesOK
<1>5. \A m \in Writing!Before(k, l) :
         /\ m \in 1 .. n /\ m \in (k + 1) .. n
         /\ replies[m].item.op \in Writing!Writes => ~Writing!Overlap(put, replies[m].item)
  <2>1. \A m \in Writing!Before(k, l) : m \in 1 .. n /\ m \in (k + 1) .. n
    BY <1>1, <1>2 DEF Writing!Before
  <2> QED BY <1>1, <1>2, <2>1
<1>6. CASE l \in 1 .. n
  <2>1. replies[l].item = get /\ replies'[l] = replies[l]
    BY <1>1, <1>2, <1>6
  <2>2. replies[l].value = put.value
    BY <1>1, <1>2, <1>3, <1>4, <1>5, <1>6, <2>1 DEF Writing!IntegersReadBack
  <2> QED BY <2>1, <2>2
<1>7. CASE l = n + 1
  <2>1. get = i /\ replies'[l].value = v
    BY <1>1, <1>2, <1>7
  <2>2. v = Writing!FromBytes(get.class, Writing!read_bytes_bss_safe(get.at, get.class.size))
    BY <1>2, <2>1 DEF Changes
  <2>3. \/ Writing!Done(put)
        \/ \E m \in (k + 1) .. n : Writing!SamePlace(put, replies[m].item)
    BY <1>1, <1>3, <1>4 DEF Writing!AnswersHold, n
  <2>4. ASSUME NEW m \in (k + 1) .. n, Writing!SamePlace(put, replies[m].item) PROVE FALSE
    <3>1. m \in Writing!Before(k, l)
      BY <1>1, <1>7 DEF Writing!Before
    <3>2. replies[m].item.op \in Writing!Writes /\ Writing!Overlap(put, replies[m].item)
      BY <1>2, <2>4 DEF Writing!SamePlace, Writing!Defines, Writing!Points
    <3> QED BY <1>5, <3>1, <3>2
  <2>5. Writing!Done(put)
    BY <2>3, <2>4
  <2>6. Writing!Holding(put.at, Writing!ToBytes(put.class, put.value))
    BY <1>2, <2>5 DEF Writing!Done
  <2>7. put.class \in Writing!Classes /\ put.value \in Int /\ put.at \in Nat
    BY <1>2, <1>4, ItemAddress DEF Writing!IsItem
  <2>8. Writing!Holds(put.class, put.value)
    BY <1>1, <1>2, <1>3, <1>4 DEF IntegersHeld
  <2>9. Writing!FromBytes(put.class, Writing!read_bytes_bss_safe(put.at, put.class.size)) = put.value
    BY <1>2, <2>6, <2>7, <2>8, ReadBack
  <2> QED BY <1>2, <2>1, <2>2, <2>9
<1> QED BY <1>1, <1>6, <1>7

-----------------------------------------------------------------------------
(* What differs from the start was asked for.                              *)
AskedBy(r, ops, a) ==
    /\ r.item.op \in ops /\ (r.ok \/ r.item.op \in Writing!Halfway)
    /\ a \in IF r.item.op \in Writing!Writes THEN Writing!Covers(r.item.at, Writing!Length(r.item))
                                             ELSE {r.item.at}
GivenBy(r, a, cond, lang) ==
    /\ r.item.op = "condition" /\ r.item.at = a
    /\ \/ r.item.cond = cond /\ r.item.lang \in {Writing!Nothing, lang}
       \/ r.item.cond = Writing!Nothing /\ r.item.lang = lang /\ ~r.ok

LEMMA AskedLater ==
    ASSUME NEW i, NEW ok \in BOOLEAN, NEW v, Replied(i, ok, v), NEW ops, NEW a
    PROVE  /\ Writing!Asked(ops, a) => Writing!Asked(ops, a)'
           /\ AskedBy([item |-> i, ok |-> ok], ops, a) => Writing!Asked(ops, a)'
<1>1. /\ Len(replies) \in Nat /\ DOMAIN replies = 1 .. Len(replies) /\ DOMAIN replies' = 1 .. Len(replies) + 1
      /\ \A k \in 1 .. Len(replies) : replies'[k] = replies[k]
      /\ replies'[Len(replies) + 1].item = i /\ (replies'[Len(replies) + 1].ok <=> ok)
  BY DEF Replied
<1>2. /\ Writing!Asked(ops, a) <=> \E k \in DOMAIN replies : AskedBy(replies[k], ops, a)
      /\ Writing!Asked(ops, a)' <=> \E k \in DOMAIN replies' : AskedBy(replies'[k], ops, a)
  BY DEF Writing!Asked, AskedBy
<1>3. Writing!Asked(ops, a) => Writing!Asked(ops, a)'
  <2>1. \A k \in 1 .. Len(replies) : k \in 1 .. Len(replies) + 1
    BY <1>1
  <2> QED BY <1>1, <1>2, <2>1
<1>4. ASSUME AskedBy([item |-> i, ok |-> ok], ops, a) PROVE Writing!Asked(ops, a)'
  <2>1. Len(replies) + 1 \in 1 .. Len(replies) + 1
    BY <1>1
  <2>2. AskedBy(replies'[Len(replies) + 1], ops, a)
    BY <1>1, <1>4 DEF AskedBy
  <2> QED BY <1>1, <1>2, <2>1, <2>2
<1> QED BY <1>3, <1>4

LEMMA GivenLater ==
    ASSUME NEW i, NEW ok \in BOOLEAN, NEW v, Replied(i, ok, v), NEW a, NEW c, NEW l
    PROVE  /\ Writing!GivenIn(a, c, l) => Writing!GivenIn(a, c, l)'
           /\ GivenBy([item |-> i, ok |-> ok], a, c, l) => Writing!GivenIn(a, c, l)'
<1>1. /\ Len(replies) \in Nat /\ DOMAIN replies = 1 .. Len(replies) /\ DOMAIN replies' = 1 .. Len(replies) + 1
      /\ \A k \in 1 .. Len(replies) : replies'[k] = replies[k]
      /\ replies'[Len(replies) + 1].item = i /\ (replies'[Len(replies) + 1].ok <=> ok)
  BY DEF Replied
<1>2. /\ Writing!GivenIn(a, c, l) <=> \E k \in DOMAIN replies : GivenBy(replies[k], a, c, l)
      /\ Writing!GivenIn(a, c, l)' <=> \E k \in DOMAIN replies' : GivenBy(replies'[k], a, c, l)
  BY DEF Writing!GivenIn, GivenBy
<1>3. Writing!GivenIn(a, c, l) => Writing!GivenIn(a, c, l)'
  <2>1. \A k \in 1 .. Len(replies) : k \in 1 .. Len(replies) + 1
    BY <1>1
  <2> QED BY <1>1, <1>2, <2>1
<1>4. ASSUME GivenBy([item |-> i, ok |-> ok], a, c, l) PROVE Writing!GivenIn(a, c, l)'
  <2>1. Len(replies) + 1 \in 1 .. Len(replies) + 1
    BY <1>1
  <2>2. GivenBy(replies'[Len(replies) + 1], a, c, l)
    BY <1>1, <1>4 DEF GivenBy
  <2> QED BY <1>1, <1>2, <2>1, <2>2
<1> QED BY <1>3, <1>4

LEMMA AskedNext ==
    ASSUME WorldTypeOK, Writing!OnlyWhatWasAsked, WorldTypeOK', NEW i \in Writing!Items, NEW ok \in BOOLEAN, NEW v,
           Replied(i, ok, v), Changes(i, ok, v), ok => Writing!Done(i)', was' = was
    PROVE  Writing!OnlyWhatWasAsked'
<1> DEFINE r == [item |-> i, ok |-> ok]
<1>0. r.item = i /\ (r.ok <=> ok)
  OBVIOUS
<1> HIDE DEF r
<1>1. ASSUME NEW a \in Mapped, mem'[a] # was'[a] PROVE Writing!Asked(Writing!Writes, a)'
  <2>1. CASE mem'[a] = mem[a]
    <3>1. Writing!Asked(Writing!Writes, a)
      BY <1>1, <2>1 DEF Writing!OnlyWhatWasAsked
    <3> QED BY <3>1, AskedLater
  <2>2. CASE mem'[a] # mem[a]
    <3>1. WritesBytes(i, ok)
      BY <2>2 DEF Changes
    <3>2. /\ i.op \in Writing!Writes /\ (ok \/ i.op = "patch_asm")
          /\ a \in Writing!Covers(i.at, Writing!Length(i))
      BY <2>2, <3>1 DEF WritesBytes
    <3>3. AskedBy(r, Writing!Writes, a)
      BY <1>0, <3>2 DEF AskedBy, Writing!Halfway
    <3> QED BY <3>3, AskedLater DEF r
  <2> QED BY <2>1, <2>2
<1>2. ASSUME NEW a \in Writing!Addresses, notes'[a] # Writing!NoNotes PROVE Writing!Asked({"comment"}, a)'
  <2>1. CASE notes'[a] = notes[a]
    <3>1. Writing!Asked({"comment"}, a)
      BY <1>2, <2>1 DEF Writing!OnlyWhatWasAsked
    <3> QED BY <3>1, AskedLater
  <2>2. CASE notes'[a] # notes[a]
    <3>1. i.op = "comment" /\ i.at = a
      BY <2>2 DEF Changes, WritesNote
    <3>2. AskedBy(r, {"comment"}, a)
      BY <1>0, <3>1 DEF AskedBy, Writing!Halfway, Writing!Writes
    <3> QED BY <3>2, AskedLater DEF r
  <2> QED BY <2>1, <2>2
<1>3. ASSUME NEW a \in DOMAIN points' PROVE Writing!Asked({"add"}, a)'
  <2>1. CASE a \in DOMAIN points
    <3>1. Writing!Asked({"add"}, a)
      BY <2>1 DEF Writing!OnlyWhatWasAsked
    <3> QED BY <3>1, AskedLater
  <2>2. CASE a \notin DOMAIN points
    <3>1. SetsPoint(i, ok)
      BY <1>3, <2>2 DEF Changes
    <3>2. a = i.at
      BY <1>3, <2>2, <3>1 DEF SetsPoint
    <3>3. i.op \in {"add", "remove"}
      BY <2>2, <3>1, <3>2 DEF SetsPoint, Writing!Points
    <3>4. i.op # "remove"
      BY <1>3, <3>1, <3>2 DEF SetsPoint
    <3>5. i.op = "add" /\ ok
      BY <3>1, <3>3, <3>4 DEF SetsPoint
    <3>6. AskedBy(r, {"add"}, a)
      BY <1>0, <3>2, <3>5 DEF AskedBy, Writing!Writes
    <3> QED BY <3>6, AskedLater DEF r
  <2> QED BY <2>1, <2>2
<1>4. slots'[Writing!First(Offsets)] = Kept
  <2>1. Writing!First(Offsets) \in Offsets /\ slots[Writing!First(Offsets)] = Kept
    BY PatchingConstants, FirstOf DEF Writing!OnlyWhatWasAsked
  <2>2. CASE UNCHANGED slots
    BY <2>1, <2>2
  <2>3. CASE NamesSlot(i, ok)
    <3>1. PICK o, x : slots' = [slots EXCEPT ![o] = x] /\ slots[o] # Kept
      BY <2>3 DEF NamesSlot, Writing!Named
    <3> QED BY <2>1, <3>1 DEF WorldTypeOK
  <2> QED BY <2>2, <2>3 DEF Changes
<1>5. \A o, p \in Offsets : slots'[o] = slots'[p] => o = p \/ slots'[o] = Writing!Nothing
  <2>1. \A o, p \in Offsets : slots[o] = slots[p] => o = p \/ slots[o] = Writing!Nothing
    BY DEF Writing!OnlyWhatWasAsked
  <2>2. CASE UNCHANGED slots
    BY <2>1, <2>2
  <2>3. CASE NamesSlot(i, ok)
    <3>1. PICK q, x : /\ slots' = [slots EXCEPT ![q] = x]
                      /\ x = Writing!Nothing \/ \A o \in Offsets : slots[o] = x => o = q
      <4>1. CASE i.op = "declare"
        BY <2>3, <4>1 DEF NamesSlot, Writing!Named
      <4>2. CASE i.op = "delete"
        BY <2>3, <4>2 DEF NamesSlot
      <4> QED BY <2>3, <4>1, <4>2 DEF NamesSlot
    <3>2. \A o \in Offsets : slots'[o] = IF o = q THEN x ELSE slots[o]
      BY <3>1 DEF WorldTypeOK
    <3> QED BY <2>1, <3>1, <3>2
  <2> QED BY <2>2, <2>3 DEF Changes
<1>6. ASSUME NEW a \in DOMAIN points', points'[a].cond # Writing!Nothing,
             NEW c, c = points'[a].cond, NEW l, l = points'[a].lang
      PROVE  Writing!GivenIn(a, c, l)'
  <2>1. CASE a \in DOMAIN points /\ points[a].cond = c /\ points[a].lang = l
    <3>1. Writing!GivenIn(a, c, l)
      BY <1>6, <2>1 DEF Writing!OnlyWhatWasAsked
    <3> QED BY <3>1, GivenLater
  <2>2. CASE ~(a \in DOMAIN points /\ points[a].cond = c /\ points[a].lang = l)
    <3>1. SetsPoint(i, ok)
      BY <1>6, <2>2 DEF Changes
    <3>2. a = i.at
      BY <1>6, <2>2, <3>1 DEF SetsPoint
    <3>3. i.op # "remove"
      BY <1>6, <3>1, <3>2 DEF SetsPoint
    <3>4. i.op = "condition"
      BY <1>6, <2>2, <3>1, <3>2, <3>3 DEF SetsPoint, Writing!Points
    <3>5. \/ i.cond = c /\ i.lang \in {Writing!Nothing, l}
          \/ i.cond = Writing!Nothing /\ i.lang = l /\ ~ok
      BY <1>6, <2>2, <3>1, <3>2, <3>4 DEF SetsPoint, Conditions
    <3>6. GivenBy(r, a, c, l)
      BY <1>0, <3>2, <3>4, <3>5 DEF GivenBy
    <3> QED BY <3>6, GivenLater DEF r
  <2> QED BY <2>1, <2>2
<1>7. \A a \in DOMAIN points' : points'[a].cond # Writing!Nothing =>
         Writing!GivenIn(a, points[a].cond, points[a].lang)'
  <2>1. ASSUME NEW a \in DOMAIN points', points'[a].cond # Writing!Nothing
        PROVE  Writing!GivenIn(a, points[a].cond, points[a].lang)'
    <3>1. PICK c, l : c = points'[a].cond /\ l = points'[a].lang
      OBVIOUS
    <3>2. Writing!GivenIn(a, c, l)'
      BY <1>6, <2>1, <3>1
    <3> QED BY <3>1, <3>2 DEF Writing!GivenIn
  <2> QED BY <2>1
<1> QED BY <1>1, <1>2, <1>3, <1>4, <1>5, <1>7 DEF Writing!OnlyWhatWasAsked

LEMMA PatchNext == ASSUME PatchInv, Writing!Next PROVE PatchInv'
<1>1. /\ WorldTypeOK /\ RepliesOK /\ IntegersHeld
      /\ Writing!IntegersReadBack /\ Writing!OnlyWhatWasAsked /\ Writing!AnswersHold
  BY DEF PatchInv
<1>2. AtMostOnce
  BY <1>1 DEF AtMostOnce, Writing!OnlyWhatWasAsked
<1>3. PICK i : i = Head(plan)
  OBVIOUS
<1>4. plan # <<>> /\ plan' = Tail(plan) /\ was' = was /\ Writing!Item(i)
  BY <1>3 DEF Writing!Next
<1>5. i \in Writing!Items
  BY <1>1, <1>3, <1>4, HeadTailProperties DEF RepliesOK
<1>6. PICK ok, v : Handled(i, ok, v)
  BY <1>1, <1>2, <1>4, <1>5, EveryItem
<1>7. ok \in BOOLEAN /\ Writing!Reply(i, ok, v) /\ Changes(i, ok, v) /\ WorldTypeOK' /\ (ok => Writing!Done(i)')
  BY <1>6 DEF Handled
<1>8. Replied(i, ok, v) /\ RepliesOK'
  BY <1>1, <1>4, <1>5, <1>7, ReplyAppended
<1>9. IntegersHeld'
  BY <1>1, <1>7, <1>8, IntegersHeldNext
<1>10. Writing!IntegersReadBack'
  BY <1>1, <1>5, <1>7, <1>8, ReadBackNext
<1>11. Writing!OnlyWhatWasAsked'
  BY <1>1, <1>4, <1>5, <1>7, <1>8, AskedNext
<1>12. Writing!AnswersHold'
  BY <1>1, <1>5, <1>7, <1>8, AnswersHoldNext
<1> QED BY <1>7, <1>8, <1>9, <1>10, <1>11, <1>12 DEF PatchInv

-----------------------------------------------------------------------------
(***************************************************************************)
(* Signatures (Signatures).                                                *)
(***************************************************************************)
Instructions == [size : Nat, off : Nat, open : Nat]
SigBytes == [value : Nat, open : BOOLEAN]

LEMMA SigningConstants ==
    /\ Images \subseteq Seq(Nat) /\ Tilings \subseteq Seq(Instructions)
    /\ \A t \in Tilings : \A k \in DOMAIN t :
           t[k].off + t[k].open <= t[k].size /\ t[k].open < t[k].size
    /\ \A q \in Asks : Signing!IsAsk(q)
BY ToolsAssumption DEF Signing!SignaturesAssumption, Instructions

LEMMA SigningCardinality == ASSUME NEW S PROVE Signing!Cardinality(S) = Cardinality(S)
BY DEF Signing!Cardinality, Cardinality, Signing!IsFiniteSet, IsFiniteSet

(* Where the walk stands behind each instruction.                          *)
LEMMA WalkedOf ==
    ASSUME NEW t \in Seq(Instructions)
    PROVE  /\ Signing!Walked(t) \in [0 .. Len(t) -> Nat] /\ Signing!Walked(t)[0] = 0
           /\ \A n \in 1 .. Len(t) : Signing!Walked(t)[n] = Signing!Walked(t)[n - 1] + t[n].size
<1> DEFINE N == Len(t)
           next == [y \in Nat |-> [i \in 1 .. N |-> y + t[i].size]]
<1>1. N \in Nat /\ \A i \in 1 .. N : t[i].size \in Nat
  <2>1. N \in Nat /\ \A i \in 1 .. N : t[i] \in Instructions
    BY LenProperties, ElementOfSeq
  <2> QED BY <2>1 DEF Instructions
<1>2. PICK z \in Nat : z = 0
  OBVIOUS
<1>3. next \in [Nat -> [1 .. N -> Nat]]
  BY <1>1
<1>4. PICK f : Steps(f, N, Nat, z, next)
  <2> HIDE DEF next, N
  <2> QED BY <1>1, <1>2, <1>3, StepsExist
<1>5. f \in [0 .. N -> Nat] /\ f[0] = 0 /\ \A i \in 1 .. N : f[i] = f[i - 1] + t[i].size
  <2>1. f \in [0 .. N -> Nat] /\ f[0] = 0 /\ \A i \in 1 .. N : f[i] = next[f[i - 1]][i]
    BY <1>2, <1>4 DEF Steps
  <2>2. \A i \in 1 .. N : f[i - 1] \in Nat
    <3>1. \A i \in 1 .. N : i - 1 \in 0 .. N
      BY <1>1
    <3> QED BY <2>1, <3>1
  <2> QED BY <2>1, <2>2
<1> HIDE DEF next
<1>6. f = [k \in 0 .. N |-> IF k = 0 THEN 0 ELSE f[k - 1] + t[k].size]
  <2>1. \A n \in 0 .. N : f[n] = IF n = 0 THEN 0 ELSE f[n - 1] + t[n].size
    <3>1. \A n \in 0 .. N : n # 0 => n \in 1 .. N
      BY <1>1
    <3> QED BY <1>5, <3>1
  <2>2. f = [n \in 0 .. N |-> f[n]]
    BY <1>5
  <2> QED BY <2>1, <2>2
<1> DEFINE r == Signing!Walked(t)
<1>7. r = [k \in 0 .. N |-> IF k = 0 THEN 0 ELSE r[k - 1] + t[k].size]
  <2>1. r = CHOOSE g : g = [k \in 0 .. N |-> IF k = 0 THEN 0 ELSE g[k - 1] + t[k].size]
    BY Zenon DEF Signing!Walked
  <2> HIDE DEF N, r
  <2> QED BY <1>6, <2>1, Zenon
<1> HIDE DEF r
<1>8. r[0] = 0 /\ \A n \in 1 .. N : r[n] = r[n - 1] + t[n].size
  <2>1. 0 \in 0 .. N /\ \A n \in 1 .. N : n \in 0 .. N /\ n # 0
    BY <1>1
  <2> QED BY <1>7, <2>1
<1>9. \A n \in 0 .. N : r[n] \in Nat
  <2> DEFINE Bad == {n \in Nat : n <= N /\ r[n] \notin Nat}
  <2>1. SUFFICES ASSUME Bad # {} PROVE FALSE
    BY <1>1
  <2>2. PICK n \in Bad : \A m \in Bad : ~(<<m, n>> \in OpToRel(<, Nat))
    BY <2>1, NatLessThanWellFounded, WFMin
  <2>3. n \in Nat /\ n <= N /\ r[n] \notin Nat
    BY <2>2
  <2>4. n # 0
    BY <1>8, <2>3
  <2>5. n - 1 \in Nat /\ n - 1 < n /\ n - 1 <= N /\ n \in 1 .. N
    BY <1>1, <2>3, <2>4
  <2>6. r[n - 1] \in Nat
    BY <2>2, <2>3, <2>5 DEF OpToRel
  <2>7. r[n] = r[n - 1] + t[n].size
    BY <1>8, <2>5
  <2>8. t[n].size \in Nat
    BY <1>1, <2>5
  <2> QED BY <2>3, <2>6, <2>7, <2>8
<1>10. r \in [0 .. N -> Nat]
  BY <1>7, <1>9
<1> QED BY <1>8, <1>10 DEF r, N

LEMMA WalkGoesOn ==
    ASSUME NEW t \in Seq(Instructions), NEW n \in 0 .. Len(t), NEW m \in 0 .. Len(t), m <= n
    PROVE  Signing!Walked(t)[m] <= Signing!Walked(t)[n]
<1> DEFINE N == Len(t)
           r == Signing!Walked(t)
<1>1. N \in Nat /\ \A i \in 1 .. N : t[i].size \in Nat
  <2>1. N \in Nat /\ \A i \in 1 .. N : t[i] \in Instructions
    BY LenProperties, ElementOfSeq
  <2> QED BY <2>1 DEF Instructions
<1>2. r \in [0 .. N -> Nat] /\ \A i \in 1 .. N : r[i] = r[i - 1] + t[i].size
  BY WalkedOf
<1> HIDE DEF r, N
<1> DEFINE Bad == {k \in Nat : m <= k /\ k <= N /\ ~(r[m] <= r[k])}
<1>3. SUFFICES Bad = {}
  <2>1. n \in Nat /\ m <= n /\ n <= N
    BY <1>1 DEF N
  <2> QED BY <1>3, <2>1 DEF r
<1>4. SUFFICES ASSUME Bad # {} PROVE FALSE
  OBVIOUS
<1>5. PICK k \in Bad : \A j \in Bad : ~(<<j, k>> \in OpToRel(<, Nat))
  BY <1>4, NatLessThanWellFounded, WFMin
<1>0. m \in Nat
  BY <1>1 DEF N
<1>6. k \in Nat /\ m \in Nat /\ m <= k /\ k <= N /\ ~(r[m] <= r[k])
  BY <1>0, <1>5
<1>7. r[m] \in Nat
  BY <1>1, <1>2, <1>6
<1>8. k # m
  BY <1>6, <1>7
<1>9. k - 1 \in Nat /\ k - 1 < k /\ m <= k - 1 /\ k - 1 <= N /\ k \in 1 .. N /\ k - 1 \in 0 .. N
  BY <1>1, <1>6, <1>8
<1>10. r[m] <= r[k - 1]
  BY <1>5, <1>6, <1>9 DEF OpToRel
<1>11. r[k - 1] \in Nat /\ t[k].size \in Nat /\ r[k] = r[k - 1] + t[k].size
  BY <1>1, <1>2, <1>9
<1> QED BY <1>6, <1>7, <1>10, <1>11

-----------------------------------------------------------------------------
(* The database that signatures are made of, and what was asked for.       *)
DatabaseOK ==
    /\ image \in Seq(Nat) /\ tiling \in Seq(Instructions)
    /\ \A k \in DOMAIN tiling :
           tiling[k].off + tiling[k].open <= tiling[k].size /\ tiling[k].open < tiling[k].size
    /\ Signing!EndOf(Len(tiling)) <= Signing!Size
    /\ Signing!IsAsk(ask)

(* Instructions do not overlap, and leave no gaps.                         *)
LEMMA InstructionsFollow ==
    ASSUME DatabaseOK
    PROVE  /\ Signing!Size \in Nat /\ Len(tiling) \in Nat /\ DOMAIN tiling = 1 .. Len(tiling)
           /\ \A k \in DOMAIN tiling :
                 /\ Signing!HeadOf(k) \in Nat /\ Signing!EndOf(k) \in Nat
                 /\ tiling[k].size \in Nat /\ tiling[k].off \in Nat /\ tiling[k].open \in Nat
                 /\ Signing!EndOf(k) = Signing!HeadOf(k) + tiling[k].size
                 /\ Signing!HeadOf(k) < Signing!EndOf(k)
                 /\ Signing!EndOf(k) <= Signing!Size
                 /\ k # Len(tiling) => k + 1 \in DOMAIN tiling /\ Signing!EndOf(k) = Signing!HeadOf(k + 1)
           /\ \A j, k \in DOMAIN tiling : j < k => Signing!EndOf(j) <= Signing!HeadOf(k)
           /\ Signing!EndOf(Len(tiling)) \in Nat
<1> DEFINE N == Len(tiling)
           r == Signing!Walked(tiling)
<1>1. tiling \in Seq(Instructions) /\ N \in Nat /\ DOMAIN tiling = 1 .. N /\ Signing!Size \in Nat
  BY LenProperties DEF DatabaseOK, Signing!Size
<1>2. \A k \in 1 .. N : tiling[k] \in Instructions
  BY <1>1, ElementOfSeq
<1>3. r \in [0 .. N -> Nat] /\ r[0] = 0 /\ \A k \in 1 .. N : r[k] = r[k - 1] + tiling[k].size
  BY <1>1, WalkedOf
<1>4. \A m, n \in 0 .. N : m <= n => r[m] <= r[n]
  BY <1>1, WalkGoesOn
<1>5. \A k : Signing!HeadOf(k) = r[k - 1] /\ Signing!EndOf(k) = r[k]
  BY DEF Signing!HeadOf, Signing!EndOf
<1>6. r[N] <= Signing!Size /\ \A k \in 1 .. N : tiling[k].open < tiling[k].size
  BY <1>1, <1>5 DEF DatabaseOK
<1> HIDE DEF r, N
<1>7. ASSUME NEW k \in 1 .. N
      PROVE  /\ Signing!HeadOf(k) \in Nat /\ Signing!EndOf(k) \in Nat
             /\ tiling[k].size \in Nat /\ tiling[k].off \in Nat /\ tiling[k].open \in Nat
             /\ Signing!EndOf(k) = Signing!HeadOf(k) + tiling[k].size
             /\ Signing!HeadOf(k) < Signing!EndOf(k)
             /\ Signing!EndOf(k) <= Signing!Size
             /\ k # N => k + 1 \in 1 .. N /\ Signing!EndOf(k) = Signing!HeadOf(k + 1)
  <2>1. k - 1 \in 0 .. N /\ k \in 0 .. N /\ N \in 0 .. N /\ k <= N /\ (k + 1) - 1 = k
    BY <1>1
  <2>2. r[k - 1] \in Nat /\ r[k] \in Nat /\ r[N] \in Nat /\ r[k] <= r[N]
    BY <1>3, <1>4, <2>1
  <2>3. tiling[k].size \in Nat /\ tiling[k].off \in Nat /\ tiling[k].open \in Nat
    BY <1>2 DEF Instructions
  <2>4. r[k] = r[k - 1] + tiling[k].size /\ tiling[k].open < tiling[k].size
    BY <1>3, <1>6
  <2>5. r[k - 1] < r[k] /\ r[k] <= Signing!Size
    BY <1>1, <1>6, <2>2, <2>3, <2>4
  <2>6. k # N => k + 1 \in 1 .. N
    BY <1>1
  <2> QED BY <1>5, <2>1, <2>2, <2>3, <2>4, <2>5, <2>6
<1>8. ASSUME NEW j \in 1 .. N, NEW k \in 1 .. N, j < k PROVE Signing!EndOf(j) <= Signing!HeadOf(k)
  <2>1. j \in 0 .. N /\ k - 1 \in 0 .. N /\ j <= k - 1
    BY <1>1, <1>8
  <2> QED BY <1>4, <1>5, <2>1
<1>9. Signing!EndOf(N) \in Nat
  <2>1. N \in 0 .. N
    BY <1>1
  <2> QED BY <1>3, <1>5, <2>1
<1> QED BY <1>1, <1>7, <1>8, <1>9 DEF N

LEMMA HeadIsOfOne ==
    ASSUME DatabaseOK, NEW k \in DOMAIN tiling
    PROVE  Signing!Behind(Signing!HeadOf(k)) = Signing!EndOf(k)
<1>1. \A j \in DOMAIN tiling : Signing!HeadOf(j) = Signing!HeadOf(k) => j = k
  <2>1. SUFFICES ASSUME NEW j \in DOMAIN tiling, Signing!HeadOf(j) = Signing!HeadOf(k), j # k PROVE FALSE
    OBVIOUS
  <2>2. j \in Nat /\ k \in Nat /\ (j < k \/ k < j)
    BY <2>1, InstructionsFollow
  <2>3. /\ Signing!HeadOf(j) < Signing!EndOf(j) /\ Signing!HeadOf(k) < Signing!EndOf(k)
        /\ Signing!HeadOf(j) \in Nat /\ Signing!EndOf(j) \in Nat
        /\ Signing!HeadOf(k) \in Nat /\ Signing!EndOf(k) \in Nat
    BY InstructionsFollow
  <2>4. /\ j < k => Signing!EndOf(j) <= Signing!HeadOf(k)
        /\ k < j => Signing!EndOf(k) <= Signing!HeadOf(j)
    BY InstructionsFollow
  <2> QED BY <2>1, <2>2, <2>3, <2>4
<1>2. (CHOOSE j \in DOMAIN tiling : Signing!HeadOf(j) = Signing!HeadOf(k)) = k
  BY <1>1
<1> QED BY <1>2 DEF Signing!Behind

(* The next place at which an instruction ends.                            *)
LEMMA BehindIsNext ==
    ASSUME DatabaseOK, NEW a \in Signing!Heads
    PROVE  /\ a \in Nat /\ Signing!Behind(a) \in Nat /\ Signing!Behind(a) \in Signing!Ends
           /\ a < Signing!Behind(a) /\ Signing!Behind(a) <= Signing!Size
           /\ \A e \in Signing!Ends : e <= a \/ Signing!Behind(a) <= e
<1>1. PICK k \in DOMAIN tiling : a = Signing!HeadOf(k)
  BY DEF Signing!Heads
<1>2. Signing!Behind(a) = Signing!EndOf(k)
  BY <1>1, HeadIsOfOne
<1>3. /\ a \in Nat /\ Signing!EndOf(k) \in Nat /\ a < Signing!EndOf(k) /\ Signing!EndOf(k) <= Signing!Size
  BY <1>1, InstructionsFollow
<1>4. ASSUME NEW j \in DOMAIN tiling PROVE Signing!EndOf(j) <= a \/ Signing!EndOf(k) <= Signing!EndOf(j)
  <2>1. j \in Nat /\ k \in Nat /\ (j < k \/ k < j \/ j = k)
    BY InstructionsFollow
  <2>2. /\ Signing!HeadOf(j) < Signing!EndOf(j) /\ Signing!HeadOf(j) \in Nat /\ Signing!EndOf(j) \in Nat
        /\ Signing!EndOf(k) \in Nat
    BY InstructionsFollow
  <2>3. /\ j < k => Signing!EndOf(j) <= Signing!HeadOf(k)
        /\ k < j => Signing!EndOf(k) <= Signing!HeadOf(j)
    BY InstructionsFollow
  <2> QED BY <1>1, <2>1, <2>2, <2>3
<1> QED BY <1>2, <1>3, <1>4 DEF Signing!Ends

LEMMA LastEnd ==
    ASSUME DatabaseOK, NEW e \in Signing!Ends
    PROVE  /\ e \in Nat /\ e <= Signing!Size
           /\ e \notin Signing!Heads => \A d \in Signing!Ends : d <= e
<1>1. PICK k \in DOMAIN tiling : e = Signing!EndOf(k)
  BY DEF Signing!Ends
<1>2. e \in Nat /\ e <= Signing!Size
  BY <1>1, InstructionsFollow
<1>3. ASSUME e \notin Signing!Heads, NEW j \in DOMAIN tiling PROVE Signing!EndOf(j) <= e
  <2>1. k = Len(tiling)
    BY <1>1, <1>3, InstructionsFollow DEF Signing!Heads
  <2>2. j = k \/ j < k
    BY <2>1, InstructionsFollow
  <2>3. /\ j < k => Signing!EndOf(j) <= Signing!HeadOf(k)
        /\ Signing!HeadOf(k) < Signing!EndOf(k) /\ Signing!HeadOf(k) \in Nat
        /\ Signing!EndOf(k) \in Nat /\ Signing!EndOf(j) \in Nat
    BY InstructionsFollow
  <2> QED BY <1>1, <2>2, <2>3
<1> QED BY <1>2, <1>3 DEF Signing!Ends

(* An instruction has a byte that is left as it is.                        *)
LEMMA SomeByteIsKept ==
    ASSUME DatabaseOK, NEW a \in Signing!Heads
    PROVE  \E p \in Nat : a <= p /\ p < Signing!Behind(a) /\ p \notin Signing!Open
<1>1. PICK k \in DOMAIN tiling : a = Signing!HeadOf(k)
  BY DEF Signing!Heads
<1>2. Signing!Behind(a) = Signing!EndOf(k)
  BY <1>1, HeadIsOfOne
<1>3. /\ a \in Nat /\ Signing!EndOf(k) = a + tiling[k].size
      /\ tiling[k].size \in Nat /\ tiling[k].off \in Nat /\ tiling[k].open \in Nat
  BY <1>1, InstructionsFollow
<1>4. tiling[k].off + tiling[k].open <= tiling[k].size /\ tiling[k].open < tiling[k].size
  BY DEF DatabaseOK
<1> DEFINE p == IF tiling[k].off = 0 THEN a + tiling[k].open ELSE a
<1>5. p \in Nat /\ a <= p /\ p < Signing!EndOf(k)
  BY <1>3, <1>4
<1>6. ASSUME NEW j \in DOMAIN tiling PROVE p \notin Signing!Operand(j)
  <2>1. j \in Nat /\ k \in Nat /\ (j < k \/ k < j \/ j = k)
    BY InstructionsFollow
  <2>2. /\ Signing!HeadOf(j) \in Nat /\ Signing!EndOf(j) = Signing!HeadOf(j) + tiling[j].size
        /\ tiling[j].size \in Nat /\ tiling[j].off \in Nat /\ tiling[j].open \in Nat
    BY InstructionsFollow
  <2>3. tiling[j].off + tiling[j].open <= tiling[j].size
    BY DEF DatabaseOK
  <2>4. Signing!Operand(j) = (Signing!HeadOf(j) + tiling[j].off) .. (Signing!HeadOf(j) + tiling[j].off + tiling[j].open - 1)
    BY DEF Signing!Operand
  <2>5. CASE j = k
    <3>1. Signing!Operand(k) = (a + tiling[k].off) .. (a + tiling[k].off + tiling[k].open - 1)
      BY <1>1, <2>4, <2>5
    <3>2. CASE tiling[k].off = 0
      BY <1>3, <2>5, <3>1, <3>2
    <3>3. CASE tiling[k].off # 0
      BY <1>3, <2>5, <3>1, <3>3
    <3> QED BY <3>2, <3>3
  <2> HIDE DEF p
  <2>6. CASE j < k
    <3>1. Signing!EndOf(j) <= a
      BY <1>1, <2>6, InstructionsFollow
    <3> QED BY <1>3, <1>5, <2>2, <2>3, <2>4, <3>1
  <2>7. CASE k < j
    <3>1. Signing!EndOf(k) <= Signing!HeadOf(j)
      BY <2>7, InstructionsFollow
    <3> QED BY <1>3, <1>5, <2>2, <2>3, <2>4, <3>1
  <2> QED BY <2>1, <2>5, <2>6, <2>7
<1>7. p \notin Signing!Open
  BY <1>6 DEF Signing!Open
<1> QED BY <1>2, <1>5, <1>7

-----------------------------------------------------------------------------
(* The bytes from one address to another.                                  *)
LEMMA ByteIs ==
    ASSUME NEW v \in Nat, NEW x, NEW O, NEW b, b = [value |-> v, open |-> x \in O]
    PROVE  b \in SigBytes /\ b.value = v /\ (b.open <=> x \in O)
<1>1. b \in SigBytes
  BY DEF SigBytes
<1>2. b.value = v
  OBVIOUS
<1>3. b.open = (x \in O)
  OBVIOUS
<1>4. b.open <=> x \in O
  BY <1>3, Zenon
<1> QED BY <1>1, <1>2, <1>4

LEMMA BytesOf ==
    ASSUME DatabaseOK, NEW m \in Nat, NEW n \in Nat, m <= n, n <= Signing!Size, NEW O
    PROVE  /\ Signing!BytesAt(m, n, O) \in Seq(SigBytes)
           /\ Len(Signing!BytesAt(m, n, O)) = n - m
           /\ \A j \in 1 .. n - m : /\ Signing!BytesAt(m, n, O)[j].value = image[m + j]
                                    /\ Signing!BytesAt(m, n, O)[j].open <=> m + j - 1 \in O
<1> DEFINE b == Signing!BytesAt(m, n, O)
           N == n - m
<1>1. N \in Nat /\ Signing!Size \in Nat /\ image \in Seq(Nat)
  BY InstructionsFollow DEF DatabaseOK
<1>2. ~(n > Signing!Size)
  BY <1>1
<1>3. b = [j \in 1 .. N |-> [value |-> image[m + j], open |-> m + j - 1 \in O]]
  BY <1>2, Zenon DEF Signing!BytesAt
<1>4. \A j \in 1 .. N : image[m + j] \in Nat
  <2>1. \A j \in 1 .. N : m + j \in 1 .. Len(image)
    BY <1>1 DEF Signing!Size
  <2> QED BY <1>1, <2>1, ElementOfSeq
<1> HIDE DEF b, N
<1>5. \A j \in 1 .. N : b[j] = [value |-> image[m + j], open |-> m + j - 1 \in O]
  BY <1>3
<1>6. ASSUME NEW j \in 1 .. N
      PROVE  /\ b[j] \in SigBytes /\ b[j].value = image[m + j]
             /\ b[j].open <=> m + j - 1 \in O
  <2>1. PICK v, x, e : v = image[m + j] /\ x = m + j - 1 /\ e = b[j]
    OBVIOUS
  <2>2. v \in Nat /\ e = [value |-> v, open |-> x \in O]
    BY <1>4, <1>5, <2>1, Zenon
  <2>3. e \in SigBytes /\ e.value = v /\ (e.open <=> x \in O)
    BY <2>2, ByteIs
  <2> QED BY <2>1, <2>3, Zenon
<1>7. \A j \in 1 .. N : b[j] \in SigBytes
  BY <1>6
<1>8. b = [j \in 1 .. N |-> b[j]]
  BY <1>3, <1>5
<1>9. b \in [1 .. N -> SigBytes]
  BY <1>7, <1>8, Zenon
<1>10. b \in Seq(SigBytes)
  BY <1>1, <1>9 DEF Seq
<1>11. DOMAIN b = 1 .. N /\ DOMAIN b = 1 .. Len(b) /\ Len(b) \in Nat
  BY <1>9, <1>10, LenProperties
<1>12. Len(b) = N
  BY <1>1, <1>11
<1>13. \A j \in 1 .. N : b[j].value = image[m + j] /\ (b[j].open <=> m + j - 1 \in O)
  BY <1>6
<1> QED BY <1>10, <1>12, <1>13 DEF b, N

LEMMA ElementOfBytes == \A x, y \in SigBytes : x.value = y.value /\ (x.open <=> y.open) => x = y
<1>1. SUFFICES ASSUME NEW x \in SigBytes, NEW y \in SigBytes, x.value = y.value, x.open <=> y.open
               PROVE  x = y
  OBVIOUS
<1>2. /\ x = [value |-> x.value, open |-> x.open] /\ x.open \in BOOLEAN
      /\ y = [value |-> y.value, open |-> y.open] /\ y.open \in BOOLEAN
  BY DEF SigBytes
<1>3. x.open = y.open
  BY <1>1, <1>2
<1> QED BY <1>1, <1>2, <1>3, Zenon

LEMMA SameBytes ==
    ASSUME NEW s \in Seq(SigBytes), NEW t \in Seq(SigBytes), Len(s) = Len(t),
           \A j \in 1 .. Len(s) : s[j].value = t[j].value /\ (s[j].open <=> t[j].open)
    PROVE  s = t
<1>1. \A j \in 1 .. Len(s) : s[j] \in SigBytes /\ t[j] \in SigBytes
  BY ElementOfSeq
<1>2. \A j \in 1 .. Len(s) : s[j] = t[j]
  BY <1>1, ElementOfBytes
<1> QED BY <1>2, SeqEqual

LEMMA BytesJoin ==
    ASSUME DatabaseOK, NEW m \in Nat, NEW n \in Nat, NEW p \in Nat, m <= n, n <= p, p <= Signing!Size, NEW O
    PROVE  Signing!BytesAt(m, n, O) \o Signing!BytesAt(n, p, O) = Signing!BytesAt(m, p, O)
<1> DEFINE a == Signing!BytesAt(m, n, O)
           b == Signing!BytesAt(n, p, O)
           c == Signing!BytesAt(m, p, O)
<1>1. Signing!Size \in Nat /\ n <= Signing!Size /\ m <= p
  BY InstructionsFollow
<1>2. /\ a \in Seq(SigBytes) /\ Len(a) = n - m
      /\ \A j \in 1 .. n - m : a[j].value = image[m + j] /\ (a[j].open <=> m + j - 1 \in O)
  BY <1>1, BytesOf
<1>3. /\ b \in Seq(SigBytes) /\ Len(b) = p - n
      /\ \A j \in 1 .. p - n : b[j].value = image[n + j] /\ (b[j].open <=> n + j - 1 \in O)
  BY <1>1, BytesOf
<1>4. /\ c \in Seq(SigBytes) /\ Len(c) = p - m
      /\ \A j \in 1 .. p - m : c[j].value = image[m + j] /\ (c[j].open <=> m + j - 1 \in O)
  BY <1>1, BytesOf
<1> HIDE DEF a, b, c
<1>5. /\ a \o b \in Seq(SigBytes) /\ Len(a \o b) = Len(a) + Len(b)
      /\ \A j \in 1 .. Len(a) + Len(b) : (a \o b)[j] = IF j <= Len(a) THEN a[j] ELSE b[j - Len(a)]
  BY <1>2, <1>3, ConcatProperties
<1>6. Len(a) + Len(b) = p - m /\ Len(a \o b) = Len(c)
  BY <1>2, <1>3, <1>4, <1>5
<1>7. ASSUME NEW j \in 1 .. p - m
      PROVE  (a \o b)[j].value = c[j].value /\ ((a \o b)[j].open <=> c[j].open)
  <2>1. CASE j <= n - m
    <3>1. j \in 1 .. n - m /\ (a \o b)[j] = a[j]
      BY <1>2, <1>5, <1>6, <2>1
    <3> QED BY <1>2, <1>4, <3>1
  <2>2. CASE ~(j <= n - m)
    <3>1. j - (n - m) \in 1 .. p - n /\ n + (j - (n - m)) = m + j
      BY <2>2
    <3>2. (a \o b)[j] = b[j - (n - m)]
      BY <1>2, <1>5, <1>6, <2>2
    <3>3. PICK i : i = j - (n - m)
      OBVIOUS
    <3>4. /\ b[i].value = image[n + i] /\ (b[i].open <=> n + i - 1 \in O)
          /\ n + i = m + j
      BY <1>3, <3>1, <3>3
    <3> QED BY <1>4, <3>2, <3>3, <3>4
  <2> QED BY <2>1, <2>2
<1>8. \A j \in 1 .. Len(a \o b) : (a \o b)[j].value = c[j].value /\ ((a \o b)[j].open <=> c[j].open)
  BY <1>5, <1>6, <1>7
<1>9. a \o b = c
  BY <1>4, <1>5, <1>6, <1>8, SameBytes
<1> QED BY <1>9 DEF a, b, c

-----------------------------------------------------------------------------
(* Open bytes at the end are taken off.                                    *)
LEMMA GreatestOf ==
    ASSUME NEW N \in Nat, NEW S, S \subseteq 0 .. N, S # {}
    PROVE  Signing!Greatest(S) \in S /\ \A n \in S : n <= Signing!Greatest(S)
<1> DEFINE Rest == {d \in Nat : d <= N /\ N - d \in S}
<1>1. PICK x \in S : TRUE
  OBVIOUS
<1>2. N - x \in Rest
  <2>1. x \in 0 .. N
    BY <1>1
  <2>2. N - x \in Nat /\ N - x <= N /\ N - (N - x) = x
    BY <2>1
  <2> QED BY <1>1, <2>2
<1>3. PICK d \in Rest : \A e \in Rest : ~(<<e, d>> \in OpToRel(<, Nat))
  BY <1>2, NatLessThanWellFounded, WFMin
<1>4. d \in Nat /\ d <= N /\ N - d \in S
  BY <1>3
<1>5. ASSUME NEW n \in S PROVE n <= N - d
  <2>1. n \in 0 .. N
    BY <1>5
  <2>2. N - n \in Nat /\ N - n <= N /\ N - (N - n) = n
    BY <2>1
  <2>3. ~(N - n < d)
    BY <1>3, <1>4, <2>2 DEF OpToRel
  <2> QED BY <1>4, <2>1, <2>2, <2>3
<1> QED BY <1>4, <1>5 DEF Signing!Greatest

LEMMA TrimmedOf ==
    ASSUME NEW s \in Seq(SigBytes)
    PROVE  /\ Signing!Trimmed(s) \in Seq(SigBytes) /\ Len(Signing!Trimmed(s)) <= Len(s)
           /\ \A j \in 1 .. Len(Signing!Trimmed(s)) : Signing!Trimmed(s)[j] = s[j]
           /\ \A j \in 1 .. Len(s) : j > Len(Signing!Trimmed(s)) => s[j].open
           /\ (\E j \in 1 .. Len(s) : ~s[j].open) => Signing!Trimmed(s) # <<>>
<1> DEFINE S == {0} \cup {j \in DOMAIN s : ~s[j].open}
           g == Signing!Greatest(S)
           t == Signing!Trimmed(s)
<1>1. Len(s) \in Nat /\ DOMAIN s = 1 .. Len(s) /\ \A j \in 1 .. Len(s) : s[j] \in SigBytes
  BY LenProperties, ElementOfSeq
<1>2. S \subseteq 0 .. Len(s) /\ S # {}
  BY <1>1
<1>3. g \in S /\ \A n \in S : n <= g
  <2> HIDE DEF S
  <2> QED BY <1>1, <1>2, GreatestOf
<1>4. g \in 0 .. Len(s)
  BY <1>2, <1>3
<1>5. t = SubSeq(s, 1, g)
  BY DEF Signing!Trimmed
<1> HIDE DEF S, g, t
<1>6. g \in Nat /\ g <= Len(s) /\ \A j \in 1 .. g : s[j] \in SigBytes
  BY <1>1, <1>4
<1>7. /\ t \in Seq(SigBytes) /\ Len(t) = (IF 1 <= g THEN g - 1 + 1 ELSE 0)
      /\ \A j \in 1 .. g - 1 + 1 : t[j] = s[1 + j - 1]
  BY <1>5, <1>6, SubSeqProperties
<1>8. Len(t) = g
  BY <1>6, <1>7
<1>9. \A j \in 1 .. g : t[j] = s[j]
  BY <1>6, <1>7
<1>10. \A j \in 1 .. Len(s) : j > g => s[j].open
  <2>1. SUFFICES ASSUME NEW j \in 1 .. Len(s), j > g, ~s[j].open PROVE FALSE
    OBVIOUS
  <2>2. j \in S
    BY <1>1, <2>1 DEF S
  <2>3. j <= g
    BY <1>3, <2>2
  <2> QED BY <1>1, <1>6, <2>1, <2>3
<1>11. (\E j \in 1 .. Len(s) : ~s[j].open) => t # <<>>
  <2>1. SUFFICES ASSUME NEW j \in 1 .. Len(s), ~s[j].open, t = <<>> PROVE FALSE
    OBVIOUS
  <2>2. g = 0
    BY <1>8, <2>1
  <2> QED BY <1>1, <1>10, <2>1, <2>2
<1> QED BY <1>6, <1>7, <1>8, <1>9, <1>10, <1>11 DEF t

-----------------------------------------------------------------------------
(* Where a signature is found.                                             *)
LEMMA FoundAtItsPlace ==
    ASSUME DatabaseOK, NEW m \in Nat, NEW n \in Nat, m <= n, n <= Signing!Size, NEW O
    PROVE  m \in Signing!Matches(Signing!BytesAt(m, n, O))
<1> DEFINE b == Signing!BytesAt(m, n, O)
<1>1. /\ b \in Seq(SigBytes) /\ Len(b) = n - m
      /\ \A j \in 1 .. n - m : b[j].value = image[m + j]
  BY BytesOf
<1> HIDE DEF b
<1>2. m \in 0 .. Signing!Size /\ m + Len(b) <= Signing!Size /\ DOMAIN b = 1 .. n - m
  BY <1>1, InstructionsFollow, LenProperties
<1>3. m \in Signing!Matches(b)
  BY <1>1, <1>2 DEF Signing!Matches
<1> QED BY <1>3 DEF b

LEMMA FoundWithoutItsEnd ==
    ASSUME DatabaseOK, NEW s \in Seq(SigBytes), NEW a
    PROVE  /\ a \in Signing!Matches(s) => a \in Signing!Matches(Signing!Trimmed(s))
           /\ a \in Signing!Matches(Signing!Trimmed(s)) /\ a + Len(s) <= Signing!Size => a \in Signing!Matches(s)
<1> DEFINE t == Signing!Trimmed(s)
<1>1. /\ t \in Seq(SigBytes) /\ Len(t) <= Len(s) /\ \A j \in 1 .. Len(t) : t[j] = s[j]
      /\ \A j \in 1 .. Len(s) : j > Len(t) => s[j].open
  BY TrimmedOf
<1> HIDE DEF t
<1>2. /\ Len(s) \in Nat /\ Len(t) \in Nat /\ DOMAIN s = 1 .. Len(s) /\ DOMAIN t = 1 .. Len(t)
      /\ Signing!Size \in Nat
  BY <1>1, LenProperties, InstructionsFollow
<1>3. \A r : a \in Signing!Matches(r) <=>
          /\ a \in 0 .. Signing!Size /\ a + Len(r) <= Signing!Size
          /\ \A j \in DOMAIN r : r[j].open \/ r[j].value = image[a + j]
  BY DEF Signing!Matches
<1>4. ASSUME a \in Signing!Matches(s) PROVE a \in Signing!Matches(t)
  <2>1. /\ a \in 0 .. Signing!Size /\ a + Len(s) <= Signing!Size
        /\ \A j \in 1 .. Len(s) : s[j].open \/ s[j].value = image[a + j]
    BY <1>2, <1>3, <1>4
  <2>2. a + Len(t) <= Signing!Size
    BY <1>1, <1>2, <2>1
  <2>3. \A j \in 1 .. Len(t) : j \in 1 .. Len(s)
    BY <1>1, <1>2
  <2>4. \A j \in 1 .. Len(t) : t[j].open \/ t[j].value = image[a + j]
    BY <1>1, <2>1, <2>3
  <2> QED BY <1>2, <1>3, <2>1, <2>2, <2>4
<1>5. ASSUME a \in Signing!Matches(t), a + Len(s) <= Signing!Size PROVE a \in Signing!Matches(s)
  <2>1. /\ a \in 0 .. Signing!Size
        /\ \A j \in 1 .. Len(t) : t[j].open \/ t[j].value = image[a + j]
    BY <1>2, <1>3, <1>5
  <2>2. \A j \in 1 .. Len(s) : j \in 1 .. Len(t) \/ j > Len(t)
    BY <1>2
  <2>3. \A j \in 1 .. Len(s) : s[j].open \/ s[j].value = image[a + j]
    BY <1>1, <2>1, <2>2
  <2> QED BY <1>2, <1>3, <1>5, <2>1, <2>3
<1> QED BY <1>4, <1>5 DEF t

LEMMA UniqueIsAlone ==
    ASSUME DatabaseOK, NEW s, Signing!IsUnique(s), NEW a \in Signing!Matches(s)
    PROVE  Signing!Matches(s) = {a}
<1>1. Signing!Size \in Nat /\ Signing!Matches(s) \subseteq 0 .. Signing!Size
  BY InstructionsFollow DEF Signing!Matches
<1>2. IsFiniteSet(0 .. Signing!Size)
  BY <1>1, FS_Interval
<1>3. IsFiniteSet(Signing!Matches(s))
  BY <1>1, <1>2, FS_Subset
<1>4. Cardinality(Signing!Matches(s)) = 1
  BY SigningCardinality DEF Signing!IsUnique
<1>5. PICK x : Signing!Matches(s) = {x}
  BY <1>3, <1>4, FS_Singleton
<1> QED BY <1>5

(* From a head to an end of instructions a range is the bytes in between.  *)
LEMMA WholeIsBytes ==
    ASSUME DatabaseOK, NEW s \in Signing!Heads, NEW e \in Signing!Ends
    PROVE  Signing!Whole(s, e) = Signing!BytesAt(s, e, Signing!Open)
<1> DEFINE E == {d \in Signing!Ends : d >= e}
<1>1. \A d \in Signing!Ends : d \in Nat
  BY LastEnd
<1>2. e \in E /\ \A d \in E : e <= d
  BY <1>1
<1>3. Signing!Least(E) = e
  <2>1. \A n \in E : (\A m \in E : n <= m) => n = e
    <3>1. \A n \in E : n \in Nat
      BY <1>1
    <3> QED BY <1>1, <1>2, <3>1
  <2> HIDE DEF E
  <2> QED BY <1>2, <2>1 DEF Signing!Least
<1>4. Signing!Stop(e) = e
  <2>1. E # {}
    BY <1>2
  <2>2. Signing!Stop(e) = IF E # {} THEN Signing!Least(E)
                          ELSE IF e <= Signing!Size THEN e ELSE Signing!EndOf(Len(tiling))
    BY Zenon DEF Signing!Stop
  <2> HIDE DEF E
  <2> QED BY <1>3, <2>1, <2>2
<1> QED BY <1>4 DEF Signing!Whole, Signing!RangeBytes

-----------------------------------------------------------------------------
(* The answers that are good ones.                                         *)
GoodAnswer(r) ==
    IF r.sig # <<>> THEN Signing!SignatureIsGood(r) ELSE ask.kind = "range" \/ Signing!NoneFound(r.at)

LEMMA ClosedWithoutWildcards ==
    ASSUME DatabaseOK, ~ask.wildcards, NEW m \in Nat, NEW n \in Nat, m <= n, n <= Signing!Size
    PROVE  LET b == Signing!BytesAt(m, n, Signing!Open) IN
           /\ \A j \in DOMAIN b : ~b[j].open
           /\ \A j \in DOMAIN Signing!Trimmed(b) : ~Signing!Trimmed(b)[j].open
<1> DEFINE b == Signing!BytesAt(m, n, Signing!Open)
<1>1. Signing!Open = {}
  BY DEF Signing!Open
<1>2. /\ b \in Seq(SigBytes) /\ Len(b) = n - m
      /\ \A j \in 1 .. n - m : b[j].open <=> m + j - 1 \in Signing!Open
  BY BytesOf
<1> HIDE DEF b
<1>3. DOMAIN b = 1 .. n - m
  BY <1>2, LenProperties
<1>4. \A j \in DOMAIN b : ~b[j].open
  BY <1>1, <1>2, <1>3
<1>5. /\ Signing!Trimmed(b) \in Seq(SigBytes) /\ Len(Signing!Trimmed(b)) <= Len(b)
      /\ \A j \in 1 .. Len(Signing!Trimmed(b)) : Signing!Trimmed(b)[j] = b[j]
  BY <1>2, TrimmedOf
<1>6. DOMAIN Signing!Trimmed(b) = 1 .. Len(Signing!Trimmed(b)) /\ Len(Signing!Trimmed(b)) \in Nat
  BY <1>5, LenProperties
<1>7. \A j \in DOMAIN Signing!Trimmed(b) : j \in DOMAIN b /\ Signing!Trimmed(b)[j] = b[j]
  BY <1>2, <1>3, <1>5, <1>6
<1> QED BY <1>4, <1>7 DEF b

(* Found with the bytes up to e, and not with fewer instructions.          *)
LEMMA UniqueIsGood ==
    ASSUME DatabaseOK, NEW s \in Signing!Heads, NEW e \in Signing!Ends, s < e,
           NEW b, b = Signing!BytesAt(s, e, Signing!Open), Signing!IsUnique(b),
           \A d \in Signing!EndsFrom(s) : d < e => ~Signing!IsUnique(Signing!BytesAt(s, d, Signing!Open)),
           NEW r, r = [at |-> s, sig |-> Signing!Trimmed(b), span |-> Len(b)]
    PROVE  r.sig # <<>> /\ Signing!SignatureIsGood(r) /\ r \in Signing!SignaturesOf(s)
<1>1. /\ s \in Nat /\ e \in Nat /\ s <= e /\ e <= Signing!Size /\ Signing!Size \in Nat
      /\ e \in Signing!EndsFrom(s)
  BY BehindIsNext, LastEnd, InstructionsFollow DEF Signing!EndsFrom
<1>2. /\ b \in Seq(SigBytes) /\ Len(b) = e - s
      /\ \A j \in 1 .. e - s : b[j].open <=> s + j - 1 \in Signing!Open
  BY <1>1, BytesOf
<1>3. r.at = s /\ r.sig = Signing!Trimmed(b) /\ r.span = e - s
  BY <1>2
<1>4. s \in Signing!Matches(b)
  BY <1>1, FoundAtItsPlace
<1>5. s \in Signing!Matches(Signing!Trimmed(b))
  BY <1>2, <1>4, FoundWithoutItsEnd
<1>6. ASSUME NEW a \in Signing!Matches(Signing!Trimmed(b)), a # s, ~(a + r.span > Signing!Size) PROVE FALSE
  <2>1. a \in 0 .. Signing!Size
    BY <1>6 DEF Signing!Matches
  <2>2. a + Len(b) <= Signing!Size
    BY <1>1, <1>2, <1>3, <1>6, <2>1
  <2>3. a \in Signing!Matches(b)
    BY <1>2, <1>6, <2>2, FoundWithoutItsEnd
  <2>4. Signing!Matches(b) = {s}
    BY <1>4, UniqueIsAlone
  <2> QED BY <1>6, <2>3, <2>4
<1>7. ASSUME NEW d \in Signing!EndsFrom(s), d < s + r.span PROVE ~Signing!IsUnique(Signing!Whole(s, d))
  <2>1. d \in Signing!Ends /\ d \in Nat
    BY LastEnd DEF Signing!EndsFrom
  <2>2. d < e
    BY <1>1, <1>3, <1>7, <2>1
  <2>3. Signing!Whole(s, d) = Signing!BytesAt(s, d, Signing!Open)
    BY <2>1, WholeIsBytes
  <2> QED BY <1>7, <2>2, <2>3
<1>8. ASSUME ~ask.wildcards PROVE \A j \in DOMAIN r.sig : ~r.sig[j].open
  BY <1>1, <1>3, <1>8, ClosedWithoutWildcards
<1>9. Signing!SignatureIsGood(r)
  BY <1>3, <1>5, <1>6, <1>7, <1>8 DEF Signing!SignatureIsGood
<1>10. r.sig # <<>>
  <2>1. PICK p \in Nat : s <= p /\ p < Signing!Behind(s) /\ p \notin Signing!Open
    BY SomeByteIsKept
  <2>2. Signing!Behind(s) <= e /\ Signing!Behind(s) \in Nat
    BY <1>1, BehindIsNext
  <2>3. PICK j : j = p - s + 1
    OBVIOUS
  <2>4. j \in 1 .. e - s /\ s + j - 1 = p
    BY <1>1, <2>1, <2>2, <2>3
  <2>5. ~b[j].open
    BY <1>2, <2>1, <2>4
  <2>6. j \in 1 .. Len(b)
    BY <1>2, <2>4
  <2> QED BY <1>2, <1>3, <2>5, <2>6, TrimmedOf
<1>11. r \in Signing!SignaturesOf(s)
  <2>1. Signing!Whole(s, e) = b
    BY WholeIsBytes
  <2>2. r = [at |-> s, sig |-> Signing!Trimmed(Signing!Whole(s, e)), span |-> e - s]
    BY <1>2, <2>1
  <2> QED BY <1>1, <2>2 DEF Signing!SignaturesOf
<1> QED BY <1>9, <1>10, <1>11

LEMMA StopOf ==
    ASSUME DatabaseOK, NEW s \in Signing!Heads, NEW e \in Nat, s < e
    PROVE  Signing!Stop(e) \in Nat /\ s <= Signing!Stop(e) /\ Signing!Stop(e) <= Signing!Size
<1> DEFINE E == {d \in Signing!Ends : d >= e}
<1>1. s \in Nat /\ Signing!Size \in Nat /\ \A d \in Signing!Ends : d \in Nat /\ d <= Signing!Size
  BY BehindIsNext, InstructionsFollow, LastEnd
<1>2. Signing!Stop(e) = IF E # {} THEN Signing!Least(E)
                        ELSE IF e <= Signing!Size THEN e ELSE Signing!EndOf(Len(tiling))
  BY Zenon DEF Signing!Stop
<1>3. CASE E # {}
  <2>1. E \subseteq Nat
    BY <1>1
  <2>2. PICK x \in E : \A y \in E : ~(<<y, x>> \in OpToRel(<, Nat))
    BY <1>3, <2>1, NatLessThanWellFounded, WFMin
  <2>3. \A y \in E : ~(y < x)
    BY <2>1, <2>2 DEF OpToRel
  <2>4. \A y \in E : x <= y
    BY <2>1, <2>3
  <2>5. Signing!Least(E) \in E
    <3> HIDE DEF E
    <3> QED BY <2>2, <2>4 DEF Signing!Least
  <2>6. PICK d \in E : Signing!Stop(e) = d
    <3> HIDE DEF E
    <3> QED BY <1>2, <1>3, <2>5
  <2>7. d \in Nat /\ d <= Signing!Size /\ d >= e
    BY <1>1, <2>6
  <2> QED BY <1>1, <2>6, <2>7
<1>4. CASE E = {} /\ e <= Signing!Size
  BY <1>1, <1>2, <1>4
<1>5. CASE E = {} /\ ~(e <= Signing!Size)
  <2>1. Signing!Stop(e) = Signing!EndOf(Len(tiling))
    <3> HIDE DEF E
    <3> QED BY <1>2, <1>5
  <2>2. PICK k \in DOMAIN tiling : s = Signing!HeadOf(k)
    BY DEF Signing!Heads
  <2>3. Len(tiling) \in DOMAIN tiling
    BY <2>2, InstructionsFollow
  <2>4. /\ Signing!EndOf(Len(tiling)) \in Nat /\ Signing!EndOf(Len(tiling)) <= Signing!Size
        /\ Signing!HeadOf(Len(tiling)) \in Nat
        /\ Signing!HeadOf(Len(tiling)) < Signing!EndOf(Len(tiling))
    BY <2>3, InstructionsFollow
  <2>5. k = Len(tiling) \/ k < Len(tiling)
    BY InstructionsFollow
  <2>6. k < Len(tiling) => Signing!EndOf(k) <= Signing!HeadOf(Len(tiling))
    BY <2>3, InstructionsFollow
  <2>7. s < Signing!EndOf(k) /\ Signing!EndOf(k) \in Nat
    BY <2>2, InstructionsFollow
  <2>8. s <= Signing!EndOf(Len(tiling))
    BY <1>1, <2>2, <2>4, <2>5, <2>6, <2>7
  <2> QED BY <2>1, <2>4, <2>8
<1> QED BY <1>3, <1>4, <1>5

LEMMA RangeIsGood ==
    ASSUME DatabaseOK, ask.kind = "range", NEW s \in Nat, ask.end \in Nat, s < ask.end,
           NEW b, b = Signing!RangeBytes(s, ask.end),
           NEW r, r = [at |-> s, span |-> Len(b), sig |-> IF s \in Signing!Heads THEN Signing!Trimmed(b) ELSE b],
           r.sig # <<>>
    PROVE  Signing!SignatureIsGood(r)
<1>1. r.at = s /\ r.sig = IF s \in Signing!Heads THEN Signing!Trimmed(b) ELSE b
  OBVIOUS
<1>2. CASE s \in Signing!Heads
  <2>1. PICK e : e = Signing!Stop(ask.end)
    OBVIOUS
  <2>2. e \in Nat /\ s <= e /\ e <= Signing!Size
    BY <1>2, <2>1, StopOf
  <2>3. b = Signing!BytesAt(s, e, Signing!Open)
    BY <1>2, <2>1 DEF Signing!RangeBytes
  <2>4. b \in Seq(SigBytes) /\ s \in Signing!Matches(b)
    BY <2>2, <2>3, BytesOf, FoundAtItsPlace
  <2>5. s \in Signing!Matches(r.sig)
    BY <1>1, <1>2, <2>4, FoundWithoutItsEnd
  <2>6. ASSUME ~ask.wildcards PROVE \A j \in DOMAIN r.sig : ~r.sig[j].open
    BY <1>1, <1>2, <2>2, <2>3, <2>6, ClosedWithoutWildcards
  <2> QED BY <1>1, <2>5, <2>6 DEF Signing!SignatureIsGood
<1>3. CASE s \notin Signing!Heads
  <2>1. b = Signing!BytesAt(s, ask.end, {}) /\ r.sig = b
    BY <1>1, <1>3 DEF Signing!RangeBytes
  <2>2. PICK e \in Nat : e = ask.end
    OBVIOUS
  <2>3. ~(e > Signing!Size)
    BY <2>1, <2>2 DEF Signing!BytesAt
  <2>4. s <= e /\ e <= Signing!Size
    BY <2>2, <2>3, InstructionsFollow
  <2>5. s \in Signing!Matches(b)
    BY <2>1, <2>2, <2>4, FoundAtItsPlace
  <2>6. PICK O : O = {}
    OBVIOUS
  <2>7. b = Signing!BytesAt(s, e, O)
    BY <2>1, <2>2, <2>6
  <2>8. Signing!BytesAt(s, e, O) \in Seq(SigBytes) /\ Len(Signing!BytesAt(s, e, O)) = e - s
    BY <2>4, BytesOf
  <2>9. \A j \in 1 .. e - s : Signing!BytesAt(s, e, O)[j].open <=> s + j - 1 \in O
    BY <2>4, BytesOf
  <2>10. \A j \in DOMAIN b : ~b[j].open
    BY <2>6, <2>7, <2>8, <2>9, LenProperties
  <2> QED BY <1>1, <2>1, <2>5, <2>10 DEF Signing!SignatureIsGood
<1> QED BY <1>2, <1>3

-----------------------------------------------------------------------------
(* A signature that grows is the bytes from its address to the cursor, and *)
(* no fewer instructions were unique; each instruction to be referenced is *)
(* still to come, has no signature, or has one among the answers.          *)
SigAnswers == [at : Nat, sig : Seq(SigBytes), span : Nat]
Grown(a, c) == Signing!BytesAt(a, c, Signing!Open)
Found(s) == \E k \in DOMAIN made : made[k].sig # <<>> /\ made[k] \in Signing!SignaturesOf(s)

SigWalk ==
    \A a, c : a = Head(sites) /\ c = a + Len(growing) =>
        /\ growing = <<>> \/ /\ a \in Signing!Heads /\ c \in Signing!Ends /\ a < c
                             /\ growing = Grown(a, c)
        /\ \A e \in Signing!EndsFrom(a) : e <= c => ~Signing!IsUnique(Grown(a, e))

SigAnswered ==
    /\ \A j, k \in DOMAIN made : j < k => Len(made[j].sig) <= Len(made[k].sig)
    /\ \A s \in Signing!Heads : Signing!NoneFound(s) \/ \E r \in Signing!SignaturesOf(s) :
         /\ Signing!SignatureIsGood(r)
         /\ \/ \E k \in DOMAIN made : made[k] = r
            \/ Len(made) = ask.top /\ \A k \in DOMAIN made : Len(made[k].sig) <= Len(r.sig)

SignInv ==
    /\ DatabaseOK /\ sites \in Seq(Nat) /\ made \in Seq(SigAnswers)
    /\ signPhase = "making" \/ (signPhase = "answered" /\ sites = <<>>)
    /\ sites # <<>> /\ ask.kind # "range" => SigWalk
    /\ \A r : (\E k \in DOMAIN made : made[k] = r) => GoodAnswer(r)
    /\ signPhase = "making" /\ ask.kind = "references" =>
          \A s \in Signing!Heads : \/ \E k \in DOMAIN sites : sites[k] = s
                                   \/ Signing!NoneFound(s) \/ Found(s)
    /\ signPhase = "answered" /\ ask.kind = "references" => SigAnswered

LEMMA SignSafe == ASSUME SignInv PROVE Signing!SignaturesAreTrue
<1>1. ASSUME NEW k \in DOMAIN made
      PROVE  IF made[k].sig # <<>> THEN Signing!SignatureIsGood(made[k])
             ELSE ask.kind = "range" \/ Signing!NoneFound(made[k].at)
  <2>1. GoodAnswer(made[k])
    BY DEF SignInv
  <2> QED BY <2>1 DEF GoodAnswer
<1>2. signPhase = "answered" /\ ask.kind = "references" => SigAnswered
  BY DEF SignInv
<1> QED BY <1>1, <1>2 DEF Signing!SignaturesAreTrue, SigAnswered

(* Nothing changes the database, so what is true of it stays true.         *)
LEMMA DatabaseStays ==
    ASSUME UNCHANGED <<image, tiling, ask>>
    PROVE  /\ DatabaseOK => DatabaseOK'
           /\ Signing!Size' = Signing!Size /\ Signing!Heads' = Signing!Heads
           /\ Signing!Ends' = Signing!Ends /\ Signing!Open' = Signing!Open
           /\ \A a, c : Grown(a, c)' = Grown(a, c)
           /\ \A b : Signing!IsUnique(b)' <=> Signing!IsUnique(b)
           /\ \A s : Signing!EndsFrom(s)' = Signing!EndsFrom(s)
           /\ \A s : Signing!NoneFound(s)' <=> Signing!NoneFound(s)
           /\ \A s : Signing!SignaturesOf(s)' = Signing!SignaturesOf(s)
           /\ \A r : Signing!SignatureIsGood(r)' <=> Signing!SignatureIsGood(r)
           /\ \A r : GoodAnswer(r)' <=> GoodAnswer(r)
<1>1. Signing!Size' = Signing!Size
  BY DEF Signing!Size
<1>2. \A k : Signing!HeadOf(k)' = Signing!HeadOf(k) /\ Signing!EndOf(k)' = Signing!EndOf(k)
  BY DEF Signing!HeadOf, Signing!EndOf
<1>3. Signing!Heads' = Signing!Heads /\ Signing!Ends' = Signing!Ends
  BY <1>2 DEF Signing!Heads, Signing!Ends
<1>4. \A k : Signing!Operand(k)' = Signing!Operand(k)
  BY <1>2 DEF Signing!Operand
<1>5. Signing!Open' = Signing!Open
  BY <1>4 DEF Signing!Open
<1>6. \A m, n, O : Signing!BytesAt(m, n, O)' = Signing!BytesAt(m, n, O)
  BY <1>1 DEF Signing!BytesAt
<1>7. \A b : Signing!Matches(b)' = Signing!Matches(b)
  BY <1>1 DEF Signing!Matches
<1>8. \A b : Signing!IsUnique(b)' <=> Signing!IsUnique(b)
  BY <1>7 DEF Signing!IsUnique
<1>9. \A s : Signing!EndsFrom(s)' = Signing!EndsFrom(s)
  BY <1>3 DEF Signing!EndsFrom
<1>10. \A e : Signing!Stop(e)' = Signing!Stop(e)
  <2>1. Signing!EndOf(Len(tiling))' = Signing!EndOf(Len(tiling))
    BY DEF Signing!EndOf
  <2> QED BY <1>1, <1>3, <2>1 DEF Signing!Stop
<1>11. \A s, e : Signing!Whole(s, e)' = Signing!Whole(s, e)
  BY <1>3, <1>5, <1>6, <1>10 DEF Signing!RangeBytes, Signing!Whole
<1>12. \A s : Signing!NoneFound(s)' <=> Signing!NoneFound(s)
  BY <1>3, <1>8, <1>9, <1>11 DEF Signing!NoneFound
<1>13. \A s : Signing!SignaturesOf(s)' = Signing!SignaturesOf(s)
  BY <1>9, <1>11 DEF Signing!SignaturesOf
<1>14. \A r : Signing!SignatureIsGood(r)' <=> Signing!SignatureIsGood(r)
  BY <1>1, <1>7, <1>8, <1>9, <1>11 DEF Signing!SignatureIsGood
<1>15. \A r : GoodAnswer(r)' <=> GoodAnswer(r)
  BY <1>12, <1>14 DEF GoodAnswer
<1>16. DatabaseOK => DatabaseOK'
  <2>1. Signing!EndOf(Len(tiling))' = Signing!EndOf(Len(tiling))
    BY DEF Signing!EndOf
  <2>2. Signing!IsAsk(ask)' <=> Signing!IsAsk(ask)
    BY DEF Signing!IsAsk
  <2> QED BY <1>1, <2>1, <2>2 DEF DatabaseOK
<1>17. \A a, c : Grown(a, c)' = Grown(a, c)
  BY <1>1, <1>5 DEF Signing!BytesAt, Grown
<1> QED BY <1>1, <1>3, <1>5, <1>17, <1>8, <1>9, <1>12, <1>13, <1>14, <1>15, <1>16

LEMMA SignStays == ASSUME SignInv, UNCHANGED signaturesVars PROVE SignInv'
<1>1. UNCHANGED <<image, tiling, ask>> /\ UNCHANGED <<sites, growing, made, signPhase>>
  BY DEF signaturesVars
<1>2. SigWalk => SigWalk'
  BY <1>1, DatabaseStays DEF SigWalk
<1>3. \A s : Found(s) <=> Found(s)'
  BY <1>1, DatabaseStays DEF Found
<1>4. SigAnswered => SigAnswered'
  BY <1>1, DatabaseStays DEF SigAnswered
<1>5. DatabaseOK' /\ (\A r : GoodAnswer(r)' <=> GoodAnswer(r))
  BY <1>1, DatabaseStays DEF SignInv
<1>6. (\A s : Signing!NoneFound(s)' <=> Signing!NoneFound(s)) /\ Signing!Heads' = Signing!Heads
  BY <1>1, DatabaseStays
<1> QED BY <1>1, <1>2, <1>3, <1>4, <1>5, <1>6 DEF SignInv

LEMMA SignInit == ASSUME Signing!Init PROVE SignInv
<1>1. /\ image \in Images /\ tiling \in Tilings /\ ask \in Asks
      /\ growing = <<>> /\ made = <<>> /\ signPhase = "making"
  BY DEF Signing!Init
<1>2. DatabaseOK
  BY <1>1, SigningConstants DEF Signing!Init, DatabaseOK
<1>3. sites \in Seq(Nat)
  <2>1. CASE ask.kind = "references"
    <3>1. sites = [k \in DOMAIN tiling |-> Signing!HeadOf(k)]
      BY <2>1 DEF Signing!Init
    <3>2. \A k \in 1 .. Len(tiling) : Signing!HeadOf(k) \in Nat
      BY <1>2, InstructionsFollow
    <3>3. sites \in [1 .. Len(tiling) -> Nat] /\ Len(tiling) \in Nat
      BY <1>2, <3>1, <3>2, InstructionsFollow
    <3> QED BY <3>3 DEF Seq
  <2>2. CASE ask.kind # "references"
    <3>1. sites = ask.sites
      BY <2>2 DEF Signing!Init
    <3> QED BY <1>2, <2>2, <3>1 DEF DatabaseOK, Signing!IsAsk
  <2> QED BY <2>1, <2>2
<1>4. made \in Seq(SigAnswers) /\ DOMAIN made = {} /\ Len(growing) = 0
  BY <1>1, EmptySeq
<1>5. sites # <<>> => SigWalk
  <2>1. SUFFICES ASSUME sites # <<>>, NEW a, NEW c, a = Head(sites), c = a + Len(growing)
                 PROVE  \A e \in Signing!EndsFrom(a) : ~(e <= c)
    BY <1>1 DEF SigWalk
  <2>2. a \in Nat
    BY <1>3, <2>1, HeadTailProperties
  <2>3. a = c
    BY <1>4, <2>1, <2>2
  <2>4. \A e \in Signing!EndsFrom(a) : e \in Nat /\ e > a
    BY <1>2, LastEnd DEF Signing!EndsFrom
  <2> QED BY <2>2, <2>3, <2>4
<1>6. ASSUME ask.kind = "references", NEW s \in Signing!Heads PROVE \E k \in DOMAIN sites : sites[k] = s
  <2>1. sites = [k \in DOMAIN tiling |-> Signing!HeadOf(k)]
    BY <1>6 DEF Signing!Init
  <2> QED BY <2>1 DEF Signing!Heads
<1> QED BY <1>1, <1>2, <1>3, <1>4, <1>5, <1>6 DEF SignInv

(* An address is done with: it has its answer, or there is none.           *)
LEMMA SiteIsDone ==
    ASSUME SignInv, signPhase = "making", sites # <<>>, UNCHANGED <<image, tiling, ask, signPhase>>,
           sites' = Tail(sites), growing' = <<>> \/ ask.kind = "range",
           made' = made \/ \E r \in SigAnswers : made' = Append(made, r) /\ GoodAnswer(r),
           ask.kind = "references" =>
               \/ Signing!NoneFound(Head(sites))
               \/ \E r \in Signing!SignaturesOf(Head(sites)) : r.sig # <<>> /\ made' = Append(made, r)
    PROVE  SignInv'
<1>1. /\ DatabaseOK /\ sites \in Seq(Nat) /\ made \in Seq(SigAnswers)
      /\ \A r : (\E k \in DOMAIN made : made[k] = r) => GoodAnswer(r)
      /\ ask.kind = "references" =>
          \A s \in Signing!Heads : \/ \E k \in DOMAIN sites : sites[k] = s
                                   \/ Signing!NoneFound(s) \/ Found(s)
  BY DEF SignInv
<1>2. /\ DatabaseOK' /\ Signing!Heads' = Signing!Heads /\ (\A r : GoodAnswer(r)' <=> GoodAnswer(r))
      /\ (\A s : Signing!NoneFound(s)' <=> Signing!NoneFound(s))
      /\ (\A s : Signing!EndsFrom(s)' = Signing!EndsFrom(s))
      /\ (\A s : Signing!SignaturesOf(s)' = Signing!SignaturesOf(s))
  BY <1>1, DatabaseStays
<1>3. sites' \in Seq(Nat) /\ \A k \in DOMAIN sites : k = 1 \/ (k - 1 \in DOMAIN sites' /\ sites'[k - 1] = sites[k])
  <2>1. Tail(sites) \in Seq(Nat) /\ Len(Tail(sites)) = Len(sites) - 1
        /\ \A i \in 1 .. Len(Tail(sites)) : Tail(sites)[i] = sites[i + 1]
    BY <1>1, HeadTailProperties
  <2>2. DOMAIN sites = 1 .. Len(sites) /\ Len(sites) \in Nat /\ DOMAIN Tail(sites) = 1 .. Len(Tail(sites))
    BY <1>1, <2>1, LenProperties
  <2>3. ASSUME NEW k \in DOMAIN sites, k # 1 PROVE k - 1 \in 1 .. Len(Tail(sites)) /\ (k - 1) + 1 = k
    BY <2>1, <2>2, <2>3
  <2>4. ASSUME NEW k \in DOMAIN sites, k # 1 PROVE Tail(sites)[k - 1] = sites[k]
    BY <2>1, <2>3, <2>4
  <2> QED BY <2>1, <2>2, <2>3, <2>4
<1>4. /\ made' \in Seq(SigAnswers)
      /\ \A k \in DOMAIN made : k \in DOMAIN made' /\ made'[k] = made[k]
      /\ \A k \in DOMAIN made' : GoodAnswer(made'[k])
  <2>1. CASE made' = made
    BY <1>1, <2>1
  <2>2. CASE made' # made
    <3>1. PICK r \in SigAnswers : made' = Append(made, r) /\ GoodAnswer(r)
      BY <2>2
    <3>2. made' \in Seq(SigAnswers) /\ Len(made') = Len(made) + 1 /\ made'[Len(made) + 1] = r
          /\ \A k \in 1 .. Len(made) : made'[k] = made[k]
      BY <1>1, <3>1, AppendProperties
    <3>3. DOMAIN made = 1 .. Len(made) /\ DOMAIN made' = 1 .. Len(made') /\ Len(made) \in Nat
      BY <1>1, <3>2, LenProperties
    <3>4. \A k \in DOMAIN made' : k \in DOMAIN made \/ k = Len(made) + 1
      BY <3>2, <3>3
    <3>5. \A k \in DOMAIN made : k \in DOMAIN made'
      BY <3>2, <3>3
    <3>6. ASSUME NEW k \in DOMAIN made' PROVE GoodAnswer(made'[k])
      <4>1. CASE k \in DOMAIN made
        BY <1>1, <3>2, <3>3, <4>1
      <4>2. CASE k = Len(made) + 1
        BY <3>1, <3>2, <4>2
      <4> QED BY <3>4, <4>1, <4>2
    <3> QED BY <3>2, <3>3, <3>5, <3>6
  <2> QED BY <2>1, <2>2
<1>5. \A r : (\E k \in DOMAIN made' : made'[k] = r) => GoodAnswer(r)'
  BY <1>2, <1>4
<1>6. sites' # <<>> /\ (ask.kind # "range")' => SigWalk'
  <2>1. SUFFICES ASSUME sites' # <<>>, ask.kind # "range", NEW a, NEW c, a = Head(sites'), c = a + Len(growing')
                 PROVE  growing' = <<>> /\ \A e \in Signing!EndsFrom(a) : ~(e <= c)
    BY <1>2 DEF SigWalk
  <2>2. a \in Nat
    BY <1>3, <2>1, HeadTailProperties
  <2>3. growing' = <<>> /\ Len(growing') = 0
    BY <2>1, EmptySeq
  <2>4. a = c
    BY <2>1, <2>2, <2>3
  <2>5. \A e \in Signing!EndsFrom(a) : e \in Nat /\ e > a
    BY <1>1, LastEnd DEF Signing!EndsFrom
  <2> QED BY <2>2, <2>3, <2>4, <2>5
<1>7. ASSUME ask.kind = "references", NEW s \in Signing!Heads
      PROVE  (\E k \in DOMAIN sites' : sites'[k] = s) \/ Signing!NoneFound(s) \/ Found(s)'
  <2>1. CASE Found(s)
    <3>1. PICK k \in DOMAIN made : made[k].sig # <<>> /\ made[k] \in Signing!SignaturesOf(s)
      BY <2>1 DEF Found
    <3>2. k \in DOMAIN made' /\ made'[k].sig # <<>> /\ made'[k] \in Signing!SignaturesOf(s)
      BY <1>4, <3>1
    <3> QED BY <1>2, <3>2 DEF Found
  <2>2. CASE s = Head(sites)
    <3>1. CASE Signing!NoneFound(Head(sites))
      BY <2>2, <3>1
    <3>2. CASE \E r \in Signing!SignaturesOf(Head(sites)) : r.sig # <<>> /\ made' = Append(made, r)
      <4>1. PICK r \in Signing!SignaturesOf(s) : r.sig # <<>> /\ made' = Append(made, r)
        BY <2>2, <3>2
      <4>2. Len(made) + 1 \in DOMAIN made' /\ made'[Len(made) + 1] = r
        <5>1. PICK S : made \in Seq(S) /\ r \in S
          <6>1. made \in Seq(SigAnswers \cup {r})
            BY <1>1, SeqMonotonic
          <6> QED BY <6>1
        <5>2. Len(made') = Len(made) + 1 /\ made'[Len(made) + 1] = r /\ made' \in Seq(S)
          BY <4>1, <5>1, AppendProperties
        <5>3. DOMAIN made' = 1 .. Len(made') /\ Len(made) \in Nat
          BY <5>1, <5>2, LenProperties
        <5> QED BY <5>2, <5>3
      <4> QED BY <1>2, <4>1, <4>2 DEF Found
    <3> QED BY <1>7, <3>1, <3>2
  <2>3. CASE \E k \in DOMAIN sites : sites[k] = s
    <3>1. PICK k \in DOMAIN sites : sites[k] = s
      BY <2>3
    <3>2. k = 1 => s = Head(sites)
      BY <3>1 DEF Head
    <3> QED BY <1>3, <2>2, <3>1, <3>2
  <2> QED BY <1>1, <1>7, <2>1, <2>2, <2>3
<1>8. signPhase' = "making" /\ ask' = ask
  OBVIOUS
<1> QED BY <1>2, <1>3, <1>4, <1>5, <1>6, <1>7, <1>8 DEF SignInv

(* Where a signature stands, and what is known of it.                      *)
LEMMA SiteOf ==
    ASSUME SignInv, sites # <<>>, ask.kind # "range"
    PROVE  /\ Signing!Site \in Nat /\ Signing!Site = Head(sites) /\ SigWalk
           /\ Signing!Cursor \in Nat /\ Signing!Cursor = Signing!Site + Len(growing)
           /\ growing \in Seq(SigBytes) /\ Len(growing) \in Nat
<1>1. Head(sites) \in Nat
  BY HeadTailProperties DEF SignInv
<1>2. growing \in Seq(SigBytes)
  <2>1. CASE growing = <<>>
    BY <2>1, EmptySeq
  <2>2. CASE growing # <<>>
    <3>1. PICK a, c : a = Head(sites) /\ c = a + Len(growing)
      OBVIOUS
    <3>2. /\ a \in Signing!Heads /\ c \in Signing!Ends /\ a < c /\ growing = Grown(a, c) /\ DatabaseOK
      BY <2>2, <3>1 DEF SignInv, SigWalk
    <3>3. a \in Nat /\ c \in Nat /\ a <= c /\ c <= Signing!Size
      BY <1>1, <3>1, <3>2, LastEnd
    <3> QED BY <3>2, <3>3, BytesOf DEF Grown
  <2> QED BY <2>1, <2>2
<1>3. Len(growing) \in Nat
  BY <1>2, LenProperties
<1> QED BY <1>1, <1>2, <1>3 DEF SignInv, Signing!Site, Signing!Cursor

LEMMA GrowKeeps == ASSUME SignInv, Signing!Grow PROVE SignInv'
<1>1. /\ signPhase = "making" /\ sites # <<>> /\ ask.kind # "range" /\ Signing!Cursor \in Signing!Heads
      /\ UNCHANGED <<image, tiling, ask, signPhase>>
  BY DEF Signing!Grow
<1>2. DatabaseOK /\ sites \in Seq(Nat) /\ made \in Seq(SigAnswers)
  BY DEF SignInv
<1>3. PICK s, c, e, b : /\ s = Signing!Site /\ c = Signing!Cursor /\ e = Signing!Behind(c)
                        /\ b = growing \o Signing!BytesAt(c, e, Signing!Open)
  OBVIOUS
<1>4. /\ s \in Nat /\ s = Head(sites) /\ c \in Nat /\ c = s + Len(growing)
      /\ SigWalk /\ growing \in Seq(SigBytes) /\ Len(growing) \in Nat
  BY <1>1, <1>3, SiteOf
<1>5. /\ e \in Nat /\ e \in Signing!Ends /\ c < e /\ e <= Signing!Size
      /\ \A d \in Signing!Ends : d <= c \/ e <= d
  BY <1>1, <1>2, <1>3, BehindIsNext
<1>6. s \in Signing!Heads /\ s <= c /\ growing \o Signing!BytesAt(c, e, Signing!Open) = Grown(s, e)
  <2>0. Signing!Size \in Nat /\ c <= e
    BY <1>2, <1>4, <1>5, InstructionsFollow
  <2>1. CASE growing = <<>>
    <3>1. s = c
      BY <1>4, <2>1, EmptySeq
    <3>2. Signing!BytesAt(c, e, Signing!Open) \in Seq(SigBytes)
      BY <1>2, <1>4, <1>5, <2>0, BytesOf
    <3>3. growing \o Signing!BytesAt(c, e, Signing!Open) = Signing!BytesAt(c, e, Signing!Open)
      BY <2>1, <3>2, ConcatEmptySeq
    <3> QED BY <1>1, <1>3, <1>4, <3>1, <3>3 DEF Grown
  <2>2. CASE growing # <<>>
    <3>1. s \in Signing!Heads /\ s < c /\ growing = Grown(s, c)
      BY <1>4, <2>2 DEF SigWalk
    <3>2. s <= c
      BY <1>4, <3>1
    <3>3. PICK O : O = Signing!Open
      OBVIOUS
    <3>4. \A k, m, n \in Nat : k <= m /\ m <= n /\ n <= Signing!Size =>
             Signing!BytesAt(k, m, O) \o Signing!BytesAt(m, n, O) = Signing!BytesAt(k, n, O)
      BY <1>2, BytesJoin
    <3>5. \A n \in Nat : c <= n /\ n <= Signing!Size =>
             Signing!BytesAt(s, c, O) \o Signing!BytesAt(c, n, O) = Signing!BytesAt(s, n, O)
      BY <1>4, <3>2, <3>4
    <3>6. Signing!BytesAt(s, c, O) \o Signing!BytesAt(c, e, O) = Signing!BytesAt(s, e, O)
      BY <1>5, <2>0, <3>5
    <3> QED BY <3>1, <3>2, <3>3, <3>6 DEF Grown
  <2> QED BY <2>1, <2>2
<1>7. b = Grown(s, e) /\ s < e /\ s \in Nat
  BY <1>3, <1>4, <1>5, <1>6
<1>8. b \in Seq(SigBytes) /\ Len(b) = e - s /\ Len(b) \in Nat
  <2>1. PICK O : O = Signing!Open
    OBVIOUS
  <2>2. s <= e /\ e <= Signing!Size
    BY <1>4, <1>5, <1>7
  <2>3. Signing!BytesAt(s, e, O) \in Seq(SigBytes) /\ Len(Signing!BytesAt(s, e, O)) = e - s
    BY <1>2, <1>5, <1>7, <2>2, BytesOf
  <2>4. b = Signing!BytesAt(s, e, O)
    BY <1>7, <2>1 DEF Grown
  <2> QED BY <2>3, <2>4, LenProperties
<1>9. ASSUME NEW d \in Signing!EndsFrom(s), d < e PROVE ~Signing!IsUnique(Grown(s, d))
  <2>1. d \in Signing!Ends /\ d \in Nat
    BY <1>2, LastEnd DEF Signing!EndsFrom
  <2>2. d <= c
    BY <1>4, <1>5, <1>9, <2>1
  <2> QED BY <1>4, <2>2 DEF SigWalk
<1>10. /\ Signing!IsUnique(b) =>
             /\ made' = Append(made, [at |-> s, sig |-> Signing!Trimmed(b), span |-> Len(b)])
             /\ sites' = Tail(sites) /\ growing' = <<>>
       /\ ~Signing!IsUnique(b) => growing' = b /\ UNCHANGED <<made, sites>>
  BY <1>3 DEF Signing!Grow
<1>11. CASE Signing!IsUnique(b)
  <2>1. PICK r : r = [at |-> s, sig |-> Signing!Trimmed(b), span |-> Len(b)]
    OBVIOUS
  <2>2. r.sig # <<>> /\ Signing!SignatureIsGood(r) /\ r \in Signing!SignaturesOf(s)
    BY <1>2, <1>5, <1>6, <1>7, <1>9, <1>11, <2>1, UniqueIsGood DEF Grown
  <2>3. r \in SigAnswers
    BY <1>4, <1>8, <2>1, TrimmedOf DEF SigAnswers
  <2>4. GoodAnswer(r)
    BY <2>2 DEF GoodAnswer
  <2>5. made' = Append(made, r) /\ sites' = Tail(sites) /\ growing' = <<>>
    BY <1>10, <1>11, <2>1
  <2> QED BY <1>1, <1>4, <2>2, <2>3, <2>4, <2>5, SiteIsDone
<1>12. CASE ~Signing!IsUnique(b)
  <2>1. growing' = b /\ UNCHANGED <<made, sites>>
    BY <1>10, <1>12
  <2>2. /\ DatabaseOK' /\ Signing!Heads' = Signing!Heads /\ Signing!Ends' = Signing!Ends
        /\ (\A r : GoodAnswer(r)' <=> GoodAnswer(r))
        /\ (\A t : Signing!NoneFound(t)' <=> Signing!NoneFound(t))
        /\ (\A t : Signing!EndsFrom(t)' = Signing!EndsFrom(t))
        /\ (\A t : Signing!SignaturesOf(t)' = Signing!SignaturesOf(t))
        /\ (\A t, d : Grown(t, d)' = Grown(t, d))
        /\ (\A t : Signing!IsUnique(t)' <=> Signing!IsUnique(t))
    BY <1>1, <1>2, DatabaseStays
  <2>3. \A t : Found(t) <=> Found(t)'
    BY <2>1, <2>2 DEF Found
  <2>4. ASSUME NEW d \in Signing!EndsFrom(s), d <= e PROVE ~Signing!IsUnique(Grown(s, d))
    <3>1. d \in Nat
      BY <1>2, LastEnd DEF Signing!EndsFrom
    <3>2. d < e \/ d = e
      BY <1>5, <2>4, <3>1
    <3> QED BY <1>7, <1>9, <1>12, <3>2
  <2>5. SigWalk'
    <3>1. SUFFICES ASSUME NEW a, NEW d, a = Head(sites'), d = a + Len(growing')
                   PROVE  /\ a \in Signing!Heads /\ d \in Signing!Ends /\ a < d /\ growing' = Grown(a, d)
                          /\ \A x \in Signing!EndsFrom(a) : x <= d => ~Signing!IsUnique(Grown(a, x))
      BY <2>2 DEF SigWalk
    <3>2. a = s /\ d = s + Len(b)
      BY <1>4, <2>1, <3>1
    <3>3. d = e
      BY <1>4, <1>5, <1>8, <3>2
    <3> QED BY <1>5, <1>6, <1>7, <2>1, <2>4, <3>2, <3>3
  <2> QED BY <1>1, <2>1, <2>2, <2>3, <2>5 DEF SignInv
<1> QED BY <1>11, <1>12

LEMMA GiveUpKeeps == ASSUME SignInv, Signing!GiveUp PROVE SignInv'
<1>1. /\ signPhase = "making" /\ sites # <<>> /\ ask.kind # "range"
      /\ UNCHANGED <<image, tiling, ask, signPhase>>
      /\ Len(growing) > ask.longest \/ Signing!Cursor \notin Signing!Heads
      /\ sites' = Tail(sites) /\ growing' = <<>> /\ DatabaseOK
  BY DEF Signing!GiveUp, SignInv
<1>2. PICK s, c : s = Signing!Site /\ c = Signing!Cursor
  OBVIOUS
<1>3. /\ s \in Nat /\ s = Head(sites) /\ c \in Nat /\ c = s + Len(growing)
      /\ SigWalk /\ Len(growing) \in Nat /\ ask.longest \in Nat
  BY <1>1, <1>2, SiteOf DEF DatabaseOK, Signing!IsAsk
<1>4. Signing!NoneFound(s)
  <2>1. SUFFICES ASSUME s \in Signing!Heads, NEW e \in Signing!EndsFrom(s), e - s <= ask.longest
                 PROVE  ~Signing!IsUnique(Signing!Whole(s, e))
    BY DEF Signing!NoneFound
  <2>2. e \in Signing!Ends /\ e \in Nat
    BY <1>1, LastEnd DEF Signing!EndsFrom
  <2>3. e <= c
    <3>1. CASE Len(growing) > ask.longest
      BY <1>3, <2>1, <2>2, <3>1
    <3>2. CASE Signing!Cursor \notin Signing!Heads
      <4>1. c # s
        BY <1>2, <2>1, <3>2
      <4>2. growing # <<>>
        BY <1>3, <4>1, EmptySeq
      <4>3. c \in Signing!Ends /\ c \notin Signing!Heads
        BY <1>2, <1>3, <3>2, <4>2 DEF SigWalk
      <4> QED BY <1>1, <2>2, <4>3, LastEnd
    <3> QED BY <1>1, <3>1, <3>2
  <2>4. ~Signing!IsUnique(Grown(s, e))
    BY <1>3, <2>3 DEF SigWalk
  <2>5. Signing!Whole(s, e) = Grown(s, e)
    BY <1>1, <2>1, <2>2, WholeIsBytes DEF Grown
  <2> QED BY <2>4, <2>5
<1>5. PICK r : r = [at |-> s, sig |-> <<>>, span |-> 0]
  OBVIOUS
<1>6. r \in SigAnswers
  <2>1. <<>> \in Seq(SigBytes)
    BY EmptySeq
  <2> QED BY <1>3, <1>5, <2>1 DEF SigAnswers
<1>7. GoodAnswer(r)
  BY <1>4, <1>5 DEF GoodAnswer
<1>8. made' = made \/ made' = Append(made, r)
  BY <1>2, <1>5 DEF Signing!GiveUp
<1>9. Signing!NoneFound(Head(sites))
  BY <1>3, <1>4
<1> QED BY <1>1, <1>6, <1>7, <1>8, <1>9, SiteIsDone

LEMMA MakeRangeKeeps == ASSUME SignInv, Signing!MakeRange PROVE SignInv'
<1>1. /\ signPhase = "making" /\ sites # <<>> /\ ask.kind = "range" /\ ask.end \in Nat
      /\ UNCHANGED <<image, tiling, ask, signPhase>> /\ sites' = Tail(sites) /\ DatabaseOK
  BY DEF Signing!MakeRange, SignInv, DatabaseOK, Signing!IsAsk
<1>2. PICK s, e, b : s = Signing!Site /\ e = ask.end /\ b = Signing!RangeBytes(s, e)
  OBVIOUS
<1>3. s \in Nat /\ e \in Nat
  BY <1>1, <1>2, HeadTailProperties DEF SignInv, Signing!Site
<1>4. b \in Seq(SigBytes) \/ e <= s
  <2>1. ASSUME ~(e <= s), s \in Signing!Heads PROVE b \in Seq(SigBytes)
    <3>1. PICK d : d = Signing!Stop(e)
      OBVIOUS
    <3>2. d \in Nat /\ s <= d /\ d <= Signing!Size
      BY <1>1, <1>3, <2>1, <3>1, StopOf
    <3>3. b = Signing!BytesAt(s, d, Signing!Open)
      BY <1>2, <2>1, <3>1 DEF Signing!RangeBytes
    <3> QED BY <1>1, <1>3, <3>2, <3>3, BytesOf
  <2>2. ASSUME ~(e <= s), s \notin Signing!Heads PROVE b \in Seq(SigBytes)
    <3>1. PICK O : O = {}
      OBVIOUS
    <3>2. b = Signing!BytesAt(s, e, O)
      BY <1>2, <2>2, <3>1 DEF Signing!RangeBytes
    <3>3. CASE e > Signing!Size
      BY <3>2, <3>3, EmptySeq DEF Signing!BytesAt
    <3>4. CASE ~(e > Signing!Size)
      <4>1. s <= e /\ e <= Signing!Size
        BY <1>1, <1>3, <2>2, <3>4, InstructionsFollow
      <4> QED BY <1>1, <1>3, <3>2, <4>1, BytesOf
    <3> QED BY <3>3, <3>4
  <2> QED BY <2>1, <2>2
<1>5. PICK r : r = IF e <= s THEN [at |-> s, sig |-> <<>>, span |-> 0]
                   ELSE [at |-> s, span |-> Len(b), sig |-> IF s \in Signing!Heads THEN Signing!Trimmed(b) ELSE b]
  OBVIOUS
<1>6. made' = Append(made, r)
  BY <1>2, <1>5 DEF Signing!MakeRange
<1>7. r \in SigAnswers
  <2>1. CASE e <= s
    <3>1. <<>> \in Seq(SigBytes) /\ r = [at |-> s, sig |-> <<>>, span |-> 0]
      BY <1>5, <2>1, EmptySeq
    <3> QED BY <1>3, <3>1 DEF SigAnswers
  <2>2. CASE ~(e <= s)
    <3>1. PICK t : t = IF s \in Signing!Heads THEN Signing!Trimmed(b) ELSE b
      OBVIOUS
    <3>2. t \in Seq(SigBytes) /\ Len(b) \in Nat
      BY <1>4, <2>2, <3>1, TrimmedOf, LenProperties
    <3>3. r = [at |-> s, span |-> Len(b), sig |-> t]
      BY <1>5, <2>2, <3>1
    <3> QED BY <1>3, <3>2, <3>3 DEF SigAnswers
  <2> QED BY <2>1, <2>2
<1>8. GoodAnswer(r)
  <2>1. SUFFICES ASSUME r.sig # <<>> PROVE Signing!SignatureIsGood(r)
    BY <1>1 DEF GoodAnswer
  <2>2. ~(e <= s)
    BY <1>5, <2>1
  <2>3. r = [at |-> s, span |-> Len(b), sig |-> IF s \in Signing!Heads THEN Signing!Trimmed(b) ELSE b]
    BY <1>5, <2>2
  <2>4. s < ask.end /\ b = Signing!RangeBytes(s, ask.end)
    BY <1>2, <1>3, <2>2
  <2> QED BY <1>1, <1>3, <2>1, <2>3, <2>4, RangeIsGood
<1> QED BY <1>1, <1>6, <1>7, <1>8, SiteIsDone

(* Sorting leaves none out but those that are too many.                    *)
LEMMA AnswerKeeps == ASSUME SignInv, Signing!Answer PROVE SignInv'
<1>1. /\ signPhase = "making" /\ sites = <<>> /\ signPhase' = "answered"
      /\ UNCHANGED <<image, tiling, ask, sites, growing>>
  BY DEF Signing!Answer
<1>2. /\ DatabaseOK /\ sites \in Seq(Nat) /\ made \in Seq(SigAnswers)
      /\ \A r : (\E k \in DOMAIN made : made[k] = r) => GoodAnswer(r)
      /\ ask.kind = "references" => \A s \in Signing!Heads : Signing!NoneFound(s) \/ Found(s)
  <2>1. DOMAIN sites = {}
    BY <1>1
  <2> QED BY <1>1, <2>1 DEF SignInv
<1>3. /\ DatabaseOK' /\ Signing!Heads' = Signing!Heads
      /\ (\A r : GoodAnswer(r)' <=> GoodAnswer(r))
      /\ (\A r : Signing!SignatureIsGood(r)' <=> Signing!SignatureIsGood(r))
      /\ (\A t : Signing!NoneFound(t)' <=> Signing!NoneFound(t))
      /\ (\A t : Signing!SignaturesOf(t)' = Signing!SignaturesOf(t))
  BY <1>1, <1>2, DatabaseStays
<1>4. CASE ask.kind # "references"
  <2>1. made' = made
    BY <1>4 DEF Signing!Answer
  <2> QED BY <1>1, <1>2, <1>3, <1>4, <2>1 DEF SignInv
<1>5. CASE ask.kind = "references"
  <2>1. PICK order \in Signing!Orders(DOMAIN made) :
           Signing!Sorted(order) /\ made' = [k \in 1 .. Signing!Top |-> made[order[k]]]
    BY <1>5 DEF Signing!Answer
  <2>2. /\ order \in [DOMAIN made -> DOMAIN made]
        /\ \A m \in DOMAIN made : \E k \in DOMAIN made : order[k] = m
    BY <2>1 DEF Signing!Orders
  <2>3. PICK n, top : n = Len(made) /\ top = Signing!Top
    OBVIOUS
  <2>4. /\ n \in Nat /\ DOMAIN made = 1 .. n /\ ask.top \in Nat
        /\ top \in Nat /\ top <= n /\ (top = n \/ top = ask.top)
    <3>1. n \in Nat /\ DOMAIN made = 1 .. n
      BY <1>2, <2>3, LenProperties
    <3>2. ask.top \in Nat
      BY <1>2, <1>5 DEF DatabaseOK, Signing!IsAsk
    <3> QED BY <2>3, <3>1, <3>2 DEF Signing!Top
  <2>5. \A k \in 1 .. top : k \in 1 .. n /\ order[k] \in DOMAIN made /\ made'[k] = made[order[k]]
    <3>1. \A k \in 1 .. top : k \in 1 .. n
      BY <2>4
    <3>2. \A k \in 1 .. n : order[k] \in DOMAIN made
      BY <2>2, <2>4
    <3> QED BY <2>1, <2>3, <3>1, <3>2
  <2>6. \A k \in DOMAIN made : made[k] \in SigAnswers /\ Len(made[k].sig) \in Nat
    <3>1. \A k \in DOMAIN made : made[k] \in SigAnswers
      BY <1>2, <2>3, <2>4, ElementOfSeq
    <3>2. \A k \in DOMAIN made : made[k].sig \in Seq(SigBytes)
      BY <3>1 DEF SigAnswers
    <3> QED BY <3>1, <3>2, LenProperties
  <2>7. made' \in Seq(SigAnswers) /\ DOMAIN made' = 1 .. top /\ Len(made') = top
    <3>1. \A k \in 1 .. top : made[order[k]] \in SigAnswers
      BY <2>5, <2>6
    <3>2. made' = [k \in 1 .. top |-> made[order[k]]]
      BY <2>1, <2>3
    <3>3. made' \in [1 .. top -> SigAnswers]
      BY <3>1, <3>2
    <3>4. made' \in Seq(SigAnswers)
      BY <2>4, <3>3 DEF Seq
    <3> QED BY <2>4, <3>2, <3>4, LenProperties
  <2>8. \A r : (\E k \in DOMAIN made' : made'[k] = r) => GoodAnswer(r)'
    BY <1>2, <1>3, <2>5, <2>7
  <2>9. ASSUME NEW j \in 1 .. n, NEW k \in 1 .. n, j < k
        PROVE  Len(made[order[j]].sig) <= Len(made[order[k]].sig)
    <3>1. order[j] \in DOMAIN made /\ order[k] \in DOMAIN made
      BY <2>2, <2>4
    <3>2. Signing!Before(order[j], order[k])
      BY <2>1, <2>4, <2>9 DEF Signing!Sorted
    <3>3. Len(made[order[j]].sig) \in Nat /\ Len(made[order[k]].sig) \in Nat
      BY <2>6, <3>1
    <3>4. PICK l, m : l = Len(made[order[j]].sig) /\ m = Len(made[order[k]].sig)
      OBVIOUS
    <3>5. l < m \/ l = m
      BY <3>2, <3>4, Zenon DEF Signing!Before
    <3>6. l <= m
      BY <3>3, <3>4, <3>5
    <3> QED BY <3>4, <3>6, Zenon
  <2>10. \A j, k \in DOMAIN made' : j < k => Len(made'[j].sig) <= Len(made'[k].sig)
    <3>1. SUFFICES ASSUME NEW j \in DOMAIN made', NEW k \in DOMAIN made', j < k
                   PROVE  Len(made'[j].sig) <= Len(made'[k].sig)
      OBVIOUS
    <3>2. /\ j \in 1 .. n /\ made'[j] = made[order[j]]
          /\ k \in 1 .. n /\ made'[k] = made[order[k]]
      BY <2>5, <2>7
    <3> QED BY <2>9, <3>1, <3>2
  <2>11. ASSUME NEW s \in Signing!Heads, ~Signing!NoneFound(s)
         PROVE  \E r \in Signing!SignaturesOf(s) :
                  /\ Signing!SignatureIsGood(r)
                  /\ \/ \E k \in DOMAIN made' : made'[k] = r
                     \/ Len(made') = ask.top /\ \A k \in DOMAIN made' : Len(made'[k].sig) <= Len(r.sig)
    <3>1. PICK m \in DOMAIN made : made[m].sig # <<>> /\ made[m] \in Signing!SignaturesOf(s)
      BY <1>2, <1>5, <2>11 DEF Found
    <3>2. PICK r : r = made[m]
      OBVIOUS
    <3>3. r \in Signing!SignaturesOf(s) /\ Signing!SignatureIsGood(r)
      BY <1>2, <3>1, <3>2 DEF GoodAnswer
    <3>4. PICK k \in 1 .. n : order[k] = m
      BY <2>2, <2>4
    <3>5. CASE k <= top
      <4>1. k \in 1 .. top
        BY <2>4, <3>5
      <4> QED BY <2>5, <2>7, <3>2, <3>3, <3>4, <4>1
    <3>6. CASE ~(k <= top)
      <4>1. top = ask.top
        BY <2>4, <3>6
      <4>2. ASSUME NEW j \in DOMAIN made' PROVE Len(made'[j].sig) <= Len(r.sig)
        <5>1. j \in 1 .. n /\ made'[j] = made[order[j]] /\ j < k
          BY <2>4, <2>5, <2>7, <3>6
        <5> QED BY <2>9, <3>2, <3>4, <5>1
      <4> QED BY <2>7, <3>3, <4>1, <4>2
    <3> QED BY <3>5, <3>6
  <2>12. SigAnswered'
    BY <1>1, <1>3, <2>10, <2>11 DEF SigAnswered
  <2> QED BY <1>1, <1>2, <1>3, <2>7, <2>8, <2>12 DEF SignInv
<1> QED BY <1>4, <1>5

LEMMA SignNext == ASSUME SignInv, Signing!Next PROVE SignInv'
BY GrowKeeps, GiveUpKeeps, MakeRangeKeeps, AnswerKeeps DEF Signing!Next
=============================================================================
