-------------------------- MODULE RateLimiterProofs --------------------------
(***************************************************************************)
(* Proofs about RateLimiter for every limit, window length and set of keys.*)
(***************************************************************************)
EXTENDS RateLimiter, Induction

\* A tally has running totals: the recursion that defines them has a solution.
LEMMA SumExists ==
  ASSUME NEW N \in Nat, NEW f \in [0..N -> Nat]
  PROVE  \E g \in [0..N -> Nat] :
           g = [age \in 0..N |-> IF age = 0 THEN f[0] ELSE g[age - 1] + f[age]]
<1> DEFINE Good(n) == \E g \in [0..n -> Nat] :
             \A i \in 0..n : g[i] = IF i = 0 THEN f[0] ELSE g[i - 1] + f[i]
           A == {n \in 0..N : Good(n)}
<1>1. 0 \in A
  <2> DEFINE g == [i \in 0..0 |-> f[0]]
  <2>1. g \in [0..0 -> Nat]
    OBVIOUS
  <2>2. \A i \in 0..0 : g[i] = IF i = 0 THEN f[0] ELSE g[i - 1] + f[i]
    OBVIOUS
  <2>3. Good(0)
    <3> HIDE DEF g
    <3> QED BY <2>1, <2>2
  <2> QED BY <2>3
<1>2. ASSUME NEW n \in 1..N, n - 1 \in A PROVE n \in A
  <2>1. PICK g \in [0..(n - 1) -> Nat] :
             \A i \in 0..(n - 1) : g[i] = IF i = 0 THEN f[0] ELSE g[i - 1] + f[i]
    BY <1>2
  <2> DEFINE h == [i \in 0..n |-> IF i = n THEN g[n - 1] + f[n] ELSE g[i]]
  <2>2. h \in [0..n -> Nat]
    <3>1. \A i \in 0..n : i # n => i \in 0..(n - 1)
      OBVIOUS
    <3>2. g[n - 1] \in Nat /\ f[n] \in Nat
      OBVIOUS
    <3> QED BY <3>1, <3>2
  <2>3. ASSUME NEW i \in 0..n
        PROVE  h[i] = IF i = 0 THEN f[0] ELSE h[i - 1] + f[i]
    <3>1. CASE i = n
      BY <3>1
    <3>2. CASE i # n
      BY <2>1, <3>2
    <3> QED BY <3>1, <3>2
  <2>4. Good(n)
    <3> HIDE DEF h
    <3> QED BY <2>2, <2>3
  <2> HIDE DEF Good
  <2> QED BY <2>4
<1>3. 0..N \subseteq A
  <2> HIDE DEF A
  <2> QED BY <1>1, <1>2, InductionUpTo
<1>4. Good(N)
  <2> HIDE DEF Good
  <2> QED BY <1>3
<1>5. PICK g \in [0..N -> Nat] : \A i \in 0..N : g[i] = IF i = 0 THEN f[0] ELSE g[i - 1] + f[i]
  BY <1>4
<1> DEFINE s == [i \in 0..N |-> IF i = 0 THEN f[0] ELSE g[i - 1] + f[i]]
<1>6. \A i \in 0..N : g[i] = s[i]
  BY <1>5
<1>7. g = s
  <2>1. DOMAIN g = 0..N /\ DOMAIN s = 0..N /\ g = [i \in DOMAIN g |-> g[i]]
                                            /\ s = [i \in DOMAIN s |-> s[i]]
    OBVIOUS
  <2> HIDE DEF s
  <2> QED BY <1>6, <2>1
<1> QED BY <1>7

\* The running totals of a tally, element by element.
LEMMA Sums ==
  ASSUME RateLimiterAssumption, NEW f \in [0..Window -> Nat]
  PROVE  /\ Totals(f) \in [0..Window -> Nat]
         /\ Totals(f)[0] = f[0]
         /\ \A n \in 1..Window : Totals(f)[n] = Totals(f)[n - 1] + f[n]
<1>1. Window \in Nat
  BY DEF Window, RateLimiterAssumption
<1> DEFINE Sum(g) == g = [age \in 0..Window |-> IF age = 0 THEN f[0] ELSE g[age - 1] + f[age]]
<1>2. PICK g \in [0..Window -> Nat] : Sum(g)
  BY <1>1, SumExists
<1>3. Totals(f) = CHOOSE h : Sum(h)
  BY DEF Totals
<1> DEFINE h == Totals(f)
<1>4. Sum(h)
  BY <1>2, <1>3
<1>5. \A n \in 0..Window : h[n] = IF n = 0 THEN f[0] ELSE h[n - 1] + f[n]
  BY <1>4
<1> HIDE DEF h, Sum
<1>6. 0..Window \subseteq {n \in 0..Window : h[n] \in Nat}
  <2> DEFINE A == {n \in 0..Window : h[n] \in Nat}
  <2>1. 0 \in A
    <3>1. 0 \in 0..Window /\ f[0] \in Nat
      BY <1>1
    <3> QED BY <1>5, <3>1
  <2>2. ASSUME NEW n \in 1..Window, n - 1 \in A PROVE n \in A
    <3>1. n \in 0..Window /\ n # 0 /\ h[n - 1] \in Nat /\ f[n] \in Nat
      BY <1>1, <2>2
    <3> QED BY <1>5, <3>1
  <2> HIDE DEF A
  <2>3. 0..Window \subseteq A
    BY <1>1, <2>1, <2>2, InductionUpTo
  <2> QED BY <2>3 DEF A
<1>7. h \in [0..Window -> Nat]
  BY <1>4, <1>6 DEF Sum
<1> QED BY <1>1, <1>5, <1>7 DEF h

\* Totals grow with the age.
LEMMA TotalsGrow ==
  ASSUME RateLimiterAssumption, NEW f \in [0..Window -> Nat], NEW m \in 0..Window
  PROVE  \A n \in m..Window : Totals(f)[m] <= Totals(f)[n]
<1>1. Window \in Nat
  BY DEF Window, RateLimiterAssumption
<1> DEFINE s == Totals(f)
           A == {n \in 0..Window : m <= n => s[m] <= s[n]}
<1>2. s \in [0..Window -> Nat] /\ \A n \in 1..Window : s[n] = s[n - 1] + f[n]
  BY Sums
<1> HIDE DEF s
<1>3. 0 \in A
  BY <1>1, <1>2
<1>4. ASSUME NEW n \in 1..Window, n - 1 \in A PROVE n \in A
  <2>1. n \in 0..Window /\ n - 1 \in 0..Window /\ f[n] \in Nat /\ s[n - 1] \in Nat /\ s[m] \in Nat
    BY <1>1, <1>2
  <2>2. s[n] = s[n - 1] + f[n] /\ s[n] \in Nat
    BY <1>2, <2>1
  <2>3. m <= n => m = n \/ m <= n - 1
    BY <1>1
  <2> QED BY <1>4, <2>1, <2>2, <2>3
<1>5. 0..Window \subseteq A
  <2> HIDE DEF A
  <2> QED BY <1>1, <1>3, <1>4, InductionUpTo
<1>6. \A n \in m..Window : n \in 0..Window /\ m <= n
  BY <1>1
<1> QED BY <1>5, <1>6 DEF s

\* So the last total is the greatest.
LEMMA TotalsLast ==
  ASSUME RateLimiterAssumption, NEW f \in [0..Window -> Nat]
  PROVE  \A n \in 0..Window : Totals(f)[n] <= Totals(f)[Window]
<1>1. \A n \in 0..Window : Window \in n..Window
  BY DEF Window, RateLimiterAssumption
<1> QED BY <1>1, TotalsGrow

\* A tick makes every total that of one tick less before.
LEMMA TotalsAge ==
  ASSUME RateLimiterAssumption, NEW f \in [0..Window -> Nat], NEW g \in [0..Window -> Nat],
         \A age \in 0..Window : g[age] = IF age = 0 THEN 0 ELSE f[age - 1]
  PROVE  /\ Totals(g)[0] = 0
         /\ \A n \in 1..Window : Totals(g)[n] = Totals(f)[n - 1]
<1>1. Window \in Nat /\ Window >= 2
  BY DEF Window, RateLimiterAssumption
<1> DEFINE s == Totals(f)
           t == Totals(g)
           A == {n \in 0..Window : t[n] = IF n = 0 THEN 0 ELSE s[n - 1]}
<1>2. /\ s \in [0..Window -> Nat] /\ s[0] = f[0]
      /\ \A n \in 1..Window : s[n] = s[n - 1] + f[n]
      /\ t[0] = g[0] /\ \A n \in 1..Window : t[n] = t[n - 1] + g[n]
  BY Sums
<1> HIDE DEF s, t
<1>3. 0 \in A
  BY <1>1, <1>2
<1>4. ASSUME NEW n \in 1..Window, n - 1 \in A PROVE n \in A
  <2>1. n \in 0..Window /\ n # 0 /\ g[n] = f[n - 1] /\ t[n] = t[n - 1] + g[n]
    <3>1. n \in 0..Window /\ n # 0
      BY <1>1
    <3>2. g[n] = f[n - 1]
      BY <3>1
    <3>3. t[n] = t[n - 1] + g[n]
      BY <1>2
    <3> QED BY <3>1, <3>2, <3>3
  <2>2. CASE n = 1
    <3>1. t[0] = 0 /\ f[0] \in Nat /\ 0 \in 0..Window
      BY <1>1, <1>2
    <3>2. t[1] = t[0] + g[1] /\ g[1] = f[0] /\ s[0] = f[0]
      BY <1>2, <2>1, <2>2
    <3>3. t[1] = s[1 - 1]
      BY <3>1, <3>2
    <3> QED BY <2>1, <2>2, <3>3
  <2>3. CASE n # 1
    <3>1. PICK m \in 1..Window : m = n - 1 /\ m # 0
      BY <1>1, <2>3
    <3>2. t[m] = s[m - 1]
      BY <1>4, <3>1
    <3>3. s[m] = s[m - 1] + f[m]
      BY <1>2, <3>1
    <3>4. t[n] = s[n - 1]
      BY <2>1, <3>1, <3>2, <3>3
    <3> QED BY <2>1, <3>4
  <2> QED BY <2>2, <2>3
<1>5. 0..Window \subseteq A
  <2> HIDE DEF A
  <2> QED BY <1>1, <1>3, <1>4, InductionUpTo
<1>6. \A n \in 1..Window : n \in 0..Window /\ n # 0
  BY <1>1
<1>7. 0 \in 0..Window
  BY <1>1
<1> QED BY <1>5, <1>6, <1>7 DEF s, t

\* One request more now is one more in every total.
LEMMA TotalsGain ==
  ASSUME RateLimiterAssumption, NEW f \in [0..Window -> Nat], NEW g \in [0..Window -> Nat],
         g = [f EXCEPT ![0] = f[0] + 1]
  PROVE  \A n \in 0..Window : Totals(g)[n] = Totals(f)[n] + 1
<1>1. Window \in Nat /\ 0 \in 0..Window
  BY DEF Window, RateLimiterAssumption
<1> DEFINE s == Totals(f)
           t == Totals(g)
           A == {n \in 0..Window : t[n] = s[n] + 1}
<1>2. /\ s \in [0..Window -> Nat] /\ s[0] = f[0]
      /\ \A n \in 1..Window : s[n] = s[n - 1] + f[n]
      /\ t[0] = g[0] /\ \A n \in 1..Window : t[n] = t[n - 1] + g[n]
  BY Sums
<1> HIDE DEF s, t
<1>3. g[0] = f[0] + 1 /\ \A n \in 1..Window : g[n] = f[n]
  BY <1>1
<1>4. 0 \in A
  BY <1>1, <1>2, <1>3
<1>5. ASSUME NEW n \in 1..Window, n - 1 \in A PROVE n \in A
  <2>1. n \in 0..Window /\ n - 1 \in 0..Window /\ f[n] \in Nat /\ s[n - 1] \in Nat
    BY <1>1, <1>2
  <2>2. t[n] = t[n - 1] + f[n] /\ s[n] = s[n - 1] + f[n] /\ t[n - 1] = s[n - 1] + 1
    BY <1>2, <1>3, <1>5
  <2> QED BY <2>1, <2>2
<1>6. 0..Window \subseteq A
  <2> HIDE DEF A
  <2> QED BY <1>1, <1>4, <1>5, InductionUpTo
<1> QED BY <1>6 DEF s, t

\* Nothing was let through: every total is zero.
LEMMA TotalsOfNone ==
  ASSUME RateLimiterAssumption, NEW f,
         f = [age \in 0..Window |-> 0]
  PROVE  \A n \in 0..Window : Totals(f)[n] = 0
<1>1. Window \in Nat /\ 0 \in 0..Window
  BY DEF Window, RateLimiterAssumption
<1> DEFINE s == Totals(f)
           A == {n \in 0..Window : s[n] = 0}
<1>2. f \in [0..Window -> Nat]
  OBVIOUS
<1>3. s[0] = f[0] /\ \A n \in 1..Window : s[n] = s[n - 1] + f[n]
  BY <1>2, Sums
<1> HIDE DEF s
<1>4. 0 \in A
  BY <1>1, <1>3
<1>5. ASSUME NEW n \in 1..Window, n - 1 \in A PROVE n \in A
  BY <1>1, <1>3, <1>5
<1>6. 0..Window \subseteq A
  <2> HIDE DEF A
  <2> QED BY <1>1, <1>4, <1>5, InductionUpTo
<1> QED BY <1>6 DEF s

\* A tally half a second later.
LEMMA AgedTyped ==
  ASSUME RateLimiterAssumption, NEW f \in [0..Window -> Nat]
  PROVE  /\ Aged(f) \in [0..Window -> Nat]
         /\ \A age \in 0..Window : Aged(f)[age] = IF age = 0 THEN 0 ELSE f[age - 1]
<1>1. ASSUME NEW age \in 0..Window
      PROVE  (IF age = 0 THEN 0 ELSE f[age - 1]) \in Nat
  <2>1. age # 0 => age - 1 \in 0..Window
    BY DEF Window, RateLimiterAssumption
  <2> QED BY <2>1
<1> QED BY <1>1 DEF Aged

\* Its totals are those of one tick less.
LEMMA AgedTotals ==
  ASSUME RateLimiterAssumption, NEW f \in [0..Window -> Nat]
  PROVE  /\ Totals(Aged(f))[0] = 0
         /\ \A n \in 1..Window : Totals(Aged(f))[n] = Totals(f)[n - 1]
<1> DEFINE g == Aged(f)
<1>1. g \in [0..Window -> Nat]
      /\ \A age \in 0..Window : g[age] = IF age = 0 THEN 0 ELSE f[age - 1]
  BY AgedTyped
<1> HIDE DEF g
<1>2. Totals(g)[0] = 0 /\ \A n \in 1..Window : Totals(g)[n] = Totals(f)[n - 1]
  BY <1>1, TotalsAge
<1> QED BY <1>2 DEF g

\* Restarts leave the window, and none comes with a tick.
LEMMA RestartsAge ==
  ASSUME RateLimiterAssumption, TypeOK, restarted' = Aged(restarted)
  PROVE  restarted' \in [0..Window -> Nat] /\ Totals(restarted')[Window] <= MaxRestarts
<1>1. Window \in 1..Window /\ Window - 1 \in 0..Window /\ Window \in 0..Window /\ MaxRestarts \in Nat
  BY DEF Window, RateLimiterAssumption
<1>2. restarted \in [0..Window -> Nat] /\ Totals(restarted)[Window] <= MaxRestarts
  BY DEF TypeOK
<1> DEFINE a == Totals(restarted)[Window - 1]
           b == Totals(restarted)[Window]
<1>3. a \in Nat /\ b \in Nat /\ a <= b
  BY <1>1, <1>2, Sums, TotalsLast
<1>4. Totals(restarted')[Window] = a
  BY <1>1, <1>2, AgedTotals
<1>5. restarted' \in [0..Window -> Nat]
  BY <1>2, AgedTyped
<1> HIDE DEF a
<1> QED BY <1>1, <1>2, <1>3, <1>4, <1>5 DEF b

\* A restart is one more in every total.
LEMMA RestartsGain ==
  ASSUME RateLimiterAssumption, TypeOK, Totals(restarted)[Window] < MaxRestarts,
         restarted' = [restarted EXCEPT ![0] = @ + 1]
  PROVE  /\ restarted' \in [0..Window -> Nat] /\ Totals(restarted')[Window] <= MaxRestarts
         /\ \A n \in 0..Window : Totals(restarted')[n] = Totals(restarted)[n] + 1
<1>1. Window \in 0..Window /\ 0 \in 0..Window /\ MaxRestarts \in Nat
  BY DEF Window, RateLimiterAssumption
<1>2. restarted \in [0..Window -> Nat]
  BY DEF TypeOK
<1> DEFINE g == [restarted EXCEPT ![0] = restarted[0] + 1]
           b == Totals(restarted)[Window]
<1>3. restarted' = g /\ g \in [0..Window -> Nat]
  BY <1>1, <1>2
<1>4. \A n \in 0..Window : Totals(g)[n] = Totals(restarted)[n] + 1
  BY <1>2, <1>3, TotalsGain
<1>5. b \in Nat /\ Totals(g)[Window] = b + 1
  BY <1>1, <1>2, <1>4, Sums
<1>6. Totals(g)[Window] <= MaxRestarts
  BY <1>1, <1>5
<1> QED BY <1>3, <1>4, <1>6

\* Who was refused was refused by a counter that still runs out, in time.
Promises ==
  \A k \in Keys : due[k] # NoPromise => ttl[k] # NoExpiry /\ ttl[k] <= due[k]

IInv == TypeOK /\ Promises

\* Rounding to whole seconds takes at most half a second away.
LEMMA RetryAfterCovers ==
  ASSUME RateLimiterAssumption, NEW x \in 0..Window
  PROVE  /\ 2 * RetryAfter(x) + 1 \in 0..(Window + 2)
         /\ x <= 2 * RetryAfter(x) + 1
<1>1. Window \in Nat /\ Window >= 2
  BY DEF Window, RateLimiterAssumption
<1>2. TTL(x) \in Nat /\ 2 * TTL(x) >= x /\ 2 * TTL(x) <= x + 1
  BY <1>1 DEF TTL
<1> QED BY <1>1, <1>2 DEF RetryAfter

\* The script keeps counters and expiries in range, and never leaves a counter
\* without an expiry.
LEMMA ScriptTyped ==
  ASSUME RateLimiterAssumption, TypeOK, NEW k \in Keys, Script(k)
  PROVE  /\ count' \in [Keys -> 0..(Limit + 1)]
         /\ ttl' \in [Keys -> {NoExpiry} \cup 0..Window]
         /\ \A j \in Keys : count'[j] = 0 => ttl'[j] = NoExpiry
         /\ ttl'[k] \in 0..Window
         /\ \A j \in Keys : ttl[j] # NoExpiry => ttl'[j] = ttl[j]
<1>1. Window \in Nat /\ Limit \in Nat /\ Limit > 0
  BY DEF Window, RateLimiterAssumption
<1>2. count[k] \in 0..(Limit + 1) /\ ttl[k] \in {NoExpiry} \cup 0..Window
  BY DEF TypeOK
<1>3. Incremented(count[k]) \in 1..(Limit + 1) /\ (Incremented(count[k]) = 1 <=> count[k] = 0)
  BY <1>1, <1>2 DEF Incremented
<1>4. ExpiryAfter(k) \in 0..Window /\ (ttl[k] # NoExpiry => ExpiryAfter(k) = ttl[k])
  BY <1>1, <1>2, <1>3 DEF ExpiryAfter, NoExpiry, TypeOK
<1>5. /\ \A j \in Keys : count'[j] = IF j = k THEN Incremented(count[k]) ELSE count[j]
      /\ \A j \in Keys : ttl'[j] = IF j = k THEN ExpiryAfter(k) ELSE ttl[j]
  BY DEF Script, TypeOK
<1>6. count' \in [Keys -> 0..(Limit + 1)] /\ ttl' \in [Keys -> {NoExpiry} \cup 0..Window]
  BY <1>1, <1>3, <1>4 DEF Script, TypeOK
<1>7. \A j \in Keys : count'[j] = 0 => ttl'[j] = NoExpiry
  <2>1. \A j \in Keys : count[j] = 0 => ttl[j] = NoExpiry
    BY DEF TypeOK
  <2>2. Incremented(count[k]) # 0
    BY <1>1, <1>3
  <2> QED BY <1>5, <2>1, <2>2
<1>8. ttl'[k] \in 0..Window /\ \A j \in Keys : ttl[j] # NoExpiry => ttl'[j] = ttl[j]
  BY <1>4, <1>5
<1> QED BY <1>6, <1>7, <1>8

\* What is counted of a key in one tick has a bound.
LEMMA ManyIsNat ==
  ASSUME RateLimiterAssumption, NEW k
  PROVE  Many(k) \in Nat
<1>1. Limit \in Nat /\ MaxRestarts \in Nat /\ 2 + MaxRestarts \in Nat
  BY DEF RateLimiterAssumption
<1>2. (2 + MaxRestarts) * Limit \in Nat
  BY <1>1
<1> QED BY <1>1, <1>2 DEF Many

\* Letting a request through keeps the tally of passed requests in range.
LEMMA LetThroughTyped ==
  ASSUME RateLimiterAssumption, TypeOK, NEW k \in Keys, LetThrough(k) \/ UNCHANGED passed
  PROVE  /\ passed' \in [Keys -> [0..Window -> Nat]]
         /\ \A j \in Keys, age \in 0..Window : passed'[j][age] <= Many(j)
<1>1. Many(k) \in Nat /\ Window \in Nat
  BY ManyIsNat DEF Window, RateLimiterAssumption
<1>2. passed[k] \in [0..Window -> Nat] /\ 0 \in 0..Window /\ passed[k][0] \in Nat
  BY <1>1 DEF TypeOK
<1>3. CASE LetThrough(k)
  <2> DEFINE more == IF passed[k][0] < Many(k) THEN passed[k][0] + 1 ELSE passed[k][0]
             tally == [passed[k] EXCEPT ![0] = more]
  <2>1. more \in Nat /\ more <= Many(k)
    <3>1. passed[k][0] <= Many(k)
      BY <1>2 DEF TypeOK
    <3> QED BY <1>1, <1>2, <3>1
  <2>2. passed' = [passed EXCEPT ![k] = tally]
    BY <1>3 DEF LetThrough
  <2>3. /\ tally \in [0..Window -> Nat]
        /\ \A age \in 0..Window : tally[age] = IF age = 0 THEN more ELSE passed[k][age]
    BY <1>2, <2>1
  <2> HIDE DEF more, tally
  <2>4. passed' \in [Keys -> [0..Window -> Nat]]
    BY <2>2, <2>3 DEF TypeOK
  <2>5. \A j \in Keys : passed'[j] = IF j = k THEN tally ELSE passed[j]
    BY <2>2 DEF TypeOK
  <2> QED BY <2>1, <2>3, <2>4, <2>5 DEF TypeOK
<1> QED BY <1>3 DEF TypeOK

\* A refusal right after the script promises no less than the expiry it left.
LEMMA RefusePromises ==
  ASSUME RateLimiterAssumption, IInv, NEW k \in Keys, Script(k), Refuse(k)
  PROVE  due' \in [Keys -> {NoPromise} \cup 0..(Window + 2)] /\ Promises'
<1> DEFINE told == 2 * RetryAfter(ttl'[k]) + 1
           soon == Sooner(due[k], told)
<1>1. Window \in Nat
  BY DEF Window, RateLimiterAssumption
<1>2. /\ ttl'[k] \in 0..Window
      /\ \A j \in Keys : ttl[j] # NoExpiry => ttl'[j] = ttl[j]
  BY ScriptTyped DEF IInv
<1>3. told \in 0..(Window + 2) /\ ttl'[k] <= told
  BY <1>2, RetryAfterCovers
<1>4. due[k] \in {NoPromise} \cup 0..(Window + 2)
  BY DEF IInv, TypeOK
<1>5. soon \in {told, due[k]} /\ soon \in 0..(Window + 2)
  BY <1>1, <1>3, <1>4 DEF Sooner, NoPromise
<1>6. ttl'[k] <= soon
  <2>1. CASE soon = told
    BY <1>3, <2>1
  <2>2. CASE soon = due[k] /\ due[k] # NoPromise
    BY <1>2, <2>2 DEF IInv, Promises
  <2> QED BY <1>1, <1>5, <2>1, <2>2 DEF NoPromise
<1>7. due' = [due EXCEPT ![k] = soon]
  BY DEF Refuse
<1>8. due' \in [Keys -> {NoPromise} \cup 0..(Window + 2)]
  BY <1>5, <1>7 DEF IInv, TypeOK
<1>9. \A j \in Keys : due'[j] = IF j = k THEN soon ELSE due[j]
  BY <1>7 DEF IInv, TypeOK
<1>10. \A j \in Keys : due'[j] # NoPromise => ttl'[j] # NoExpiry /\ ttl'[j] <= due'[j]
  BY <1>1, <1>2, <1>6, <1>9 DEF IInv, Promises, NoExpiry
<1> QED BY <1>8, <1>10 DEF Promises

\* An empty Redis has promised nothing.
LEMMA InitIInv ==
  ASSUME RateLimiterAssumption, Init
  PROVE  IInv
<1>1. Window \in Nat /\ Window \in 0..Window /\ Limit \in Nat /\ MaxLosses \in Nat /\ MaxRestarts \in Nat
  BY DEF Window, RateLimiterAssumption
<1>2. restarted \in [0..Window -> Nat] /\ Totals(restarted)[Window] <= MaxRestarts
  <2>1. restarted = [age \in 0..Window |-> 0]
    BY DEF Init
  <2>2. Totals(restarted)[Window] = 0
    BY <1>1, <2>1, TotalsOfNone
  <2> QED BY <1>1, <2>1, <2>2
<1>3. \A k \in Keys, age \in 0..Window : passed[k][age] <= Many(k)
  BY ManyIsNat DEF Init
<1> QED BY <1>1, <1>2, <1>3 DEF Init, IInv, TypeOK, Promises, NoPromise, NoExpiry

\* Calls, ticks, restarts and lost expiries keep the types and the promises.
LEMMA StepIInv ==
  ASSUME RateLimiterAssumption, IInv, [Next]_vars
  PROVE  IInv'
<1>1. Window \in Nat /\ Limit \in Nat /\ MaxLosses \in Nat
  BY DEF Window, RateLimiterAssumption
<1>2. ASSUME NEW k \in Keys, Script(k), LetThrough(k) \/ UNCHANGED passed, UNCHANGED due
      PROVE  IInv'
  <2>1. TypeOK'
    BY <1>2, ScriptTyped, LetThroughTyped DEF IInv, TypeOK, Script
  <2>2. Promises'
    BY <1>2, ScriptTyped DEF IInv, Promises
  <2> QED BY <2>1, <2>2 DEF IInv
<1>3. ASSUME NEW k \in Keys, Script(k), Refuse(k)
      PROVE  IInv'
  <2>1. TypeOK'
    BY <1>3, ScriptTyped, RefusePromises DEF IInv, TypeOK, Script, Refuse
  <2> QED BY <1>3, <2>1, RefusePromises DEF IInv
<1>4. ASSUME NEW k \in Keys, Answered(k)
      PROVE  IInv'
  BY <1>2, <1>3, <1>4 DEF Answered
<1>5. ASSUME NEW k \in Keys, Unanswered(k)
      PROVE  IInv'
  BY <1>2, <1>5 DEF Unanswered, FailurePolicy
<1>6. ASSUME NEW k \in Keys, Unreachable(k)
      PROVE  IInv'
  <2>1. /\ passed' \in [Keys -> [0..Window -> Nat]]
        /\ \A j \in Keys, age \in 0..Window : passed'[j][age] <= Many(j)
    BY <1>6, LetThroughTyped DEF Unreachable, FailurePolicy, IInv
  <2> QED BY <1>6, <2>1 DEF Unreachable, FailurePolicy, IInv, TypeOK, Promises
<1>7. ASSUME NEW k \in Keys, LoseExpiry(k)
      PROVE  IInv'
  <2>1. TypeOK'
    BY <1>1, <1>7 DEF LoseExpiry, IInv, TypeOK
  <2>2. Promises'
    BY <1>7 DEF LoseExpiry, IInv, TypeOK, Promises
  <2> QED BY <2>1, <2>2 DEF IInv
<1>8. CASE Tick
  <2>1. \A k \in Keys : /\ count[k] \in 0..(Limit + 1) /\ ttl[k] \in {NoExpiry} \cup 0..Window
                        /\ due[k] \in {NoPromise} \cup 0..(Window + 2)
                        /\ count[k] = 0 => ttl[k] = NoExpiry
                        /\ due[k] # NoPromise => ttl[k] # NoExpiry /\ ttl[k] <= due[k]
    BY DEF IInv, TypeOK, Promises
  <2>2. \A k \in Keys : Left(ttl[k]) \in {NoExpiry} \cup 0..Window
    BY <1>1, <2>1 DEF Left, NoExpiry
  <2>3. /\ count' \in [Keys -> 0..(Limit + 1)]
        /\ ttl' \in [Keys -> {NoExpiry} \cup 0..Window]
        /\ due' \in [Keys -> {NoPromise} \cup 0..(Window + 2)]
    <3>1. \A k \in Keys : (IF Expires(k) THEN 0 ELSE count[k]) \in 0..(Limit + 1)
      BY <1>1, <2>1
    <3>2. \A k \in Keys : (IF Expires(k) \/ due[k] <= 0 THEN NoPromise ELSE due[k] - 1)
                            \in {NoPromise} \cup 0..(Window + 2)
      BY <1>1, <2>1 DEF NoPromise
    <3> QED BY <1>8, <2>2, <3>1, <3>2 DEF Tick
  <2>4. /\ passed' \in [Keys -> [0..Window -> Nat]]
        /\ \A k \in Keys, age \in 0..Window : passed'[k][age] <= Many(k)
    <3>1. ASSUME NEW k \in Keys
          PROVE  /\ Aged(passed[k]) \in [0..Window -> Nat]
                 /\ \A age \in 0..Window : Aged(passed[k])[age] <= Many(k)
      <4>1. /\ passed[k] \in [0..Window -> Nat] /\ Many(k) \in Nat
            /\ \A age \in 0..Window : passed[k][age] <= Many(k)
        BY ManyIsNat DEF IInv, TypeOK
      <4>2. Aged(passed[k]) \in [0..Window -> Nat]
        BY <4>1, AgedTyped
      <4>3. ASSUME NEW age \in 0..Window
            PROVE  Aged(passed[k])[age] <= Many(k)
        <5>1. age # 0 => age - 1 \in 0..Window
          BY <1>1
        <5>2. Aged(passed[k])[age] = IF age = 0 THEN 0 ELSE passed[k][age - 1]
          BY <4>1, AgedTyped
        <5> QED BY <4>1, <5>1, <5>2
      <4> QED BY <4>2, <4>3
    <3>2. passed' = [k \in Keys |-> Aged(passed[k])]
      BY <1>8 DEF Tick
    <3> QED BY <3>1, <3>2
  <2>5. \A k \in Keys : count'[k] = 0 => ttl'[k] = NoExpiry
    BY <1>8, <2>1 DEF Tick, Expires, Left, NoExpiry
  <2>6. \A k \in Keys : due'[k] # NoPromise => ttl'[k] # NoExpiry /\ ttl'[k] <= due'[k]
    BY <1>1, <1>8, <2>1 DEF Tick, Expires, Left, NoExpiry, NoPromise
  <2>7. losses' \in 0..MaxLosses
    BY <1>8 DEF Tick, IInv, TypeOK
  <2>8. restarted' \in [0..Window -> Nat] /\ Totals(restarted')[Window] <= MaxRestarts
    BY <1>8, RestartsAge DEF Tick, IInv, TypeOK
  <2> QED BY <2>3, <2>4, <2>5, <2>6, <2>7, <2>8 DEF IInv, TypeOK, Promises
<1>9. CASE Restart
  <2>1. restarted' \in [0..Window -> Nat] /\ Totals(restarted')[Window] <= MaxRestarts
    BY <1>9, RestartsGain DEF Restart, IInv, TypeOK
  <2>2. /\ count' \in [Keys -> 0..(Limit + 1)]
        /\ ttl' \in [Keys -> {NoExpiry} \cup 0..Window]
        /\ due' \in [Keys -> {NoPromise} \cup 0..(Window + 2)]
        /\ \A k \in Keys : count'[k] = 0 => ttl'[k] = NoExpiry
    BY <1>1, <1>9 DEF Restart
  <2>3. UNCHANGED <<passed, losses>> /\ Promises'
    BY <1>9 DEF Restart, Promises
  <2> QED BY <2>1, <2>2, <2>3 DEF IInv, TypeOK
<1>10. CASE UNCHANGED vars
  BY <1>10 DEF vars, IInv, TypeOK, Promises
<1> QED BY <1>4, <1>5, <1>6, <1>7, <1>8, <1>9, <1>10 DEF Next

\* How many requests of the current window the counter can have let through.
Granted(k) == IF count[k] < Limit THEN count[k] ELSE Limit

\* What the restarts of the last ticks may add: a full counter each.
Forgotten(n) == Totals(restarted)[n] * Limit

\* Behind the boundary burst: over the last ticks, however few, the counters before
\* this one let through less than Limit, and Limit more for each restart since; and
\* of this counter the call that set the expiry is as old as the expiry says, so
\* that it has left the window when the next counter begins.
Bursts ==
  \A k \in AuthKeys :
    /\ \A n \in 0..Window : Totals(passed[k])[n] <= Limit - 1 + Granted(k) + Forgotten(n)
    /\ (count[k] > 0 /\ ttl[k] \in 0..(Window - 1)) =>
         Totals(passed[k])[Window - ttl[k] - 1] <= Granted(k) - 1

\* Behind an earned refusal: a counter that never lost its expiry began as long
\* ago as the expiry says, and every call since was let through up to Limit; who
\* was refused was refused by a counter above Limit.
Earned ==
  \A k \in WriteKeys :
    losses = 0 =>
      /\ count[k] > 0 => /\ ttl[k] # NoExpiry
                        /\ Totals(passed[k])[Window - ttl[k]] >= Granted(k)
      /\ due[k] # NoPromise => count[k] > Limit

\* The tally of a key is one of naturals.
LEMMA Tallies ==
  ASSUME RateLimiterAssumption, TypeOK, NEW k \in Keys
  PROVE  passed[k] \in [0..Window -> Nat] /\ Totals(passed[k]) \in [0..Window -> Nat]
<1>1. passed[k] \in [0..Window -> Nat]
  BY DEF TypeOK
<1> QED BY <1>1, Sums

\* What the restarts may add is no more than their bound allows.
LEMMA Forgetting ==
  ASSUME RateLimiterAssumption, TypeOK, NEW n \in 0..Window
  PROVE  /\ Forgotten(n) \in Nat
         /\ Forgotten(n) <= MaxRestarts * Limit
<1>1. Window \in 0..Window /\ Limit \in Nat /\ MaxRestarts \in Nat
  BY DEF Window, RateLimiterAssumption
<1>2. /\ Totals(restarted)[n] \in Nat /\ Totals(restarted)[Window] \in Nat
      /\ Totals(restarted)[n] <= Totals(restarted)[Window]
      /\ Totals(restarted)[Window] <= MaxRestarts
  BY <1>1, Sums, TotalsLast DEF TypeOK
<1> DEFINE r == Totals(restarted)[n]
<1>3. r \in Nat /\ r <= MaxRestarts
  BY <1>1, <1>2
<1> HIDE DEF r
<1>4. r * Limit \in Nat /\ r * Limit <= MaxRestarts * Limit
  BY <1>2, <1>3
<1> QED BY <1>4 DEF r, Forgotten

\* A request that is let through is one more in every total of its key, until so
\* many are counted that one more makes no difference.
LEMMA PassTotals ==
  ASSUME RateLimiterAssumption, TypeOK, NEW k \in Keys, LetThrough(k)
  PROVE  /\ \A j \in Keys : j # k => passed'[j] = passed[j]
         /\ passed'[k] \in [0..Window -> Nat]
         /\ \A n \in 0..Window :
              \/ Totals(passed'[k])[n] = Totals(passed[k])[n] + 1
              \/ /\ Totals(passed'[k])[n] = Totals(passed[k])[n]
                 /\ Totals(passed[k])[n] >= Many(k)
<1>1. Window \in Nat /\ 0 \in 0..Window /\ Many(k) \in Nat
  BY ManyIsNat DEF Window, RateLimiterAssumption
<1> DEFINE f == passed[k]
           g == passed'[k]
<1>2. f \in [0..Window -> Nat] /\ Totals(f) \in [0..Window -> Nat]
  BY Tallies
<1>3. /\ \A j \in Keys : j # k => passed'[j] = passed[j]
      /\ g = [f EXCEPT ![0] = IF f[0] < Many(k) THEN f[0] + 1 ELSE f[0]]
  BY DEF LetThrough, TypeOK
<1> HIDE DEF f, g
<1>4. CASE f[0] < Many(k)
  <2>1. g = [f EXCEPT ![0] = f[0] + 1] /\ g \in [0..Window -> Nat]
    BY <1>1, <1>2, <1>3, <1>4
  <2>2. \A n \in 0..Window : Totals(g)[n] = Totals(f)[n] + 1
    BY <1>2, <2>1, TotalsGain
  <2> QED BY <1>3, <2>1, <2>2 DEF f, g
<1>5. CASE ~(f[0] < Many(k))
  <2>1. g = f
    BY <1>2, <1>3, <1>5
  <2>2. Totals(f)[0] = f[0] /\ f[0] \in Nat
    BY <1>1, <1>2, Sums
  <2>3. \A n \in 0..Window : Totals(f)[0] <= Totals(f)[n]
    BY <1>1, <1>2, TotalsGrow
  <2>4. ASSUME NEW n \in 0..Window PROVE Totals(f)[n] >= Many(k)
    <3>1. Totals(f)[n] \in Nat /\ Totals(f)[0] <= Totals(f)[n]
      BY <1>2, <2>3
    <3> QED BY <1>1, <1>5, <2>2, <3>1
  <2> QED BY <1>2, <1>3, <2>1, <2>4 DEF f, g
<1> QED BY <1>4, <1>5

\* A run of the script keeps both, if only an allowed call of an authentication
\* key and only a call above Limit of a write key are let through and refused.
LEMMA ScriptBursts ==
  ASSUME RateLimiterAssumption, TypeOK, Bursts, NEW k \in Keys, Script(k),
         \/ UNCHANGED passed
         \/ LetThrough(k) /\ (count'[k] <= Limit \/ k \notin AuthKeys)
  PROVE  Bursts'
<1>1. Window \in Nat /\ Window >= 2 /\ Limit \in Nat /\ Limit > 0
  BY DEF Window, RateLimiterAssumption
<1>2. /\ \A j \in Keys : count'[j] = IF j = k THEN Incremented(count[k]) ELSE count[j]
      /\ \A j \in Keys : ttl'[j] = IF j = k THEN ExpiryAfter(k) ELSE ttl[j]
  BY DEF Script, TypeOK
<1>3. SUFFICES ASSUME NEW j \in AuthKeys
               PROVE  /\ \A n \in 0..Window :
                           Totals(passed'[j])[n] <= Limit - 1 + Granted(j)' + Forgotten(n)
                      /\ (count'[j] > 0 /\ ttl'[j] \in 0..(Window - 1)) =>
                           Totals(passed'[j])[Window - ttl'[j] - 1] <= Granted(j)' - 1
  BY DEF Bursts, Forgotten, Script
<1>4. j \in Keys
  BY DEF Keys
<1> DEFINE c == count[j]
           t == ttl[j]
           s == Totals(passed[j])
           u == Totals(passed'[j])
<1>5. /\ s \in [0..Window -> Nat]
      /\ c \in 0..(Limit + 1) /\ t \in {NoExpiry} \cup 0..Window
      /\ c = 0 => t = NoExpiry
  BY <1>4, Tallies DEF TypeOK
<1>6. /\ \A n \in 0..Window : s[n] <= Limit - 1 + Granted(j) + Forgotten(n)
      /\ (c > 0 /\ t \in 0..(Window - 1)) => s[Window - t - 1] <= Granted(j) - 1
  BY DEF Bursts
<1>7. CASE j # k
  <2>1. passed'[j] = passed[j]
    BY <1>4, <1>7, PassTotals
  <2>2. count'[j] = c /\ ttl'[j] = t /\ u = s
    BY <1>2, <1>4, <1>7, <2>1
  <2> QED BY <1>6, <2>2 DEF Granted
<1>8. CASE j = k
  <2> DEFINE d == count'[j]
  <2>1. d = IF c > Limit THEN c ELSE c + 1
    BY <1>2, <1>4, <1>8 DEF Incremented
  <2>2. ttl'[j] = IF d = 1 \/ t < 0 THEN Window ELSE t
    BY <1>2, <1>4, <1>8 DEF ExpiryAfter
  <2>3. Granted(j)' = IF d < Limit THEN d ELSE Limit
    BY DEF Granted
  <2>4. Granted(j) = IF c < Limit THEN c ELSE Limit
    BY DEF Granted
  <2>5. \/ \A n \in 0..Window : u[n] = s[n]
        \/ d <= Limit /\ \A n \in 0..Window : u[n] = s[n] + 1
    <3>1. CASE UNCHANGED passed
      BY <3>1
    <3>2. CASE LetThrough(k) /\ d <= Limit
      <4>1. ASSUME NEW n \in 0..Window PROVE u[n] = s[n] + 1
        <5>1. u[n] = s[n] + 1 \/ (u[n] = s[n] /\ s[n] >= Many(j))
          BY <1>4, <1>8, <3>2, PassTotals
        <5>2. s[n] \in Nat /\ s[n] <= Limit - 1 + Granted(j) + Forgotten(n)
          BY <1>5, <1>6
        <5>3. Granted(j) \in Nat /\ Granted(j) <= Limit - 1
          BY <1>1, <1>5, <2>1, <2>4, <3>2
        <5> DEFINE most == MaxRestarts * Limit
        <5>4. most \in Nat /\ Forgotten(n) \in Nat /\ Forgotten(n) <= most
          BY <1>1, Forgetting DEF RateLimiterAssumption
        <5>5. Many(j) = 2 * Limit + most
          BY <1>1 DEF Many, RateLimiterAssumption
        <5> HIDE DEF most
        <5>6. s[n] < Many(j)
          BY <1>1, <5>2, <5>3, <5>4, <5>5
        <5>7. Many(j) \in Nat
          BY ManyIsNat
        <5> QED BY <5>1, <5>2, <5>6, <5>7
      <4> QED BY <3>2, <4>1
    <3> QED BY <1>8, <3>1, <3>2
  <2> HIDE DEF c, t, s, u, d
  <2>7. ASSUME NEW n \in 0..Window PROVE u[n] <= Limit - 1 + Granted(j)' + Forgotten(n)
    <3>1. Forgotten(n) \in Nat /\ s[n] \in Nat /\ s[n] <= Limit - 1 + Granted(j) + Forgotten(n)
      BY <1>5, <1>6, Forgetting
    <3>2. u[n] = s[n] \/ (d <= Limit /\ u[n] = s[n] + 1)
      BY <2>5
    <3> QED BY <1>1, <1>5, <2>1, <2>3, <2>4, <3>1, <3>2
  <2>8. ASSUME d > 0, ttl'[j] \in 0..(Window - 1)
        PROVE  u[Window - ttl'[j] - 1] <= Granted(j)' - 1
    <3>1. ttl'[j] = t /\ t \in 0..(Window - 1) /\ c > 0
      BY <1>1, <1>5, <2>1, <2>2, <2>8 DEF NoExpiry
    <3>2. PICK n \in 0..Window : n = Window - t - 1
      BY <1>1, <3>1
    <3>3. s[n] <= Granted(j) - 1 /\ s[n] \in Nat
      BY <1>5, <1>6, <3>1, <3>2
    <3>4. u[n] <= Granted(j)' - 1
      BY <1>1, <1>5, <2>1, <2>3, <2>4, <2>5, <3>3
    <3> QED BY <3>1, <3>2, <3>4
  <2> QED BY <2>7, <2>8 DEF c, t, s, u, d
<1> QED BY <1>7, <1>8

\* A script earns the refusals it makes: the counter it leaves has its writes behind it.
LEMMA ScriptEarned ==
  ASSUME RateLimiterAssumption, TypeOK, Earned, NEW k \in Keys, Script(k),
         \/ LetThrough(k) /\ UNCHANGED due
         \/ UNCHANGED <<passed, due>> /\ k \notin WriteKeys
         \/ Refuse(k) /\ count'[k] > Limit
  PROVE  Earned'
<1>1. Window \in Nat /\ Window >= 2 /\ Limit \in Nat /\ Limit > 0
  BY DEF Window, RateLimiterAssumption
<1>2. /\ \A j \in Keys : count'[j] = IF j = k THEN Incremented(count[k]) ELSE count[j]
      /\ \A j \in Keys : ttl'[j] = IF j = k THEN ExpiryAfter(k) ELSE ttl[j]
      /\ losses' = losses
  BY DEF Script, TypeOK
<1>3. SUFFICES ASSUME NEW j \in WriteKeys, losses = 0
               PROVE  /\ count'[j] > 0 =>
                           /\ ttl'[j] # NoExpiry
                           /\ Totals(passed'[j])[Window - ttl'[j]] >= Granted(j)'
                      /\ due'[j] # NoPromise => count'[j] > Limit
  BY <1>2 DEF Earned
<1>4. j \in Keys
  BY DEF Keys
<1> DEFINE c == count[j]
           t == ttl[j]
           s == Totals(passed[j])
           u == Totals(passed'[j])
<1>5. /\ s \in [0..Window -> Nat]
      /\ c \in 0..(Limit + 1) /\ t \in {NoExpiry} \cup 0..Window
      /\ c = 0 => t = NoExpiry
  BY <1>4, Tallies DEF TypeOK
<1>6. /\ c > 0 => t # NoExpiry /\ s[Window - t] >= Granted(j)
      /\ due[j] # NoPromise => c > Limit
  BY <1>3 DEF Earned
<1>7. CASE j # k
  <2>1. passed'[j] = passed[j]
    BY <1>4, <1>7, PassTotals DEF Refuse
  <2>2. due'[j] = due[j]
    BY <1>4, <1>7 DEF Refuse, TypeOK
  <2>3. count'[j] = c /\ ttl'[j] = t /\ u = s
    BY <1>2, <1>4, <1>7, <2>1
  <2> QED BY <1>6, <2>2, <2>3 DEF Granted
<1>8. CASE j = k
  <2> DEFINE d == count'[j]
  <2>1. d = IF c > Limit THEN c ELSE c + 1
    BY <1>2, <1>4, <1>8 DEF Incremented
  <2>2. ttl'[j] = IF d = 1 \/ t < 0 THEN Window ELSE t
    BY <1>2, <1>4, <1>8 DEF ExpiryAfter
  <2>3. Granted(j)' = IF d < Limit THEN d ELSE Limit
    BY DEF Granted
  <2>4. Granted(j) = IF c < Limit THEN c ELSE Limit
    BY DEF Granted
  <2>5. due'[j] # NoPromise => d > Limit
    <3>1. CASE UNCHANGED due
      BY <1>1, <1>5, <1>6, <2>1, <3>1
    <3>2. CASE Refuse(k) /\ count'[k] > Limit
      BY <1>8, <3>2
    <3> QED BY <1>8, <3>1, <3>2
  <2>6. \/ d > Limit /\ \A n \in 0..Window : u[n] = s[n]
        \/ \A n \in 0..Window : u[n] = s[n] + 1 \/ (u[n] = s[n] /\ s[n] >= Limit)
    <3>1. CASE LetThrough(k)
      BY <1>3, <1>4, <1>8, <3>1, PassTotals DEF Many
    <3>2. CASE Refuse(k) /\ count'[k] > Limit
      BY <1>8, <3>2 DEF Refuse
    <3> QED BY <1>8, <3>1, <3>2
  <2> HIDE DEF c, t, s, u, d
  <2>7. /\ ttl'[j] \in 0..Window
        /\ u[Window - ttl'[j]] >= Granted(j)'
    <3>1. CASE c = 0
      <4>1. d = 1 /\ ttl'[j] = Window /\ Granted(j)' = 1
        BY <1>1, <2>1, <2>2, <2>3, <3>1
      <4>2. 0 \in 0..Window /\ s[0] \in Nat
        BY <1>1, <1>5
      <4>3. u[0] >= 1
        BY <1>1, <2>6, <4>1, <4>2
      <4> QED BY <1>1, <4>1, <4>3
    <3>2. CASE c > 0
      <4>1. t \in 0..Window /\ ttl'[j] = t
        BY <1>1, <1>5, <1>6, <2>1, <2>2, <3>2
      <4>2. PICK n \in 0..Window : n = Window - t
        BY <1>1, <4>1
      <4>3. s[n] >= Granted(j) /\ s[n] \in Nat
        BY <1>5, <1>6, <3>2, <4>2
      <4>4. u[n] >= Granted(j)'
        BY <1>1, <1>5, <2>1, <2>3, <2>4, <2>6, <4>3
      <4> QED BY <4>1, <4>2, <4>4
    <3> QED BY <1>1, <1>5, <3>1, <3>2
  <2> QED BY <1>1, <2>5, <2>7 DEF c, t, s, u, d, NoExpiry
<1> QED BY <1>7, <1>8

\* A call that does not reach Redis: only writes proceed, and are counted.
LEMMA UnreachableTallies ==
  ASSUME RateLimiterAssumption, TypeOK, Bursts, Earned, NEW k \in Keys, Unreachable(k)
  PROVE  Bursts' /\ Earned'
<1>1. Window \in Nat /\ Limit \in Nat /\ Limit > 0
  BY DEF Window, RateLimiterAssumption
<1>2. UNCHANGED <<count, ttl, restarted, due, losses>>
  BY DEF Unreachable, FailurePolicy
<1>3. \A j \in AuthKeys : passed'[j] = passed[j]
  BY PassTotals DEF Unreachable, FailurePolicy, Keys, RateLimiterAssumption
<1>4. Bursts'
  BY <1>2, <1>3 DEF Bursts, Forgotten, Granted
<1>5. ASSUME NEW j \in WriteKeys, NEW n \in 0..Window
      PROVE  Totals(passed'[j])[n] >= Totals(passed[j])[n]
  <2>1. j \in Keys
    BY DEF Keys
  <2>2. Totals(passed[j])[n] \in Nat
    BY <2>1, Tallies
  <2>3. CASE LetThrough(k)
    <3>1. \/ passed'[j] = passed[j]
          \/ Totals(passed'[j])[n] \in {Totals(passed[j])[n], Totals(passed[j])[n] + 1}
      BY <2>1, <2>3, PassTotals
    <3> QED BY <2>2, <3>1
  <2>4. CASE UNCHANGED passed
    BY <2>2, <2>4
  <2> QED BY <2>3, <2>4 DEF Unreachable, FailurePolicy
<1>6. Earned'
  <2>1. SUFFICES ASSUME NEW j \in WriteKeys, losses = 0, count[j] > 0
                 PROVE  ttl[j] # NoExpiry /\ Totals(passed'[j])[Window - ttl[j]] >= Granted(j)
    BY <1>2 DEF Earned, Granted
  <2>2. ttl[j] # NoExpiry /\ Totals(passed[j])[Window - ttl[j]] >= Granted(j)
    BY <2>1 DEF Earned
  <2>3. j \in Keys /\ ttl[j] \in 0..Window /\ count[j] \in Nat
    BY <1>1, <2>2 DEF TypeOK, Keys
  <2>4. PICK n \in 0..Window : n = Window - ttl[j]
    BY <1>1, <2>3
  <2>5. /\ Totals(passed'[j])[n] >= Totals(passed[j])[n]
        /\ Totals(passed[j])[n] \in Nat /\ Granted(j) \in Nat
    BY <1>1, <1>5, <2>3, <2>4, Tallies DEF Granted
  <2>6. Totals(passed'[j])[n] >= Granted(j)
    <3> DEFINE a == Totals(passed'[j])[n]
               b == Totals(passed[j])[n]
    <3>1. a >= b /\ b >= Granted(j) /\ b \in Nat /\ Granted(j) \in Nat
      BY <2>2, <2>4, <2>5
    <3>2. a \in Nat
      <4>1. passed[j] \in [0..Window -> Nat]
        BY <2>3, Tallies
      <4>2. passed'[j] \in [0..Window -> Nat]
        <5>1. CASE UNCHANGED passed
          BY <4>1, <5>1
        <5>2. CASE LetThrough(k) /\ j # k
          BY <2>3, <4>1, <5>2, PassTotals
        <5>3. CASE LetThrough(k) /\ j = k
          BY <5>3, PassTotals
        <5> QED BY <5>1, <5>2, <5>3 DEF Unreachable, FailurePolicy
      <4> QED BY <2>4, <4>2, Sums
    <3> HIDE DEF a, b
    <3>3. a >= Granted(j)
      BY <3>1, <3>2
    <3> QED BY <3>3 DEF a
  <2> QED BY <2>2, <2>4, <2>6
<1> QED BY <1>4, <1>6

\* A tick: what expires leaves less than Limit behind, all of it younger than the
\* call that set the expiry; everything else is as old as its counter, one more.
LEMMA TickTallies ==
  ASSUME RateLimiterAssumption, TypeOK, Bursts, Earned, Tick
  PROVE  Bursts' /\ Earned'
<1>1. Window \in Nat /\ Window >= 2 /\ Limit \in Nat /\ Limit > 0
  BY DEF Window, RateLimiterAssumption
<1>2. ASSUME NEW j \in Keys
      PROVE  /\ Totals(passed[j]) \in [0..Window -> Nat]
             /\ Totals(passed'[j])[0] = 0
             /\ \A n \in 1..Window : Totals(passed'[j])[n] = Totals(passed[j])[n - 1]
             /\ \A n \in 0..Window : Totals(passed[j])[n] <= Totals(passed[j])[Window]
  <2>1. passed[j] \in [0..Window -> Nat] /\ Totals(passed[j]) \in [0..Window -> Nat]
    BY Tallies
  <2>2. passed'[j] = Aged(passed[j])
    BY DEF Tick
  <2>3. /\ Totals(passed'[j])[0] = 0
        /\ \A n \in 1..Window : Totals(passed'[j])[n] = Totals(passed[j])[n - 1]
    BY <2>1, <2>2, AgedTotals
  <2> QED BY <2>1, <2>3, TotalsLast
<1>3. ASSUME NEW j \in Keys
      PROVE  /\ count[j] \in 0..(Limit + 1) /\ ttl[j] \in {NoExpiry} \cup 0..Window
             /\ count'[j] = IF count[j] > 0 /\ ttl[j] = 0 THEN 0 ELSE count[j]
             /\ ttl'[j] = IF ttl[j] > 0 THEN ttl[j] - 1 ELSE NoExpiry
             /\ due'[j] # NoPromise => due[j] # NoPromise /\ ~(count[j] > 0 /\ ttl[j] = 0)
  BY DEF Tick, Expires, Left, TypeOK, NoPromise
<1>4. Bursts'
  <2>1. SUFFICES ASSUME NEW j \in AuthKeys
                 PROVE  /\ \A n \in 0..Window :
                             Totals(passed'[j])[n] <= Limit - 1 + Granted(j)' + Forgotten(n)'
                        /\ (count'[j] > 0 /\ ttl'[j] \in 0..(Window - 1)) =>
                             Totals(passed'[j])[Window - ttl'[j] - 1] <= Granted(j)' - 1
    BY DEF Bursts
  <2> DEFINE c == count[j]
             t == ttl[j]
             s == Totals(passed[j])
             u == Totals(passed'[j])
             g == Granted(j)
  <2>2. j \in Keys
    BY DEF Keys
  <2>3. /\ \A n \in 0..Window : s[n] <= Limit - 1 + g + Forgotten(n)
        /\ (c > 0 /\ t \in 0..(Window - 1)) => s[Window - t - 1] <= g - 1
    BY DEF Bursts
  <2>4. /\ c \in 0..(Limit + 1) /\ t \in {NoExpiry} \cup 0..Window
        /\ g = IF c < Limit THEN c ELSE Limit
        /\ s \in [0..Window -> Nat] /\ u[0] = 0
        /\ \A n \in 1..Window : u[n] = s[n - 1]
    BY <1>2, <1>3, <2>2 DEF Granted
  <2>5. Granted(j)' = IF count'[j] < Limit THEN count'[j] ELSE Limit
    BY DEF Granted
  <2>6. /\ count'[j] = IF c > 0 /\ t = 0 THEN 0 ELSE c
        /\ ttl'[j] = IF t > 0 THEN t - 1 ELSE NoExpiry
    BY <1>3, <2>2
  <2>7. ASSUME NEW n \in 1..Window
        PROVE  /\ Forgotten(n)' = Forgotten(n - 1) /\ Forgotten(n - 1) \in Nat
               /\ s[n - 1] <= s[Window - 1] /\ s[n - 1] \in Nat /\ s[Window - 1] \in Nat
    <3>1. n - 1 \in 0..Window /\ Window - 1 \in (n - 1)..Window /\ Window - 1 \in 0..Window
      BY <1>1
    <3>2. Totals(restarted')[n] = Totals(restarted)[n - 1]
      BY AgedTotals DEF Tick, TypeOK
    <3>3. s[n - 1] <= s[Window - 1]
      BY <2>2, <3>1, Tallies, TotalsGrow
    <3> QED BY <2>4, <3>1, <3>2, <3>3, Forgetting DEF Forgotten
  <2> HIDE DEF c, t, s, u, g
  <2>8. ASSUME NEW n \in 0..Window
        PROVE  u[n] <= Limit - 1 + Granted(j)' + Forgotten(n)'
    <3>1. Granted(j)' \in Nat
      BY <1>1, <2>4, <2>5, <2>6
    <3>2. CASE n = 0
      <4>1. Forgotten(0)' \in Nat
        <5>1. Totals(restarted')[0] = 0
          BY AgedTotals DEF Tick, TypeOK
        <5> QED BY <1>1, <5>1 DEF Forgotten
      <4> QED BY <1>1, <2>4, <3>1, <3>2, <4>1
    <3>3. CASE n # 0 /\ c > 0 /\ t = 0
      <4>1. n \in 1..Window
        BY <1>1, <3>3
      <4>2. s[Window - 1] <= g - 1
        BY <1>1, <2>3, <3>3
      <4>3. g \in Nat /\ g <= Limit
        BY <1>1, <2>4
      <4>4. u[n] <= Limit - 1
        BY <1>1, <2>4, <2>7, <4>1, <4>2, <4>3
      <4>5. Forgotten(n)' \in Nat /\ u[n] \in Nat
        BY <2>4, <2>7, <4>1
      <4> QED BY <1>1, <3>1, <4>4, <4>5
    <3>4. CASE n # 0 /\ ~(c > 0 /\ t = 0)
      <4>1. n \in 1..Window /\ n - 1 \in 0..Window
        BY <1>1, <3>4
      <4>2. Granted(j)' = g
        BY <2>4, <2>5, <2>6, <3>4
      <4>3. u[n] = s[n - 1] /\ s[n - 1] <= Limit - 1 + g + Forgotten(n - 1)
        BY <2>3, <2>4, <4>1
      <4> QED BY <2>7, <4>1, <4>2, <4>3
    <3> QED BY <3>2, <3>3, <3>4
  <2>9. ASSUME count'[j] > 0, ttl'[j] \in 0..(Window - 1)
        PROVE  u[Window - ttl'[j] - 1] <= Granted(j)' - 1
    <3>1. c > 0 /\ count'[j] = c /\ t \in 1..Window /\ ttl'[j] = t - 1 /\ Granted(j)' = g
      BY <1>1, <2>4, <2>5, <2>6, <2>9 DEF NoExpiry
    <3>2. CASE t = Window
      BY <1>1, <2>4, <3>1, <3>2
    <3>3. CASE t # Window
      <4>1. PICK n \in 1..Window : n = Window - t /\ n - 1 = Window - t - 1
        BY <1>1, <3>1, <3>3
      <4>2. u[n] = s[n - 1] /\ s[n - 1] <= g - 1
        BY <1>1, <2>3, <2>4, <3>1, <3>3, <4>1
      <4>3. Window - ttl'[j] - 1 = n
        BY <1>1, <3>1, <4>1
      <4> QED BY <3>1, <4>2, <4>3
    <3> QED BY <3>2, <3>3
  <2> QED BY <2>8, <2>9 DEF c, t, s, u, g
<1>5. Earned'
  <2>1. SUFFICES ASSUME NEW j \in WriteKeys, losses = 0
                 PROVE  /\ count'[j] > 0 =>
                             /\ ttl'[j] # NoExpiry
                             /\ Totals(passed'[j])[Window - ttl'[j]] >= Granted(j)'
                        /\ due'[j] # NoPromise => count'[j] > Limit
    BY DEF Earned, Tick
  <2>2. j \in Keys
    BY DEF Keys
  <2>3. /\ count[j] > 0 => ttl[j] # NoExpiry /\ Totals(passed[j])[Window - ttl[j]] >= Granted(j)
        /\ due[j] # NoPromise => count[j] > Limit
    BY <2>1 DEF Earned
  <2>4. due'[j] # NoPromise => count'[j] > Limit
    BY <1>3, <2>2, <2>3
  <2>5. ASSUME count'[j] > 0
        PROVE  ttl'[j] # NoExpiry /\ Totals(passed'[j])[Window - ttl'[j]] >= Granted(j)'
    <3>1. count'[j] = count[j] /\ ttl[j] \in 1..Window /\ ttl'[j] = ttl[j] - 1
      BY <1>1, <1>3, <2>2, <2>3, <2>5
    <3>2. Granted(j)' = Granted(j)
      BY <3>1 DEF Granted
    <3>3. PICK n \in 1..Window : n = Window - ttl[j] + 1 /\ n - 1 = Window - ttl[j]
      BY <1>1, <3>1
    <3>4. Totals(passed'[j])[n] = Totals(passed[j])[n - 1]
      BY <1>2, <2>2
    <3>5. Window - ttl'[j] = n /\ ttl'[j] # NoExpiry
      BY <1>1, <3>1, <3>3 DEF NoExpiry
    <3>6. Totals(passed[j])[n - 1] >= Granted(j)
      BY <2>3, <2>5, <3>1, <3>3
    <3> QED BY <3>2, <3>4, <3>5, <3>6
  <2> QED BY <2>4, <2>5
<1> QED BY <1>4, <1>5

\* Nothing has passed yet, and nothing is counted.
LEMMA InitTallies ==
  ASSUME RateLimiterAssumption, Init
  PROVE  Bursts /\ Earned
<1>1. Window \in Nat /\ Window \in 0..Window /\ Limit \in Nat /\ Limit > 0
  BY DEF Window, RateLimiterAssumption
<1>2. \A k \in Keys : count[k] = 0 /\ \A n \in 0..Window : Totals(passed[k])[n] = 0
  <2>1. /\ count = [k \in Keys |-> 0]
        /\ passed = [k \in Keys |-> [age \in 0..Window |-> 0]]
    BY DEF Init
  <2>2. ASSUME NEW k \in Keys
        PROVE  \A n \in 0..Window : Totals(passed[k])[n] = 0
    <3>1. passed[k] = [age \in 0..Window |-> 0]
      BY <2>1
    <3> QED BY <3>1, TotalsOfNone
  <2> QED BY <2>1, <2>2
<1>3. Bursts
  <2>1. \A n \in 0..Window : Forgotten(n) = 0
    BY <1>1, TotalsOfNone DEF Forgotten, Init
  <2> QED BY <1>1, <1>2, <2>1 DEF Bursts, Granted, Keys
<1>4. Earned
  BY <1>2 DEF Earned, Keys, Init
<1> QED BY <1>3, <1>4

\* Every step keeps the tallies in line with the counters.
LEMMA StepTallies ==
  ASSUME RateLimiterAssumption, TypeOK, Bursts, Earned, [Next]_vars
  PROVE  Bursts' /\ Earned'
<1>1. Window \in Nat /\ Window \in 0..Window /\ Limit \in Nat /\ Limit > 0 /\ MaxLosses \in Nat
  BY DEF Window, RateLimiterAssumption
<1>2. ASSUME NEW k \in Keys, Answered(k)
      PROVE  Bursts' /\ Earned'
  <2>1. count'[k] \in 0..(Limit + 1)
    BY <1>2, ScriptTyped DEF Answered
  <2>2. CASE Allowed(count'[k])
    <3>1. Script(k) /\ LetThrough(k) /\ UNCHANGED due /\ count'[k] <= Limit
      BY <1>2, <2>2 DEF Answered, Allowed
    <3> QED BY <3>1, ScriptBursts, ScriptEarned
  <2>3. CASE ~Allowed(count'[k])
    <3>1. Script(k) /\ Refuse(k) /\ UNCHANGED passed /\ count'[k] > Limit
      BY <1>1, <1>2, <2>1, <2>3 DEF Answered, Allowed, Refuse
    <3> QED BY <3>1, ScriptBursts, ScriptEarned
  <2> QED BY <2>2, <2>3
<1>3. ASSUME NEW k \in Keys, Unanswered(k)
      PROVE  Bursts' /\ Earned'
  <2>1. Script(k) /\ UNCHANGED due
    BY <1>3 DEF Unanswered, FailurePolicy
  <2>2. CASE k \in WriteKeys
    <3>1. LetThrough(k) /\ k \notin AuthKeys
      BY <1>3, <2>2 DEF Unanswered, FailurePolicy, RateLimiterAssumption
    <3> QED BY <2>1, <3>1, ScriptBursts, ScriptEarned
  <2>3. CASE k \notin WriteKeys
    <3>1. UNCHANGED passed
      BY <1>3, <2>3 DEF Unanswered, FailurePolicy
    <3> QED BY <2>1, <2>3, <3>1, ScriptBursts, ScriptEarned
  <2> QED BY <2>2, <2>3
<1>4. ASSUME NEW k \in Keys, LoseExpiry(k)
      PROVE  Bursts' /\ Earned'
  <2>1. /\ UNCHANGED <<count, passed, restarted>> /\ losses' = losses + 1 /\ losses \in Nat
        /\ \A j \in Keys : ttl'[j] = IF j = k THEN NoExpiry ELSE ttl[j]
    BY <1>1, <1>4 DEF LoseExpiry, TypeOK
  <2>2. Bursts'
    BY <2>1 DEF Bursts, Forgotten, Granted, NoExpiry, Keys
  <2>3. Earned'
    BY <2>1 DEF Earned
  <2> QED BY <2>2, <2>3
<1>5. CASE Restart
  <2>1. /\ UNCHANGED passed
        /\ \A k \in Keys : count'[k] = 0 /\ due'[k] = NoPromise
    BY <1>5 DEF Restart
  <2>2. Bursts'
    <3>1. SUFFICES ASSUME NEW k \in AuthKeys, NEW n \in 0..Window
                   PROVE  Totals(passed[k])[n] <= Limit - 1 + Granted(k)' + Forgotten(n)'
      BY <2>1 DEF Bursts, Keys
    <3> DEFINE r == Totals(restarted)[n]
               m == Totals(passed[k])[n]
    <3>2. r \in Nat /\ Totals(restarted')[n] = r + 1
      BY <1>5, RestartsGain, Sums DEF Restart, TypeOK
    <3>3. m \in Nat /\ k \in Keys /\ count[k] \in Nat
      BY <1>1, Tallies DEF TypeOK, Keys
    <3>4. m <= Limit - 1 + Granted(k) + r * Limit
      BY DEF Bursts, Forgotten
    <3>5. Granted(k) \in Nat /\ Granted(k) <= Limit /\ Granted(k)' = 0
      BY <1>1, <2>1, <3>3 DEF Granted
    <3>6. Forgotten(n)' = (r + 1) * Limit
      BY <3>2 DEF Forgotten
    <3> HIDE DEF r, m
    <3>7. (r + 1) * Limit = r * Limit + Limit /\ r * Limit \in Nat
      BY <1>1, <3>2
    <3>8. m <= Limit - 1 + Granted(k)' + Forgotten(n)'
      BY <1>1, <3>3, <3>4, <3>5, <3>6, <3>7
    <3> QED BY <3>8 DEF m
  <2>3. Earned'
    BY <2>1 DEF Earned, Keys
  <2> QED BY <2>2, <2>3
<1>6. CASE UNCHANGED vars
  BY <1>6 DEF vars, Bursts, Earned, Forgotten, Granted
<1> QED BY <1>2, <1>3, <1>4, <1>5, <1>6, UnreachableTallies, TickTallies DEF Next

\* Every reachable state satisfies the inductive invariant.
THEOREM Invariance == Spec => []IInv
<1>1. Init => IInv
  BY InitIInv, RateLimiterAssumption
<1>2. IInv /\ [Next]_vars => IInv'
  BY StepIInv, RateLimiterAssumption
<1> QED BY <1>1, <1>2, PTL DEF Spec

\* Counters, expiries and promises stay in range for every limit and window.
THEOREM TypeCorrect == Spec => []TypeOK
<1>1. IInv => TypeOK
  BY DEF IInv
<1> QED BY <1>1, Invariance, PTL

\* Retry-After of RateLimitExceededError is kept, to half a second, for every
\* limit, window and number of calls that are refused meanwhile.
THEOREM RetryAfterIsKept == Spec => []PromiseKept
<1>1. IInv => PromiseKept
  BY DEF IInv, Promises, PromiseKept
<1> QED BY <1>1, Invariance, PTL

\* What was let through, tally by tally, in every reachable state.
THEOREM TalliesInvariance == Spec => [](Bursts /\ Earned)
<1>1. Init => Bursts /\ Earned
  BY InitTallies, RateLimiterAssumption
<1>2. TypeOK /\ Bursts /\ Earned /\ [Next]_vars => (Bursts /\ Earned)'
  BY StepTallies, RateLimiterAssumption
<1> QED BY <1>1, <1>2, TypeCorrect, PTL DEF Spec

\* The documented burst is the worst that a running Redis allows: for every limit
\* and window, whatever it answers, loses or fails to answer, no interval as long as
\* a window lets through 2 * Limit logins or registrations of one key, and each
\* restart in the interval, which forgets the counters, adds Limit at most.
THEOREM BurstIsBounded == Spec => []BoundaryBurst
<1>1. TypeOK /\ Bursts => BoundaryBurst
  <2> SUFFICES ASSUME TypeOK, Bursts, NEW k \in AuthKeys
               PROVE  InWindow(k) <= (2 + Totals(restarted)[Window]) * Limit - 1
    BY DEF BoundaryBurst
  <2>1. Limit \in Nat /\ Window \in Nat /\ Window \in 0..Window /\ k \in Keys
    BY RateLimiterAssumption DEF RateLimiterAssumption, Window, Keys
  <2>2. InWindow(k) \in Nat /\ count[k] \in Nat
    BY <2>1, Tallies, RateLimiterAssumption DEF InWindow, TypeOK
  <2>3. Granted(k) \in Nat /\ Granted(k) <= Limit
    BY <2>1, <2>2 DEF Granted
  <2> DEFINE r == Totals(restarted)[Window]
  <2>4. InWindow(k) <= Limit - 1 + Granted(k) + r * Limit
    BY <2>1 DEF Bursts, Forgotten, InWindow
  <2>5. r \in Nat
    BY <2>1, Sums, RateLimiterAssumption DEF TypeOK
  <2> HIDE DEF r
  <2>6. (2 + r) * Limit = 2 * Limit + r * Limit /\ r * Limit \in Nat
    BY <2>1, <2>5
  <2>7. InWindow(k) <= (2 + r) * Limit - 1
    BY <2>1, <2>2, <2>3, <2>4, <2>6
  <2> QED BY <2>7 DEF r
<1> QED BY <1>1, TypeCorrect, TalliesInvariance, PTL

\* No write is refused unearned: for every limit and window, as long as counters
\* keep their expiry, a refused user had Limit writes let through within the window.
THEOREM RefusalsAreEarned == Spec => []RefusalIsEarned
<1>1. TypeOK /\ Earned => RefusalIsEarned
  <2> SUFFICES ASSUME TypeOK, Earned, NEW k \in WriteKeys, due[k] # NoPromise, losses = 0
               PROVE  InWindow(k) >= Limit
    BY DEF RefusalIsEarned
  <2>1. Limit \in Nat /\ Window \in Nat /\ k \in Keys
    BY RateLimiterAssumption DEF RateLimiterAssumption, Window, Keys
  <2>2. count[k] > Limit /\ count[k] \in Nat
    BY <2>1 DEF Earned, TypeOK
  <2>3. /\ ttl[k] \in 0..Window /\ Granted(k) = Limit
        /\ Totals(passed[k])[Window - ttl[k]] >= Granted(k)
    BY <2>1, <2>2 DEF Earned, TypeOK, Granted
  <2>4. PICK n \in 0..Window : n = Window - ttl[k]
    BY <2>1, <2>3
  <2>5. /\ Totals(passed[k])[n] <= Totals(passed[k])[Window]
        /\ Totals(passed[k])[n] \in Nat /\ Totals(passed[k])[Window] \in Nat
    <3>1. passed[k] \in [0..Window -> Nat] /\ Totals(passed[k]) \in [0..Window -> Nat]
      BY <2>1, Tallies, RateLimiterAssumption
    <3>2. Totals(passed[k])[n] <= Totals(passed[k])[Window]
      BY <3>1, TotalsLast, RateLimiterAssumption
    <3> QED BY <2>1, <3>1, <3>2
  <2> QED BY <2>1, <2>3, <2>4, <2>5 DEF InWindow
<1> QED BY <1>1, TypeCorrect, TalliesInvariance, PTL
=============================================================================
