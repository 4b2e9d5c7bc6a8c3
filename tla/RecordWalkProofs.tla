-------------------------- MODULE RecordWalkProofs --------------------------
(***************************************************************************)
(* The walks of RecordWalk stay in step with the records and give the      *)
(* result the reference gives, for every list of records, of any length    *)
(* and content, laid out in a buffer of any size.                          *)
(***************************************************************************)
EXTENDS RecordWalk, IntervalFacts, SequenceTheorems

(* A record takes its header and at least its bytes. *)
LEMMA StrideFacts ==
  ASSUME NEW rec \in Record, NEW w \in Walks
  PROVE  /\ Layout(w).hdr \in {4, 8} /\ Stride(rec, w) \in Nat
         /\ Stride(rec, w) >= Layout(w).hdr + rec.size
  <1>1. rec.size \in Nat  BY DEF Record
  <1>2. CASE w \in Containers
    <2>1. Layout(w).hdr = 8 /\ Layout(w).align = 4  BY <1>2 DEF Layout
    <2>2. Stride(rec, w) = 8 + ((rec.size + 4 - 1) \div 4) * 4  BY <2>1 DEF Stride
    <2> QED  BY <1>1, <2>1, <2>2
  <1>3. CASE w \notin Containers
    <2>1. Layout(w).hdr = 4 /\ Layout(w).align = 1  BY <1>3 DEF Layout
    <2>2. Stride(rec, w) = 4 + ((rec.size + 1 - 1) \div 1) * 1  BY <2>1 DEF Stride
    <2> QED  BY <1>1, <2>1, <2>2
  <1> QED  BY <1>2, <1>3

(* st is where the first n of the records rs start, and where they end. *)
Begins(st, n, rs, w) ==
  /\ st \in [1 .. n + 1 -> Nat] /\ st[1] = 0
  /\ \A i \in 1 .. n : st[i + 1] = st[i] + Stride(rs[i], w)

(* The recursion of Starts is sound: it defines such a function. *)
LEMMA StartsDefined ==
  ASSUME NEW rs \in Seq(Record), NEW w \in Walks
  PROVE  Begins(Starts(rs, w), Len(rs), rs, w)
  <1>0. Len(rs) \in Nat  BY LenProperties
  <1> DEFINE T == {n \in Nat : n <= Len(rs) => \E st : Begins(st, n, rs, w)}
  <1>1. 0 \in T
    <2>1. Begins([i \in 1 .. 1 |-> 0], 0, rs, w)  BY DEF Begins
    <2> QED  BY <2>1
  <1>2. ASSUME NEW n \in Nat, n \in T PROVE n + 1 \in T
    <2> SUFFICES ASSUME n + 1 <= Len(rs)
                 PROVE  \E st : Begins(st, n + 1, rs, w)
      OBVIOUS
    <2>1. PICK st : Begins(st, n, rs, w)  BY <1>0, <1>2
    <2>2. n + 1 \in 1 .. Len(rs)  BY <1>0
    <2>3. rs[n + 1] \in Record  BY <2>2, ElementOfSeq
    <2>4. Stride(rs[n + 1], w) \in Nat  BY <2>3, StrideFacts
    <2> DEFINE up == [i \in 1 .. (n + 1) + 1 |->
                        IF i <= n + 1 THEN st[i] ELSE st[n + 1] + Stride(rs[n + 1], w)]
    <2>5. up \in [1 .. (n + 1) + 1 -> Nat] /\ up[1] = 0  BY <2>1, <2>4 DEF Begins
    <2>6. ASSUME NEW i \in 1 .. n + 1
          PROVE  up[i + 1] = up[i] + Stride(rs[i], w)
      <3>1. CASE i = n + 1  BY <3>1
      <3>2. CASE i # n + 1
        <4>1. i \in 1 .. n /\ i + 1 <= n + 1  BY <3>2
        <4>2. up[i] = st[i] /\ up[i + 1] = st[i + 1]  BY <4>1
        <4> QED  BY <2>1, <4>1, <4>2 DEF Begins
      <3> QED  BY <3>1, <3>2
    <2> HIDE DEF up
    <2> QED  BY <2>5, <2>6 DEF Begins
  <1>3. \A n \in Nat : n \in T
    <2> HIDE DEF T
    <2> QED  BY <1>1, <1>2, NatsBySuccessor
  <1>4. PICK st : Begins(st, Len(rs), rs, w)  BY <1>0, <1>3
  <1> DEFINE F(g) == [i \in 1 .. Len(rs) + 1 |->
                        IF i = 1 THEN 0 ELSE g[i - 1] + Stride(rs[i - 1], w)]
  <1>5. st = F(st)
    <2>1. st \in [1 .. Len(rs) + 1 -> Nat]  BY <1>4 DEF Begins
    <2>2. ASSUME NEW i \in 1 .. Len(rs) + 1
          PROVE  st[i] = IF i = 1 THEN 0 ELSE st[i - 1] + Stride(rs[i - 1], w)
      <3>1. CASE i = 1  BY <1>4, <3>1 DEF Begins
      <3>2. CASE i # 1
        <4>1. i - 1 \in 1 .. Len(rs) /\ (i - 1) + 1 = i  BY <1>0, <3>2
        <4> QED  BY <1>4, <3>2, <4>1 DEF Begins
      <3> QED  BY <3>1, <3>2
    <2> QED  BY <2>1, <2>2
  <1>6. Starts(rs, w) = F(Starts(rs, w))
    <2>1. Starts(rs, w) = CHOOSE g : g = F(g)  BY DEF Starts
    <2> QED  BY <1>5, <2>1
  <1>7. PICK g : g = Starts(rs, w)  OBVIOUS
  <1>8. g = F(g)  BY <1>6, <1>7
  <1>9. /\ DOMAIN g = 1 .. Len(rs) + 1 /\ g[1] = 0
        /\ \A i \in 1 .. Len(rs) : g[i + 1] = g[i] + Stride(rs[i], w)
    <2>1. \A i \in 1 .. Len(rs) + 1 :
            g[i] = IF i = 1 THEN 0 ELSE g[i - 1] + Stride(rs[i - 1], w)
      BY <1>8
    <2>2. DOMAIN g = 1 .. Len(rs) + 1 /\ g[1] = 0  BY <1>0, <1>8, <2>1
    <2>3. ASSUME NEW i \in 1 .. Len(rs)
          PROVE  g[i + 1] = g[i] + Stride(rs[i], w)
      <3>1. i + 1 \in 1 .. Len(rs) + 1 /\ i + 1 # 1 /\ (i + 1) - 1 = i  BY <1>0
      <3> QED  BY <2>1, <3>1
    <2> QED  BY <2>2, <2>3
  <1> DEFINE U == {k \in Nat : k <= Len(rs) => g[k + 1] = st[k + 1]}
  <1>10. 0 \in U  BY <1>4, <1>9 DEF Begins
  <1>11. ASSUME NEW k \in Nat, k \in U PROVE k + 1 \in U
    <2> SUFFICES ASSUME k + 1 <= Len(rs) PROVE g[(k + 1) + 1] = st[(k + 1) + 1]
      OBVIOUS
    <2>1. k + 1 \in 1 .. Len(rs) /\ g[k + 1] = st[k + 1]  BY <1>0, <1>11
    <2> QED  BY <1>4, <1>9, <2>1 DEF Begins
  <1>12. \A k \in Nat : k \in U
    <2> HIDE DEF U
    <2> QED  BY <1>10, <1>11, NatsBySuccessor
  <1>13. \A i \in 1 .. Len(rs) + 1 : g[i] = st[i]
    <2> TAKE i \in 1 .. Len(rs) + 1
    <2>1. i - 1 \in Nat /\ i - 1 <= Len(rs) /\ (i - 1) + 1 = i  BY <1>0
    <2> QED  BY <1>12, <2>1
  <1>14. g \in [1 .. Len(rs) + 1 -> Nat]
    <2>1. \A i \in 1 .. Len(rs) + 1 : g[i] \in Nat  BY <1>4, <1>13 DEF Begins
    <2> QED  BY <1>8, <2>1
  <1> QED  BY <1>7, <1>9, <1>14 DEF Begins

(* Records do not overlap, and each starts before the next. *)
LEMMA StartsOrdered ==
  ASSUME NEW rs \in Seq(Record), NEW w \in Walks,
         NEW st, Begins(st, Len(rs), rs, w)
  PROVE  \A i, j \in 1 .. Len(rs) + 1 : i < j => st[i] + Layout(w).hdr <= st[j]
  <1>0. Len(rs) \in Nat  BY LenProperties
  <1>1. ASSUME NEW i \in 1 .. Len(rs)
        PROVE  /\ st[i] \in Nat /\ st[i + 1] \in Nat /\ Layout(w).hdr \in Nat
               /\ st[i] + Layout(w).hdr <= st[i + 1]
    <2>1. rs[i] \in Record  BY ElementOfSeq
    <2>2. /\ Layout(w).hdr \in {4, 8} /\ Stride(rs[i], w) \in Nat
          /\ Stride(rs[i], w) >= Layout(w).hdr + rs[i].size /\ rs[i].size \in Nat
      BY <2>1, StrideFacts DEF Record
    <2>3. st[i] \in Nat /\ st[i + 1] = st[i] + Stride(rs[i], w)  BY <1>0 DEF Begins
    <2>4. PICK h \in {4, 8}, d \in Nat, s \in Nat :
            h = Layout(w).hdr /\ d = Stride(rs[i], w) /\ s = rs[i].size /\ d >= h + s
      BY <2>2
    <2>5. PICK a \in Nat : a = st[i] /\ st[i + 1] = a + d  BY <2>3, <2>4
    <2>6. d >= h + s  BY <2>4
    <2>7. h \in Nat /\ a + d \in Nat /\ a + h <= a + d  BY <2>6
    <2> QED  BY <2>4, <2>5, <2>7, Zenon
  <1> DEFINE T == {k \in Nat : \A i \in 1 .. Len(rs) :
                     i + k + 1 <= Len(rs) + 1 => st[i] + Layout(w).hdr <= st[i + k + 1]}
  <1>2. 0 \in T
    <2>1. \A i \in 1 .. Len(rs) : i + 0 + 1 = i + 1  BY <1>0
    <2> QED  BY <1>1, <2>1
  <1>3. ASSUME NEW k \in Nat, k \in T PROVE k + 1 \in T
    <2> SUFFICES ASSUME NEW i \in 1 .. Len(rs), i + (k + 1) + 1 <= Len(rs) + 1
                 PROVE  st[i] + Layout(w).hdr <= st[i + (k + 1) + 1]
      OBVIOUS
    <2>1. i + k + 1 \in 1 .. Len(rs) /\ i + (k + 1) + 1 = (i + k + 1) + 1  BY <1>0
    <2>2. st[i] + Layout(w).hdr <= st[i + k + 1]  BY <1>0, <1>3, <2>1
    <2>3. st[i + k + 1] + Layout(w).hdr <= st[(i + k + 1) + 1]  BY <1>1, <2>1
    <2>4. /\ st[i] \in Nat /\ st[i + k + 1] \in Nat /\ st[(i + k + 1) + 1] \in Nat
          /\ Layout(w).hdr \in Nat
      BY <1>1, <2>1
    <2> QED  BY <2>1, <2>2, <2>3, <2>4
  <1>4. \A k \in Nat : k \in T
    <2> HIDE DEF T
    <2> QED  BY <1>2, <1>3, NatsBySuccessor
  <1>5. ASSUME NEW i \in 1 .. Len(rs) + 1, NEW j \in 1 .. Len(rs) + 1, i < j
        PROVE  st[i] + Layout(w).hdr <= st[j]
    <2>1. PICK k \in Nat : k = j - i - 1  BY <1>0, <1>5
    <2>2. i \in 1 .. Len(rs) /\ i + k + 1 = j /\ i + k + 1 <= Len(rs) + 1
      BY <1>0, <1>5, <2>1
    <2>3. k \in T  BY <1>4
    <2> QED  BY <2>2, <2>3
  <1> QED  BY <1>5

(* s[k] is the sum of the first k values of f, up to n. *)
Sums(s, f, n) == s[0] = 0 /\ \A k \in 1 .. n : s[k] = s[k - 1] + f[k]

(* There is only one such s. *)
LEMMA SumsUnique ==
  ASSUME NEW n \in Nat, NEW f, NEW s, NEW t, Sums(s, f, n), Sums(t, f, n)
  PROVE  \A k \in 0 .. n : s[k] = t[k]
  <1> DEFINE T == {k \in Nat : k <= n => s[k] = t[k]}
  <1>1. 0 \in T  BY DEF Sums
  <1>2. ASSUME NEW k \in Nat, k \in T PROVE k + 1 \in T
    <2> SUFFICES ASSUME k + 1 <= n PROVE s[k + 1] = t[k + 1]  OBVIOUS
    <2>1. k + 1 \in 1 .. n /\ (k + 1) - 1 = k /\ s[k] = t[k]  BY <1>2
    <2>2. s[k + 1] = s[(k + 1) - 1] + f[k + 1]  BY <2>1 DEF Sums
    <2>3. t[k + 1] = t[(k + 1) - 1] + f[k + 1]  BY <2>1 DEF Sums
    <2> QED  BY <2>1, <2>2, <2>3
  <1>3. \A k \in Nat : k \in T
    <2> HIDE DEF T
    <2> QED  BY <1>1, <1>2, NatsBySuccessor
  <1> QED  BY <1>3

(* The recursion of SumTo is sound, and its sum is a number. *)
LEMMA SumDefined ==
  ASSUME NEW n \in Nat, NEW f, \A k \in 1 .. n : f[k] \in Nat
  PROVE  \E s : Sums(s, f, n) /\ SumTo(f, n) = s[n] /\ SumTo(f, n) \in Nat
  <1> DEFINE Good(s, m) == Sums(s, f, m) /\ \A k \in 0 .. m : s[k] \in Nat
             T == {m \in Nat : m <= n => \E s : Good(s, m)}
  <1>1. 0 \in T
    <2>1. Good([k \in 0 .. 0 |-> 0], 0)  BY DEF Sums
    <2> QED  BY <2>1
  <1>2. ASSUME NEW m \in Nat, m \in T PROVE m + 1 \in T
    <2> SUFFICES ASSUME m + 1 <= n PROVE \E s : Good(s, m + 1)  OBVIOUS
    <2>1. PICK s : Good(s, m)  BY <1>2
    <2>2. m + 1 \in 1 .. n /\ f[m + 1] \in Nat /\ s[m] \in Nat  BY <2>1
    <2> DEFINE u == [k \in 0 .. m + 1 |-> IF k <= m THEN s[k] ELSE s[m] + f[m + 1]]
    <2>3. u[0] = 0  BY <2>1 DEF Sums
    <2>4. ASSUME NEW k \in 1 .. m + 1 PROVE u[k] = u[k - 1] + f[k]
      <3>1. CASE k = m + 1
        <4>1. u[k] = s[m] + f[m + 1] /\ u[k - 1] = s[m]  BY <3>1
        <4> QED  BY <3>1, <4>1
      <3>2. CASE k # m + 1
        <4>1. k \in 1 .. m /\ u[k] = s[k] /\ u[k - 1] = s[k - 1]  BY <3>2
        <4> QED  BY <2>1, <4>1 DEF Sums
      <3> QED  BY <3>1, <3>2
    <2>5. \A k \in 0 .. m + 1 : u[k] \in Nat  BY <2>1, <2>2
    <2> HIDE DEF u
    <2> QED  BY <2>3, <2>4, <2>5 DEF Sums
  <1>3. \A m \in Nat : m \in T
    <2> HIDE DEF T
    <2> QED  BY <1>1, <1>2, NatsBySuccessor
  <1>4. PICK s : Good(s, n)  BY <1>3
  <1> DEFINE F(g) == [k \in 0 .. n |-> IF k = 0 THEN 0 ELSE g[k - 1] + f[k]]
             st   == [k \in 0 .. n |-> s[k]]
  <1>5. st = F(st)
    <2>1. ASSUME NEW k \in 0 .. n
          PROVE  st[k] = IF k = 0 THEN 0 ELSE st[k - 1] + f[k]
      <3>1. CASE k = 0  BY <1>4, <3>1 DEF Sums
      <3>2. CASE k # 0
        <4>1. k \in 1 .. n /\ k - 1 \in 0 .. n  BY <3>2
        <4>2. st[k] = s[k] /\ st[k - 1] = s[k - 1]  BY <4>1
        <4> QED  BY <1>4, <3>2, <4>1, <4>2 DEF Sums
      <3> QED  BY <3>1, <3>2
    <2> QED  BY <2>1
  <1>6. PICK g : g = CHOOSE h : h = F(h)  OBVIOUS
  <1>7. g = F(g)  BY <1>5, <1>6
  <1>8. SumTo(f, n) = g[n]  BY <1>6 DEF SumTo
  <1>9. Sums(g, f, n)
    <2>1. \A k \in 0 .. n : g[k] = IF k = 0 THEN 0 ELSE g[k - 1] + f[k]  BY <1>7
    <2>2. g[0] = 0  BY <2>1
    <2>3. \A k \in 1 .. n : k \in 0 .. n /\ k # 0  OBVIOUS
    <2>4. \A k \in 1 .. n : g[k] = g[k - 1] + f[k]  BY <2>1, <2>3
    <2> QED  BY <2>2, <2>4 DEF Sums
  <1>10. g[n] = s[n] /\ s[n] \in Nat
    <2>1. \A k \in 0 .. n : g[k] = s[k]
      <3> HIDE DEF F
      <3> QED  BY <1>4, <1>9, SumsUnique
    <2> QED  BY <1>4, <2>1
  <1> QED  BY <1>8, <1>9, <1>10

(* The sum of no values, and of one more. *)
LEMMA SumNext ==
  ASSUME NEW n \in Nat, NEW f, \A k \in 1 .. n + 1 : f[k] \in Nat
  PROVE  /\ SumTo(f, 0) = 0 /\ SumTo(f, n) \in Nat
         /\ SumTo(f, n + 1) = SumTo(f, n) + f[n + 1]
  <1>1. SumTo(f, 0) = 0
    <2>1. \A k \in 1 .. 0 : f[k] \in Nat  OBVIOUS
    <2>2. PICK s : Sums(s, f, 0) /\ SumTo(f, 0) = s[0]  BY <2>1, SumDefined
    <2> QED  BY <2>2 DEF Sums
  <1>2. \A k \in 1 .. n : f[k] \in Nat  OBVIOUS
  <1>3. PICK s : Sums(s, f, n) /\ SumTo(f, n) = s[n] /\ SumTo(f, n) \in Nat
    BY <1>2, SumDefined
  <1>4. n + 1 \in Nat  OBVIOUS
  <1>5. PICK t : Sums(t, f, n + 1) /\ SumTo(f, n + 1) = t[n + 1]  BY <1>4, SumDefined
  <1>6. Sums(t, f, n) /\ t[n + 1] = t[n] + f[n + 1]
    <2>1. n + 1 \in 1 .. n + 1 /\ (n + 1) - 1 = n /\ \A k \in 1 .. n : k \in 1 .. n + 1
      OBVIOUS
    <2> QED  BY <1>5, <2>1 DEF Sums
  <1>7. s[n] = t[n]
    <2>1. n \in 0 .. n  OBVIOUS
    <2> QED  BY <1>3, <1>6, <2>1, SumsUnique
  <1> QED  BY <1>1, <1>3, <1>5, <1>6, <1>7

(* A sum over m values of which only the first n are not zero. *)
LEMMA SumOfFirst ==
  ASSUME NEW n \in Nat, NEW m \in Nat, n <= m, NEW f, NEW g,
         \A k \in 1 .. m : f[k] \in Nat /\ g[k] = IF k <= n THEN f[k] ELSE 0
  PROVE  SumTo(g, m) = SumTo(f, n)
  <1>1. \A k \in 1 .. m : g[k] \in Nat  OBVIOUS
  <1>2. \A k \in 1 .. n : f[k] \in Nat /\ k \in 1 .. m  OBVIOUS
  <1>3. PICK s : Sums(s, f, n) /\ SumTo(f, n) = s[n] /\ SumTo(f, n) \in Nat
    BY <1>2, SumDefined
  <1>4. PICK t : Sums(t, g, m) /\ SumTo(g, m) = t[m]  BY <1>1, SumDefined
  <1>5. Sums(t, f, n)
    <2>1. t[0] = 0 /\ \A k \in 1 .. m : t[k] = t[k - 1] + g[k]  BY <1>4 DEF Sums
    <2>2. \A k \in 1 .. n : g[k] = f[k]  BY <1>2
    <2> QED  BY <1>2, <2>1, <2>2 DEF Sums
  <1>6. s[n] = t[n]
    <2>1. n \in 0 .. n  OBVIOUS
    <2> QED  BY <1>3, <1>5, <2>1, SumsUnique
  <1> DEFINE T == {k \in Nat : n + k <= m => t[n + k] = t[n]}
  <1>7. 0 \in T  OBVIOUS
  <1>8. ASSUME NEW k \in Nat, k \in T PROVE k + 1 \in T
    <2> SUFFICES ASSUME n + (k + 1) <= m PROVE t[n + (k + 1)] = t[n]  OBVIOUS
    <2>1. /\ n + (k + 1) \in 1 .. m /\ (n + (k + 1)) - 1 = n + k /\ t[n + k] = t[n]
          /\ ~ (n + (k + 1) <= n)
      BY <1>8
    <2>2. g[n + (k + 1)] = 0  BY <2>1
    <2>3. t[n + (k + 1)] = t[(n + (k + 1)) - 1] + g[n + (k + 1)]  BY <1>4, <2>1 DEF Sums
    <2>4. t[n] \in Nat  BY <1>3, <1>6
    <2> QED  BY <2>1, <2>2, <2>3, <2>4
  <1>9. \A k \in Nat : k \in T
    <2> HIDE DEF T
    <2> QED  BY <1>7, <1>8, NatsBySuccessor
  <1>10. t[m] = t[n]
    <2>1. m - n \in Nat /\ n + (m - n) = m  OBVIOUS
    <2>2. m - n \in T  BY <1>9, <2>1
    <2> QED  BY <2>1, <2>2
  <1> QED  BY <1>3, <1>4, <1>6, <1>10

-----------------------------------------------------------------------------
(* The call: what WalkInit says of the buffer, and no step changes. *)
CallOk ==
  /\ walk \in Walks /\ recs \in Seq(Record)
  /\ total \in Nat /\ total < WordMod /\ total <= At[Len(recs) + 1]
  /\ \A i \in 1 .. Len(recs) : recs[i].len # recs[i].size => EndOf(i) > total
  /\ walk = "credit" =>
       \A i \in 1 .. Len(recs) :
         recs[i].tag = "credits" => recs[i].len \div 4 <= Len(recs[i].grants)

(* What the proofs use of the layout. *)
LEMMA BufferFacts ==
  ASSUME CallOk
  PROVE  /\ Len(recs) \in Nat /\ DOMAIN recs = 1 .. Len(recs)
         /\ DOMAIN At = 1 .. Len(recs) + 1 /\ At[1] = 0
         /\ Layout(walk).hdr \in {4, 8} /\ HdrSize(walk) = Layout(walk).hdr
         /\ \A i \in 1 .. Len(recs) + 1 : At[i] \in Nat
         /\ \A i, j \in 1 .. Len(recs) + 1 : i < j => At[i] + Layout(walk).hdr <= At[j]
         /\ \A i \in 1 .. Len(recs) :
              /\ recs[i] \in Record /\ recs[i].len \in Nat
              /\ EndOf(i) \in Nat /\ EndOf(i) >= At[i] + Layout(walk).hdr
  <1>1. /\ Len(recs) \in Nat /\ DOMAIN recs = 1 .. Len(recs)
        /\ \A i \in 1 .. Len(recs) : recs[i] \in Record
    BY LenProperties, ElementOfSeq DEF CallOk
  <1>2. Begins(At, Len(recs), recs, walk)  BY StartsDefined DEF At, CallOk
  <1>3. /\ DOMAIN At = 1 .. Len(recs) + 1 /\ At[1] = 0
        /\ \A i \in 1 .. Len(recs) + 1 : At[i] \in Nat
    BY <1>2 DEF Begins
  <1>4. \A i, j \in 1 .. Len(recs) + 1 : i < j => At[i] + Layout(walk).hdr <= At[j]
    BY <1>2, StartsOrdered DEF CallOk
  <1>5. Layout(walk).hdr \in {4, 8} /\ HdrSize(walk) = Layout(walk).hdr
    BY DEF Layout, HdrSize
  <1>6. ASSUME NEW i \in 1 .. Len(recs)
        PROVE  /\ recs[i].len \in Nat /\ EndOf(i) \in Nat
               /\ EndOf(i) >= At[i] + Layout(walk).hdr
    <2>1. recs[i].len \in Nat /\ At[i] \in Nat  BY <1>1, <1>3 DEF Record
    <2>2. PICK h \in {4, 8} : h = Layout(walk).hdr  BY <1>5
    <2>3. EndOf(i) = At[i] + h + recs[i].len  BY <2>2 DEF EndOf
    <2> QED  BY <2>1, <2>2, <2>3
  <1> QED  BY <1>1, <1>3, <1>4, <1>5, <1>6

(* The code looks at the header of the record that starts at pos. *)
LEMMA HeaderFacts ==
  ASSUME CallOk, NEW i \in 1 .. Len(recs), pos = At[i]
  PROVE  HeaderAtPos = recs[i]
  <1> DEFINE S == {j \in DOMAIN recs : At[j] = pos}
  <1>1. S = {i}
    <2>1. ASSUME NEW j \in 1 .. Len(recs), At[j] = At[i] PROVE j = i
      <3>1. j < i => At[j] < At[i]  BY BufferFacts
      <3>2. i < j => At[i] < At[j]  BY BufferFacts
      <3>3. i \in Nat /\ j \in Nat /\ At[i] \in Nat  BY BufferFacts
      <3> QED  BY <2>1, <3>1, <3>2, <3>3
    <2> QED  BY <2>1, BufferFacts
  <1>2. HeaderAtPos = IF S = {} THEN Rec("payload", 0) ELSE recs[CHOOSE j \in S : TRUE]
    BY DEF HeaderAtPos
  <1> QED  BY <1>1, <1>2

(* Behind a whole record and its padding the next one starts: nothing      *)
(* wraps, as the record and the buffer are shorter than 2^32.              *)
LEMMA StepOver ==
  ASSUME CallOk, NEW i \in 1 .. Len(recs), EndOf(i) <= total
  PROVE  At[i + 1] = At[i] + HdrSize(walk) + Pad(recs[i].len, walk)
  <1>1. recs[i].len = recs[i].size
    <2>1. ~ (EndOf(i) > total)  BY BufferFacts DEF CallOk
    <2> QED  BY <2>1 DEF CallOk
  <1>2. At[i + 1] = At[i] + Stride(recs[i], walk)
    BY StartsDefined DEF At, Begins, CallOk
  <1>3. recs[i].size \in Nat /\ At[i] \in Nat  BY <1>1, BufferFacts
  <1>4. CASE walk \in Containers
    <2>1. /\ Layout(walk).hdr = 8 /\ Layout(walk).align = 4 /\ HdrSize(walk) = 8
      BY <1>4 DEF Layout, HdrSize
    <2>2. Stride(recs[i], walk) = 8 + ((recs[i].size + 4 - 1) \div 4) * 4
      BY <2>1 DEF Stride
    <2>3. recs[i].size + 3 < WordMod
      <3>1. At[i] + 8 + recs[i].size <= total  BY <1>1, <2>1 DEF EndOf
      <3>2. total \in Nat /\ total < WordMod /\ WordMod \in Nat
        BY SizeAssumption DEF CallOk
      <3> QED  BY <1>3, <3>1, <3>2
    <2>4. (recs[i].size + 3) % WordMod = recs[i].size + 3
      <3>1. recs[i].size + 3 \in Nat /\ WordMod \in Nat  BY <1>3, SizeAssumption
      <3> QED  BY <2>3, <3>1, ModOfSmaller
    <2>5. Pad(recs[i].len, walk) = ((recs[i].size + 3) \div 4) * 4
      BY <1>1, <1>4, <2>4 DEF Pad
    <2>6. recs[i].size + 4 - 1 = recs[i].size + 3  BY <1>3
    <2> QED  BY <1>2, <1>3, <2>1, <2>2, <2>5, <2>6
  <1>5. CASE walk \notin Containers
    <2>1. Layout(walk).hdr = 4 /\ Layout(walk).align = 1 /\ HdrSize(walk) = 4
      BY <1>5 DEF Layout, HdrSize
    <2>2. Stride(recs[i], walk) = 4 + ((recs[i].size + 1 - 1) \div 1) * 1
      BY <2>1 DEF Stride
    <2>3. Pad(recs[i].len, walk) = recs[i].size  BY <1>1, <1>5 DEF Pad
    <2>4. ((recs[i].size + 1 - 1) \div 1) * 1 = recs[i].size  BY <1>3
    <2>5. PICK a \in Nat, s \in Nat : a = At[i] /\ s = recs[i].size  BY <1>3
    <2>6. At[i + 1] = a + (4 + s)  BY <1>2, <2>2, <2>4, <2>5
    <2>7. At[i] + HdrSize(walk) + Pad(recs[i].len, walk) = a + 4 + s
      BY <2>1, <2>3, <2>5
    <2> QED  BY <2>5, <2>6, <2>7
  <1> QED  BY <1>4, <1>5

-----------------------------------------------------------------------------
(* What a walk over the first n records has to know.  Known: the records   *)
(* of a tag it remembers.  OurName: the nearest name is the card's.        *)
Known(t, n) == {i \in 1 .. n : recs[i].tag = t /\ Kept(recs[i])}
Remembers(n) ==
  \A t \in Tags : tb[t] = IF Known(t, n) = {} THEN NoSlice ELSE Slice(Max(Known(t, n)))

Names(n) == {j \in 1 .. n : recs[j].tag = "name"}
OurName(n) == Names(n) # {} /\ recs[Max(Names(n))].holds = "mine"
Looking(n) ==
  /\ nameMatch = OurName(n)
  /\ \A i \in 1 .. n : ~ (recs[i].tag = "data" /\ OurName(i - 1))

(* The credits each record gives; those of the first n have been added. *)
Gains == [i \in DOMAIN recs |-> Granted(recs[i])]
Counted(n) == fWmiCredits = SumTo(Gains, n)

(* The loop is left for good behind the first n records. *)
Done(n) ==
  /\ n < Len(recs) => EndOf(n + 1) > total
  /\ walk = "fw" => ~ Torn
  /\ walk \in {"svc", "rdy"} => ~ Torn /\ total = At[n + 1]

(* The first n records are whole and have been used. *)
Cursor(n) ==
  /\ \A j \in 1 .. n : EndOf(j) <= total
  /\ walk \in {"fw", "svc", "rdy"} => Remembers(n)
  /\ walk = "board" => Looking(n)
  /\ walk = "credit" => Counted(n)
  /\ status = "walking" => pos = At[n + 1]
  /\ status = "ended" => Done(n)

(* TlvRight without its restriction: of several arrays the last counts. *)
TlvLast ==
  walk \in {"svc", "rdy"} /\ Result =>
    (status = "ok") =
      /\ ~Torn /\ \E i \in DOMAIN At : total = At[i]
      /\ LastOf("event").len >= IF walk = "svc" THEN SvcEvSize ELSE RdyEvSize
      /\ walk = "svc" => LastOf("array").len >= 4 /\ LastOf("array").len % 4 = 0

WalkInv ==
  /\ CallOk /\ pos \in Nat /\ pos <= total /\ nameMatch \in BOOLEAN
  /\ tb \in [Tags -> [at : Int, len : Int]]
  /\ status \in {"walking", "ended", "ok", "bad"}
  /\ status \in {"walking", "ended"} => \E n \in 0 .. Len(recs) : Cursor(n)
  /\ FwRight /\ BoardRight /\ TlvLast /\ CreditsRight

(* No step changes the call, nor what follows from it. *)
LEMMA CallFixed ==
  ASSUME UNCHANGED call
  PROVE  /\ walk' = walk /\ recs' = recs /\ total' = total /\ At' = At
         /\ CallOk' = CallOk /\ Torn' = Torn /\ Whole' = Whole /\ OurData' = OurData
         /\ \A i : EndOf(i)' = EndOf(i) /\ Slice(i)' = Slice(i) /\ Done(i)' = Done(i)
         /\ \A t, i : Known(t, i)' = Known(t, i) /\ Kept(t)' = Kept(t)
         /\ \A i : Names(i)' = Names(i) /\ OurName(i)' = OurName(i)
         /\ (\A t : LastOf(t)' = LastOf(t)) /\ Gains' = Gains
  <1>1. walk' = walk /\ recs' = recs /\ total' = total  BY DEF call
  <1>2. At' = At  BY <1>1 DEF At, Starts, Stride, Layout
  <1>3. \A i : EndOf(i)' = EndOf(i) /\ Slice(i)' = Slice(i)
    BY <1>1, <1>2 DEF EndOf, Slice, Layout
  <1>4. Torn' = Torn /\ Whole' = Whole  BY <1>1, <1>2, <1>3 DEF Torn, Whole, Layout, EndOf
  <1>5. \A t, i : Known(t, i)' = Known(t, i) /\ Kept(t)' = Kept(t)
    BY <1>1 DEF Known, Kept
  <1>6. \A i : Names(i)' = Names(i) /\ OurName(i)' = OurName(i)
    BY <1>1 DEF Names, OurName, Max
  <1>7. OurData' = OurData  BY <1>1, <1>4 DEF OurData, Max
  <1>8. ASSUME NEW t PROVE LastOf(t)' = LastOf(t)
    <2>1. PICK S : S = {i \in Whole : recs[i].tag = t}  OBVIOUS
    <2>2. LastOf(t) = IF S = {} THEN NoSlice ELSE Slice(Max(S))  BY <2>1 DEF LastOf
    <2>3. S = {i \in Whole' : recs'[i].tag = t}  BY <1>1, <1>4, <2>1
    <2>4. LastOf(t)' = IF S = {} THEN NoSlice
                       ELSE [at |-> At'[Max(S)] + Layout(walk').hdr, len |-> recs'[Max(S)].len]
      BY <2>3 DEF LastOf, Slice
    <2> QED  BY <1>1, <1>2, <2>2, <2>4 DEF Slice
  <1>9. CallOk' = CallOk  BY <1>1, <1>2, <1>3 DEF CallOk, EndOf, Layout
  <1>10. \A i : Done(i)' = Done(i)  BY <1>1, <1>2, <1>3, <1>4 DEF Done, EndOf, Layout
  <1>11. Gains' = Gains  BY <1>1 DEF Gains
  <1> QED  BY <1>1, <1>2, <1>3, <1>4, <1>5, <1>6, <1>7, <1>8, <1>9, <1>10, <1>11

(* Every record gives a number of credits. *)
LEMMA GainsAreNumbers ==
  ASSUME CallOk, walk = "credit", NEW i \in 1 .. Len(recs)
  PROVE  Gains[i] = Granted(recs[i]) /\ Gains[i] \in Nat
  <1>1. Gains[i] = Granted(recs[i]) /\ recs[i] \in Record  BY BufferFacts DEF Gains
  <1>2. CASE recs[i].tag # "credits"  BY <1>1, <1>2 DEF Granted
  <1>3. CASE recs[i].tag = "credits"
    <2>1. PICK g \in Seq(Nat) : g = recs[i].grants  BY <1>1 DEF Record
    <2>2. PICK e \in Nat : e = Entries(recs[i])
      <3>1. recs[i].len \in Nat  BY <1>1 DEF Record
      <3> QED  BY <3>1 DEF Entries
    <2>3. e <= Len(g) /\ Len(g) \in Nat  BY <1>3, <2>1, <2>2, LenProperties DEF CallOk, Entries
    <2>4. \A k \in 1 .. e : g[k] \in Nat
      <3>1. \A k \in 1 .. e : k \in 1 .. Len(g)  BY <2>3
      <3> QED  BY <3>1, ElementOfSeq
    <2>5. SumTo(g, e) \in Nat  BY <2>4, SumDefined
    <2> QED  BY <1>1, <1>3, <2>1, <2>2, <2>5 DEF Granted
  <1> QED  BY <1>2, <1>3

(* A record that the walk looks at is one of the list. *)
LEMMA AtRecord ==
  ASSUME CallOk, NEW n \in 0 .. Len(recs), pos = At[n + 1], Walking
  PROVE  /\ n + 1 \in 1 .. Len(recs) /\ HeaderAtPos = recs[n + 1]
         /\ Fits(HeaderAtPos.len) <=> EndOf(n + 1) <= total
  <1>1. HdrNeed(walk) \in {2, 4, 8}  BY DEF HdrNeed
  <1>2. pos \in Nat /\ total \in Nat /\ pos < total /\ total <= At[Len(recs) + 1]
    <2>1. pos \in Nat /\ total \in Nat /\ total <= At[Len(recs) + 1]
      BY BufferFacts DEF CallOk
    <2> QED  BY <1>1, <2>1 DEF Walking, Rest
  <1>3. n + 1 \in 1 .. Len(recs)
    <2>1. Len(recs) \in Nat  BY BufferFacts
    <2>2. n # Len(recs)  BY <1>2, <2>1
    <2> QED  BY <2>1, <2>2
  <1>4. HeaderAtPos = recs[n + 1]  BY <1>3, HeaderFacts
  <1>5. Body + HeaderAtPos.len = EndOf(n + 1)
    <2>1. HdrSize(walk) = Layout(walk).hdr  BY BufferFacts
    <2> QED  BY <1>4, <2>1 DEF Body, EndOf
  <1> QED  BY <1>3, <1>4, <1>5 DEF Fits

(* The records that lie in the buffer are the first n. *)
LEMMA WholeIs ==
  ASSUME CallOk, NEW n \in 0 .. Len(recs),
         \A j \in 1 .. n : EndOf(j) <= total,
         n < Len(recs) => EndOf(n + 1) > total
  PROVE  Whole = 1 .. n
  <1>1. Len(recs) \in Nat /\ DOMAIN recs = 1 .. Len(recs)  BY BufferFacts
  <1>2. ASSUME NEW i \in 1 .. n PROVE i \in Whole
    <2>1. i \in DOMAIN recs /\ \A j \in 1 .. i : j \in 1 .. n  BY <1>1
    <2> QED  BY <2>1 DEF Whole
  <1>3. ASSUME NEW i \in Whole PROVE i \in 1 .. n
    <2>1. i \in 1 .. Len(recs) /\ \A j \in 1 .. i : EndOf(j) <= total
      BY <1>1 DEF Whole
    <2>2. SUFFICES ASSUME i > n PROVE FALSE  BY <1>1, <2>1
    <2>3. n + 1 \in 1 .. i /\ n < Len(recs)  BY <1>1, <2>1, <2>2
    <2>4. EndOf(n + 1) <= total /\ EndOf(n + 1) > total  BY <2>1, <2>3
    <2>5. n + 1 \in 1 .. Len(recs)  BY <1>1, <2>3
    <2>6. EndOf(n + 1) \in Nat /\ total \in Nat  BY <2>5, BufferFacts DEF CallOk
    <2> QED  BY <2>4, <2>6
  <1> QED  BY <1>2, <1>3

(* The next header is cut off: no record is torn. *)
LEMMA NotTorn ==
  ASSUME CallOk, NEW n \in 0 .. Len(recs),
         \A j \in 1 .. n : EndOf(j) <= total,
         n < Len(recs) => At[n + 1] + Layout(walk).hdr > total
  PROVE  ~ Torn
  <1> SUFFICES ASSUME NEW i \in 1 .. Len(recs),
                      At[i] + Layout(walk).hdr <= total, EndOf(i) > total
               PROVE  FALSE
    BY BufferFacts DEF Torn
  <1>1. Len(recs) \in Nat /\ total \in Nat /\ EndOf(i) \in Nat /\ At[i] \in Nat
    BY BufferFacts DEF CallOk
  <1>2. i > n
    <2>1. i \notin 1 .. n  BY <1>1
    <2> QED  BY <1>1, <2>1
  <1>3. n + 1 \in 1 .. Len(recs) /\ i \in 1 .. Len(recs) + 1 /\ n + 1 \in 1 .. Len(recs) + 1
    BY <1>1, <1>2
  <1>4. PICK h \in {4, 8} : h = Layout(walk).hdr  BY BufferFacts
  <1>5. At[n + 1] \in Nat /\ At[n + 1] + h > total  BY <1>1, <1>3, <1>4, BufferFacts
  <1>6. n + 1 < i => At[n + 1] + h <= At[i]  BY <1>3, <1>4, BufferFacts
  <1>7. PICK a \in Nat, b \in Nat : a = At[n + 1] /\ b = At[i]  BY <1>1, <1>5
  <1>8. b + h <= total /\ a + h > total /\ (n + 1 < i => a + h <= b)
    BY <1>4, <1>5, <1>6, <1>7
  <1>9. n + 1 = i => a = b  BY <1>7
  <1>10. b >= a
    <2>1. CASE n + 1 < i  BY <1>4, <1>7, <1>8, <2>1
    <2>2. CASE n + 1 = i  BY <1>7, <1>9, <2>2
    <2> QED  BY <1>2, <2>1, <2>2
  <1> QED  BY <1>1, <1>4, <1>7, <1>8, <1>10

(* A record whose header is there and whose body is not is torn. *)
LEMMA IsTorn ==
  ASSUME CallOk, NEW n \in 0 .. Len(recs), pos = At[n + 1], Walking,
         walk # "credit", ~ Fits(HeaderAtPos.len)
  PROVE  Torn
  <1>1. n + 1 \in 1 .. Len(recs) /\ ~ (EndOf(n + 1) <= total)  BY AtRecord
  <1>2. EndOf(n + 1) \in Nat /\ total \in Nat /\ At[n + 1] \in Nat
    BY <1>1, BufferFacts DEF CallOk
  <1>3. HdrNeed(walk) = Layout(walk).hdr  BY DEF HdrNeed, Layout
  <1>4. PICK h \in {4, 8} : h = Layout(walk).hdr  BY BufferFacts
  <1>5. total - pos >= h  BY <1>3, <1>4 DEF Walking, Rest
  <1>6. At[n + 1] + h <= total /\ EndOf(n + 1) > total  BY <1>1, <1>2, <1>4, <1>5
  <1> QED  BY <1>1, <1>4, <1>6, BufferFacts DEF Torn

(* Behind a whole record the walk is at the next, or the padding is cut.   *)
LEMMA AdvanceStep ==
  ASSUME CallOk, NEW n \in 0 .. Len(recs), pos = At[n + 1], Walking,
         Fits(HeaderAtPos.len), Advance
  PROVE  /\ EndOf(n + 1) <= total
         /\ \/ /\ status' = "walking" /\ pos' = At[(n + 1) + 1] /\ pos' \in Nat /\ pos' <= total
            \/ /\ status' = "ended" /\ pos' = pos /\ At[(n + 1) + 1] > total
               /\ walk \in Containers
  <1>1. /\ n + 1 \in 1 .. Len(recs) /\ HeaderAtPos = recs[n + 1] /\ EndOf(n + 1) <= total
    BY AtRecord
  <1>2. At[(n + 1) + 1] = At[n + 1] + HdrSize(walk) + Pad(recs[n + 1].len, walk)
    BY <1>1, StepOver
  <1>3. PICK pad : pad = Pad(recs[n + 1].len, walk)  OBVIOUS
  <1>4. PICK h \in {4, 8} : h = Layout(walk).hdr /\ h = HdrSize(walk)  BY BufferFacts
  <1>5. /\ At[n + 1] \in Nat /\ total \in Nat /\ At[(n + 1) + 1] \in Nat
        /\ recs[n + 1].len \in Nat
    <2>1. (n + 1) \in 1 .. Len(recs) + 1 /\ (n + 1) + 1 \in 1 .. Len(recs) + 1
      BY <1>1, BufferFacts
    <2> QED  BY <1>1, <2>1, BufferFacts DEF CallOk
  <1>6. pad \in Int
    <2>1. WordMod \in Nat /\ WordMod > 0  BY <1>5, SizeAssumption DEF CallOk
    <2>2. CASE walk \in Containers
      <3>1. PICK x \in Int : x = (recs[n + 1].len + 3) % WordMod  BY <1>5, <2>1
      <3>2. pad = (x \div 4) * 4  BY <1>3, <2>2, <3>1 DEF Pad
      <3> QED  BY <3>1, <3>2
    <2>3. CASE walk \notin Containers  BY <1>3, <1>5, <2>3 DEF Pad
    <2> QED  BY <2>2, <2>3
  <1>7. Body = At[n + 1] + h  BY <1>4 DEF Body
  <1>8. At[(n + 1) + 1] = At[n + 1] + h + pad  BY <1>2, <1>3, <1>4
  <1>9. status = "walking"  BY DEF Walking
  <1>10. IF pad > total - Body
         THEN status' = "ended" /\ UNCHANGED pos
         ELSE pos' = Body + pad /\ UNCHANGED status
    BY <1>1, <1>3 DEF Advance
  <1>11. CASE pad > total - Body
    <2>1. At[(n + 1) + 1] > total  BY <1>4, <1>5, <1>6, <1>7, <1>8, <1>11
    <2>2. walk \in Containers
      <3> SUFFICES ASSUME walk \notin Containers PROVE FALSE  OBVIOUS
      <3>1. pad = recs[n + 1].len  BY <1>3 DEF Pad
      <3>2. At[n + 1] + h + recs[n + 1].len <= total  BY <1>1, <1>4 DEF EndOf
      <3> QED  BY <1>4, <1>5, <1>7, <1>11, <3>1, <3>2
    <2> QED  BY <1>1, <1>10, <1>11, <2>1, <2>2
  <1>12. CASE ~ (pad > total - Body)
    <2>1. pos' = At[(n + 1) + 1] /\ status' = "walking"
      BY <1>7, <1>8, <1>9, <1>10, <1>12
    <2>2. At[(n + 1) + 1] <= total  BY <1>4, <1>5, <1>6, <1>7, <1>8, <1>12
    <2> QED  BY <1>1, <1>5, <2>1, <2>2
  <1> QED  BY <1>11, <1>12

(* The last record of each tag, after one more. *)
LEMMA RememberStep ==
  ASSUME CallOk, NEW n \in Nat, n + 1 \in 1 .. Len(recs), UNCHANGED call,
         tb \in [Tags -> [at : Int, len : Int]], Remembers(n),
         tb' = IF Kept(recs[n + 1])
               THEN [tb EXCEPT ![recs[n + 1].tag] = Slice(n + 1)]
               ELSE tb
  PROVE  Remembers(n + 1)' /\ tb' \in [Tags -> [at : Int, len : Int]]
  <1>1. Slice(n + 1) \in [at : Int, len : Int]
    <2>1. At[n + 1] \in Nat /\ recs[n + 1].len \in Nat  BY BufferFacts
    <2>2. PICK h \in {4, 8} : h = Layout(walk).hdr  BY BufferFacts
    <2>3. Slice(n + 1) = [at |-> At[n + 1] + h, len |-> recs[n + 1].len]
      BY <2>2 DEF Slice
    <2> QED  BY <2>1, <2>2, <2>3
  <1>2. tb' \in [Tags -> [at : Int, len : Int]]  BY <1>1
  <1>3. ASSUME NEW t \in Tags
        PROVE  tb'[t] = IF Known(t, n + 1) = {} THEN NoSlice ELSE Slice(Max(Known(t, n + 1)))
    <2>1. Known(t, n) \in SUBSET (1 .. n)  BY DEF Known
    <2>2. CASE recs[n + 1].tag = t /\ Kept(recs[n + 1])
      <3>1. Known(t, n + 1) = Known(t, n) \cup {n + 1}  BY <2>2 DEF Known
      <3>2. Max(Known(t, n + 1)) = n + 1  BY <2>1, <3>1, MaxWithGreater
      <3>3. tb'[t] = Slice(n + 1)  BY <2>2
      <3> QED  BY <3>1, <3>2, <3>3
    <2>3. CASE ~ (recs[n + 1].tag = t /\ Kept(recs[n + 1]))
      <3>1. Known(t, n + 1) = Known(t, n)
        <4>1. 1 .. n + 1 = (1 .. n) \cup {n + 1}  OBVIOUS
        <4> QED  BY <2>3, <4>1 DEF Known
      <3>2. tb'[t] = tb[t]  BY <2>3
      <3> QED  BY <3>1, <3>2 DEF Remembers
    <2> QED  BY <2>2, <2>3
  <1>4. ASSUME NEW t \in Tags
        PROVE  tb'[t] = IF Known(t, n + 1)' = {} THEN NoSlice ELSE Slice(Max(Known(t, n + 1)))'
    <2>1. Known(t, n + 1)' = Known(t, n + 1)  BY CallFixed
    <2>2. Slice(Max(Known(t, n + 1)))' = Slice(Max(Known(t, n + 1)))
      BY <2>1, CallFixed DEF Slice, Max, Layout
    <2> QED  BY <1>3, <2>1, <2>2
  <1> QED  BY <1>2, <1>4 DEF Remembers

(* Whether the nearest name is ours, after one more record. *)
LEMMA LookStep ==
  ASSUME CallOk, NEW n \in Nat, n + 1 \in 1 .. Len(recs), UNCHANGED call,
         Looking(n), nameMatch' = NameMatch(recs[n + 1]),
         ~ (recs[n + 1].tag = "data" /\ nameMatch)
  PROVE  Looking(n + 1)'
  <1>1. Names(n) \in SUBSET (1 .. n) /\ 1 .. n + 1 = (1 .. n) \cup {n + 1}  BY DEF Names
  <1>2. nameMatch' = OurName(n + 1)
    <2>1. CASE recs[n + 1].tag = "name"
      <3>1. Names(n + 1) = Names(n) \cup {n + 1}  BY <1>1, <2>1 DEF Names
      <3>2. Max(Names(n + 1)) = n + 1  BY <1>1, <3>1, MaxWithGreater
      <3> QED  BY <2>1, <3>1, <3>2 DEF OurName, NameMatch
    <2>2. CASE recs[n + 1].tag # "name"
      <3>1. Names(n + 1) = Names(n)  BY <1>1, <2>2 DEF Names
      <3> QED  BY <2>2, <3>1 DEF OurName, NameMatch, Looking
    <2> QED  BY <2>1, <2>2
  <1>3. ASSUME NEW i \in 1 .. n + 1
        PROVE  ~ (recs[i].tag = "data" /\ OurName(i - 1))
    <2>1. CASE i = n + 1
      <3>1. i - 1 = n  BY <2>1
      <3> QED  BY <2>1, <3>1 DEF Looking
    <2>2. CASE i # n + 1
      <3>1. i \in 1 .. n  BY <2>2
      <3> QED  BY <3>1 DEF Looking
    <2> QED  BY <2>1, <2>2
  <1>4. /\ recs' = recs /\ OurName(n + 1)' = OurName(n + 1)
        /\ \A i : OurName(i - 1)' = OurName(i - 1)
    BY CallFixed
  <1> QED  BY <1>2, <1>3, <1>4 DEF Looking

(* Past the loop, what is remembered is the last whole record of a tag. *)
LEMMA LastOfKnown ==
  ASSUME NEW n, Whole = 1 .. n, Remembers(n), NEW t \in Tags, t # "version"
  PROVE  tb[t] = LastOf(t)
  <1>1. {i \in Whole : recs[i].tag = t} = Known(t, n)  BY DEF Known, Kept
  <1> QED  BY <1>1 DEF LastOf, Remembers

(* The board data under the card's name, as selectBoard sees it. *)
LEMMA OurDataIs == OurData = {i \in Whole : recs[i].tag = "data" /\ OurName(i - 1)}
  BY DEF OurData, OurName, Names

-----------------------------------------------------------------------------
(* The invariant after a step that leaves the walk without a result. *)
LEMMA GoesOn ==
  ASSUME WalkInv, UNCHANGED call, NEW m \in 0 .. Len(recs),
         pos' \in Nat, pos' <= total, nameMatch' \in BOOLEAN,
         tb' \in [Tags -> [at : Int, len : Int]], status' \in {"walking", "ended"},
         \A j \in 1 .. m : EndOf(j) <= total,
         walk \in {"fw", "svc", "rdy"} => Remembers(m)',
         walk = "board" => Looking(m)', walk = "credit" => Counted(m)',
         status' = "walking" => pos' = At[m + 1],
         status' = "ended" => Done(m)
  PROVE  WalkInv'
  <1>1. /\ walk' = walk /\ recs' = recs /\ total' = total /\ At' = At /\ CallOk'
        /\ Done(m)' = Done(m)
    BY CallFixed DEF WalkInv
  <1>2. \A j \in 1 .. m : EndOf(j)' <= total'  BY <1>1, CallFixed
  <1>3. Cursor(m)'  BY <1>1, <1>2 DEF Cursor
  <1>4. \E n \in 0 .. Len(recs') : Cursor(n)'  BY <1>1, <1>3
  <1>5. ~ Result'  BY DEF Result
  <1>6. FwRight' /\ BoardRight' /\ TlvLast' /\ CreditsRight'
    BY <1>5 DEF FwRight, BoardRight, TlvLast, CreditsRight
  <1>7. pos' <= total'  BY <1>1
  <1> QED  BY <1>1, <1>4, <1>6, <1>7 DEF WalkInv

(* The invariant after a step that gives the walk its result. *)
LEMMA HasResult ==
  ASSUME WalkInv, UNCHANGED <<call, pos, tb, nameMatch>>, status' \in {"ok", "bad"},
         FwRight', BoardRight', TlvLast', CreditsRight'
  PROVE  WalkInv'
  <1>1. /\ UNCHANGED call /\ pos' = pos /\ tb' = tb /\ nameMatch' = nameMatch
    OBVIOUS
  <1>2. total' = total /\ CallOk'  BY <1>1, CallFixed DEF WalkInv
  <1> QED  BY <1>1, <1>2 DEF WalkInv

(* What a walk that is under way knows. *)
LEMMA UnderWay ==
  ASSUME WalkInv, status \in {"walking", "ended"}
  PROVE  /\ CallOk /\ pos \in Nat /\ total \in Nat /\ Len(recs) \in Nat /\ pos <= total
         /\ nameMatch \in BOOLEAN /\ tb \in [Tags -> [at : Int, len : Int]]
         /\ \E n \in 0 .. Len(recs) : Cursor(n)
  BY BufferFacts DEF WalkInv, CallOk

(* Too few bytes for a header: nothing is torn, all whole records were used. *)
LEMMA WalkOutStep == ASSUME WalkInv, WalkOut PROVE WalkInv'
  <1>1. /\ status = "walking" /\ Rest < HdrNeed(walk)
        /\ status' = IF walk \in {"svc", "rdy"} /\ Rest > 0 THEN "bad" ELSE "ended"
        /\ UNCHANGED <<call, pos, tb, nameMatch>> /\ fWmiCredits' = fWmiCredits
    BY DEF WalkOut
  <1>2. /\ CallOk /\ pos \in Nat /\ total \in Nat /\ Len(recs) \in Nat /\ pos <= total
        /\ nameMatch \in BOOLEAN /\ tb \in [Tags -> [at : Int, len : Int]]
    BY <1>1, UnderWay
  <1>3. PICK n \in 0 .. Len(recs) : Cursor(n)  BY <1>1, UnderWay
  <1>4. pos = At[n + 1] /\ \A j \in 1 .. n : EndOf(j) <= total  BY <1>1, <1>3 DEF Cursor
  <1>5. PICK h \in {4, 8} : h = Layout(walk).hdr  BY <1>2, BufferFacts
  <1>6. At[n + 1] + h > total
    <2>1. HdrNeed(walk) <= h /\ HdrNeed(walk) \in {2, 4, 8}  BY <1>5 DEF HdrNeed, Layout
    <2>2. PICK need \in {2, 4, 8} : need = HdrNeed(walk) /\ need <= h  BY <2>1
    <2>3. total - pos < need  BY <1>1, <2>2 DEF Rest
    <2>4. pos + h > total  BY <1>2, <1>5, <2>2, <2>3
    <2> QED  BY <1>4, <2>4
  <1>7. ~ Torn  BY <1>2, <1>4, <1>5, <1>6, NotTorn
  <1>8. CASE walk \in {"svc", "rdy"} /\ Rest > 0
    <2>1. status' = "bad" /\ h = 4  BY <1>1, <1>5, <1>8 DEF Layout, Containers
    <2>2. ASSUME NEW i \in DOMAIN At, total = At[i] PROVE FALSE
      <3>1. i \in 1 .. Len(recs) + 1 /\ n + 1 \in 1 .. Len(recs) + 1 /\ At[i] \in Nat
        BY <1>2, BufferFacts
      <3>2. i < n + 1 => At[i] + h <= At[n + 1]  BY <1>2, <1>5, <3>1, BufferFacts
      <3>3. n + 1 < i => At[n + 1] + h <= At[i]  BY <1>2, <1>5, <3>1, BufferFacts
      <3>4. At[n + 1] < total  BY <1>2, <1>4, <1>8 DEF Rest
      <3>5. At[n + 1] \in Nat  BY <1>2, <1>4
      <3> QED  BY <1>2, <1>5, <1>6, <2>2, <3>1, <3>2, <3>3, <3>4, <3>5
    <2>3. ~ \E i \in DOMAIN At' : total' = At'[i]
      <3>1. At' = At /\ total' = total  BY <1>1, CallFixed
      <3> QED  BY <2>2, <3>1
    <2>4. TlvLast'  BY <2>1, <2>3 DEF TlvLast
    <2>5. FwRight' /\ BoardRight' /\ CreditsRight'
      <3>1. walk' \notin {"fw", "board", "credit"}  BY <1>1, <1>8 DEF call
      <3> QED  BY <3>1 DEF FwRight, BoardRight, CreditsRight
    <2> QED  BY <1>1, <2>1, <2>4, <2>5, HasResult
  <1>9. CASE ~ (walk \in {"svc", "rdy"} /\ Rest > 0)
    <2>1. status' = "ended"  BY <1>1, <1>9
    <2>2. Done(n)
      <3>1. ASSUME n < Len(recs) PROVE EndOf(n + 1) > total
        <4>1. n + 1 \in 1 .. Len(recs)  BY <1>2, <3>1
        <4>2. EndOf(n + 1) \in Nat /\ EndOf(n + 1) >= At[n + 1] + h /\ At[n + 1] \in Nat
          BY <1>2, <1>5, <4>1, BufferFacts
        <4> QED  BY <1>2, <1>5, <1>6, <4>2
      <3>2. ASSUME walk \in {"svc", "rdy"} PROVE total = At[n + 1]
        <4>1. ~ (total - pos > 0)  BY <1>9, <3>2 DEF Rest
        <4> QED  BY <1>2, <1>4, <4>1
      <3> QED  BY <1>7, <3>1, <3>2 DEF Done
    <2>3. /\ walk \in {"fw", "svc", "rdy"} => Remembers(n)'
          /\ walk = "board" => Looking(n)'
          /\ walk = "credit" => Counted(n)'
      <3>1. /\ walk \in {"fw", "svc", "rdy"} => Remembers(n)
            /\ walk = "board" => Looking(n)
            /\ walk = "credit" => Counted(n)
        BY <1>3 DEF Cursor
      <3>2. Remembers(n)' = Remembers(n)
        BY <1>1, CallFixed DEF Remembers, Known, Slice, Max, Kept, Layout
      <3>3. Looking(n)' = Looking(n)  BY <1>1, CallFixed DEF Looking
      <3>4. Counted(n)' = Counted(n)  BY <1>1, CallFixed DEF Counted
      <3> QED  BY <3>1, <3>2, <3>3, <3>4
    <2> QED  BY <1>1, <1>2, <1>4, <2>1, <2>2, <2>3, GoesOn
  <1> QED  BY <1>8, <1>9

(* A record longer than the rest: it is torn, or the walk is done. *)
LEMMA OverlongStep == ASSUME WalkInv, Overlong PROVE WalkInv'
  <1>1. /\ Walking /\ ~ Fits(HeaderAtPos.len) /\ status = "walking"
        /\ status' = IF walk \in {"board", "credit"} THEN "ended" ELSE "bad"
        /\ UNCHANGED <<call, pos, tb, nameMatch>> /\ fWmiCredits' = fWmiCredits
    BY DEF Overlong, Walking
  <1>2. /\ CallOk /\ pos \in Nat /\ total \in Nat /\ Len(recs) \in Nat /\ pos <= total
        /\ nameMatch \in BOOLEAN /\ tb \in [Tags -> [at : Int, len : Int]]
    BY <1>1, UnderWay
  <1>3. PICK n \in 0 .. Len(recs) : Cursor(n)  BY <1>1, UnderWay
  <1>4. pos = At[n + 1] /\ \A j \in 1 .. n : EndOf(j) <= total  BY <1>1, <1>3 DEF Cursor
  <1>5. CASE walk \in {"board", "credit"}
    <2>1. status' = "ended"  BY <1>1, <1>5
    <2>2. Done(n)
      <3>1. n + 1 \in 1 .. Len(recs) /\ ~ (EndOf(n + 1) <= total)
        BY <1>1, <1>2, <1>4, AtRecord
      <3>2. EndOf(n + 1) \in Nat  BY <1>2, <3>1, BufferFacts
      <3> QED  BY <1>2, <1>5, <3>1, <3>2 DEF Done
    <2>3. (walk = "board" => Looking(n)') /\ (walk = "credit" => Counted(n)')
      <3>1. Looking(n)' = Looking(n)  BY <1>1, CallFixed DEF Looking
      <3>2. Counted(n)' = Counted(n)  BY <1>1, CallFixed DEF Counted
      <3> QED  BY <1>3, <3>1, <3>2 DEF Cursor
    <2> QED  BY <1>1, <1>2, <1>4, <1>5, <2>1, <2>2, <2>3, GoesOn
  <1>6. CASE walk \notin {"board", "credit"}
    <2>1. status' = "bad"  BY <1>1, <1>6
    <2>2. Torn' /\ walk' \notin {"board", "credit"}
      <3>1. Torn  BY <1>1, <1>2, <1>4, <1>6, IsTorn
      <3> QED  BY <1>1, <1>6, <3>1, CallFixed
    <2>3. FwRight' /\ BoardRight' /\ TlvLast' /\ CreditsRight'
      BY <2>1, <2>2 DEF FwRight, BoardRight, TlvLast, CreditsRight
    <2> QED  BY <1>1, <2>1, <2>3, HasResult
  <1> QED  BY <1>5, <1>6

(* A record used and stepped over: the walk is behind it, or done. *)
LEMMA Used ==
  ASSUME CallOk, NEW n \in 0 .. Len(recs), pos = At[n + 1], Walking, pos \in Nat, pos <= total,
         \A j \in 1 .. n : EndOf(j) <= total, Fits(HeaderAtPos.len), Advance
  PROVE  /\ n + 1 \in 0 .. Len(recs) /\ pos' \in Nat /\ pos' <= total
         /\ status' \in {"walking", "ended"}
         /\ \A j \in 1 .. n + 1 : EndOf(j) <= total
         /\ status' = "walking" => pos' = At[(n + 1) + 1]
         /\ status' = "ended" => Done(n + 1)
  <1>1. n + 1 \in 1 .. Len(recs) /\ Len(recs) \in Nat /\ total \in Nat
    BY AtRecord, BufferFacts DEF CallOk
  <1>2. /\ EndOf(n + 1) <= total
        /\ \/ /\ status' = "walking" /\ pos' = At[(n + 1) + 1] /\ pos' \in Nat
              /\ pos' <= total
           \/ /\ status' = "ended" /\ pos' = pos /\ At[(n + 1) + 1] > total
              /\ walk \in Containers
    BY AdvanceStep
  <1>3. \A j \in 1 .. n + 1 : EndOf(j) <= total
    <2>1. 1 .. n + 1 = (1 .. n) \cup {n + 1}  BY <1>1
    <2> QED  BY <1>2, <2>1
  <1>4. ASSUME status' = "ended" PROVE Done(n + 1)
    <2>1. At[(n + 1) + 1] > total /\ walk \in Containers  BY <1>2, <1>4
    <2>2. (n + 1) + 1 \in 1 .. Len(recs) + 1  BY <1>1
    <2>3. At[(n + 1) + 1] \in Nat  BY <2>2, BufferFacts
    <2>4. PICK h \in {4, 8} : h = Layout(walk).hdr  BY BufferFacts
    <2>5. At[(n + 1) + 1] + h > total  BY <1>1, <2>1, <2>3, <2>4
    <2>6. ~ Torn
      <3>1. n + 1 \in 0 .. Len(recs)  BY <1>1
      <3> QED  BY <1>3, <2>4, <2>5, <3>1, NotTorn
    <2>7. ASSUME n + 1 < Len(recs) PROVE EndOf((n + 1) + 1) > total
      <3>1. (n + 1) + 1 \in 1 .. Len(recs)  BY <1>1, <2>7
      <3>2. /\ EndOf((n + 1) + 1) \in Nat
            /\ EndOf((n + 1) + 1) >= At[(n + 1) + 1] + h
        BY <2>4, <3>1, BufferFacts
      <3> QED  BY <1>1, <2>3, <2>4, <2>5, <3>2
    <2>8. walk \notin {"svc", "rdy"}  BY <2>1 DEF Containers
    <2> QED  BY <2>6, <2>7, <2>8 DEF Done
  <1>5. n + 1 \in 0 .. Len(recs)  BY <1>1
  <1> QED  BY <1>2, <1>3, <1>4, <1>5

(* parseFirmware and tlvParse use one more record. *)
LEMMA UseSliceStep == ASSUME WalkInv, UseSlice PROVE WalkInv'
  <1>1. /\ walk \in {"fw", "svc", "rdy"} /\ Walking /\ Fits(HeaderAtPos.len)
        /\ status = "walking" /\ Advance /\ UNCHANGED call /\ nameMatch' = nameMatch
        /\ tb' = IF Kept(HeaderAtPos)
                 THEN [tb EXCEPT ![HeaderAtPos.tag] = [at |-> Body, len |-> HeaderAtPos.len]]
                 ELSE tb
    BY DEF UseSlice, Walking
  <1>2. /\ CallOk /\ pos \in Nat /\ total \in Nat /\ Len(recs) \in Nat /\ pos <= total
        /\ nameMatch \in BOOLEAN /\ tb \in [Tags -> [at : Int, len : Int]]
    BY <1>1, UnderWay
  <1>3. PICK n \in 0 .. Len(recs) : Cursor(n)  BY <1>1, UnderWay
  <1>4. /\ pos = At[n + 1] /\ (\A j \in 1 .. n : EndOf(j) <= total) /\ Remembers(n)
    BY <1>1, <1>3 DEF Cursor
  <1>5. n \in Nat /\ n + 1 \in 1 .. Len(recs) /\ HeaderAtPos = recs[n + 1]
    BY <1>1, <1>2, <1>4, AtRecord
  <1>6. [at |-> Body, len |-> HeaderAtPos.len] = Slice(n + 1)
    <2>1. HdrSize(walk) = Layout(walk).hdr  BY <1>2, BufferFacts
    <2> QED  BY <1>4, <1>5, <2>1 DEF Body, Slice
  <1>7. Remembers(n + 1)' /\ tb' \in [Tags -> [at : Int, len : Int]]
    <2>1. tb' = IF Kept(recs[n + 1])
                THEN [tb EXCEPT ![recs[n + 1].tag] = Slice(n + 1)]
                ELSE tb
      BY <1>1, <1>5, <1>6
    <2> QED  BY <1>1, <1>2, <1>4, <1>5, <2>1, RememberStep
  <1>8. /\ n + 1 \in 0 .. Len(recs) /\ pos' \in Nat /\ pos' <= total
        /\ status' \in {"walking", "ended"}
        /\ \A j \in 1 .. n + 1 : EndOf(j) <= total
        /\ status' = "walking" => pos' = At[(n + 1) + 1]
        /\ status' = "ended" => Done(n + 1)
    BY <1>1, <1>2, <1>4, Used
  <1>9. walk \notin {"board", "credit"} /\ nameMatch' \in BOOLEAN  BY <1>1, <1>2
  <1> QED  BY <1>1, <1>7, <1>8, <1>9, GoesOn

(* applyCreditReport uses one more record. *)
LEMMA UseCreditsStep == ASSUME WalkInv, UseCredits PROVE WalkInv'
  <1>1. /\ walk = "credit" /\ Walking /\ Fits(HeaderAtPos.len) /\ status = "walking"
        /\ Advance /\ UNCHANGED call /\ nameMatch' = nameMatch /\ tb' = tb
        /\ fWmiCredits' = fWmiCredits + Granted(HeaderAtPos)
    BY DEF UseCredits, Walking
  <1>2. /\ CallOk /\ pos \in Nat /\ total \in Nat /\ Len(recs) \in Nat /\ pos <= total
        /\ nameMatch \in BOOLEAN /\ tb \in [Tags -> [at : Int, len : Int]]
    BY <1>1, UnderWay
  <1>3. PICK n \in 0 .. Len(recs) : Cursor(n)  BY <1>1, UnderWay
  <1>4. pos = At[n + 1] /\ (\A j \in 1 .. n : EndOf(j) <= total) /\ Counted(n)
    BY <1>1, <1>3 DEF Cursor
  <1>5. /\ n + 1 \in 0 .. Len(recs) /\ pos' \in Nat /\ pos' <= total
        /\ status' \in {"walking", "ended"}
        /\ \A j \in 1 .. n + 1 : EndOf(j) <= total
        /\ status' = "walking" => pos' = At[(n + 1) + 1]
        /\ status' = "ended" => Done(n + 1)
    BY <1>1, <1>2, <1>4, Used
  <1>6. walk # "board" /\ walk \notin {"fw", "svc", "rdy"}  BY <1>1
  <1>7. Counted(n + 1)'
    <2>1. n \in Nat /\ n + 1 \in 1 .. Len(recs) /\ HeaderAtPos = recs[n + 1]
      BY <1>1, <1>2, <1>4, AtRecord
    <2>2. \A k \in 1 .. n + 1 : k \in 1 .. Len(recs)  BY <1>2, <2>1
    <2>3. \A k \in 1 .. n + 1 : Gains[k] \in Nat  BY <1>1, <1>2, <2>2, GainsAreNumbers
    <2>4. SumTo(Gains, n + 1) = SumTo(Gains, n) + Gains[n + 1]  BY <2>1, <2>3, SumNext
    <2>5. Gains[n + 1] = Granted(HeaderAtPos)  BY <1>1, <1>2, <2>1, GainsAreNumbers
    <2>6. fWmiCredits' = SumTo(Gains, n + 1)  BY <1>1, <1>4, <2>4, <2>5 DEF Counted
    <2>7. Gains' = Gains  BY <1>1, CallFixed
    <2> QED  BY <2>6, <2>7 DEF Counted
  <1> QED  BY <1>1, <1>2, <1>5, <1>6, <1>7, GoesOn

(* selectBoard uses one more record, or finds the board data. *)
LEMMA UseBoardIeStep == ASSUME WalkInv, UseBoardIe PROVE WalkInv'
  <1>1. /\ walk = "board" /\ Walking /\ Fits(HeaderAtPos.len) /\ status = "walking"
        /\ UNCHANGED call /\ tb' = tb
        /\ IF HeaderAtPos.tag = "data" /\ nameMatch
           THEN /\ found' = [at |-> Body, len |-> HeaderAtPos.len]
                /\ status' = "ok" /\ UNCHANGED <<pos, nameMatch>>
           ELSE nameMatch' = NameMatch(HeaderAtPos) /\ Advance
    BY DEF UseBoardIe, Walking
  <1>2. /\ CallOk /\ pos \in Nat /\ total \in Nat /\ Len(recs) \in Nat /\ pos <= total
        /\ nameMatch \in BOOLEAN /\ tb \in [Tags -> [at : Int, len : Int]]
    BY <1>1, UnderWay
  <1>3. PICK n \in 0 .. Len(recs) : Cursor(n)  BY <1>1, UnderWay
  <1>4. pos = At[n + 1] /\ (\A j \in 1 .. n : EndOf(j) <= total) /\ Looking(n)
    BY <1>1, <1>3 DEF Cursor
  <1>5. /\ n \in Nat /\ n + 1 \in 1 .. Len(recs) /\ HeaderAtPos = recs[n + 1]
        /\ EndOf(n + 1) <= total
    BY <1>1, <1>2, <1>4, AtRecord
  <1>6. CASE HeaderAtPos.tag = "data" /\ nameMatch
    <2>1. /\ found' = [at |-> Body, len |-> HeaderAtPos.len] /\ status' = "ok"
          /\ pos' = pos /\ nameMatch' = nameMatch
      BY <1>1, <1>6
    <2>2. found' = Slice(n + 1)
      <3>1. HdrSize(walk) = Layout(walk).hdr  BY <1>2, BufferFacts
      <3> QED  BY <1>4, <1>5, <2>1, <3>1 DEF Body, Slice
    <2>3. n + 1 \in OurData
      <3>1. n + 1 \in Whole
        <4>1. 1 .. n + 1 = (1 .. n) \cup {n + 1} /\ n + 1 \in DOMAIN recs
          BY <1>2, <1>5, BufferFacts
        <4> QED  BY <1>4, <1>5, <4>1 DEF Whole
      <3>2. (n + 1) - 1 = n /\ OurName(n)  BY <1>4, <1>5, <1>6 DEF Looking
      <3> QED  BY <1>5, <1>6, <3>1, <3>2, OurDataIs
    <2>4. \A i \in OurData : n + 1 <= i
      <3> SUFFICES ASSUME NEW i \in OurData, ~ (n + 1 <= i) PROVE FALSE  OBVIOUS
      <3>1. i \in 1 .. Len(recs) /\ recs[i].tag = "data" /\ OurName(i - 1)
        BY <1>2, OurDataIs, BufferFacts DEF Whole
      <3>2. i \in 1 .. n  BY <1>5, <3>1
      <3> QED  BY <1>4, <3>1, <3>2 DEF Looking
    <2>5. Min(OurData) = n + 1
      <3>1. OurData \in SUBSET Nat  BY <1>2, OurDataIs, BufferFacts DEF Whole
      <3>2. Min(OurData) \in OurData /\ Min(OurData) <= n + 1  BY <2>3, <3>1, MinOfNats
      <3>3. n + 1 <= Min(OurData) /\ Min(OurData) \in Nat  BY <2>4, <3>1, <3>2
      <3> QED  BY <1>5, <3>2, <3>3
    <2>6. BoardRight'
      <3>1. OurData' = OurData  BY <1>1, CallFixed
      <3>2. Slice(n + 1)' = Slice(n + 1)  BY <1>1, CallFixed
      <3>3. Min(OurData') = n + 1  BY <2>5, <3>1
      <3>4. found' = Slice(Min(OurData))'  BY <2>2, <3>2, <3>3 DEF Slice, Min
      <3>5. OurData' # {}  BY <2>3, <3>1
      <3> QED  BY <2>1, <3>4, <3>5 DEF BoardRight
    <2>7. FwRight' /\ TlvLast' /\ CreditsRight'
      <3>1. walk' = "board"  BY <1>1, CallFixed
      <3> QED  BY <3>1 DEF FwRight, TlvLast, CreditsRight
    <2> QED  BY <1>1, <2>1, <2>6, <2>7, HasResult
  <1>7. CASE ~ (HeaderAtPos.tag = "data" /\ nameMatch)
    <2>1. nameMatch' = NameMatch(HeaderAtPos) /\ Advance  BY <1>1, <1>7
    <2>2. Looking(n + 1)'  BY <1>1, <1>2, <1>4, <1>5, <1>7, <2>1, LookStep
    <2>3. nameMatch' \in BOOLEAN  BY <1>2, <2>1 DEF NameMatch
    <2>4. /\ n + 1 \in 0 .. Len(recs) /\ pos' \in Nat /\ pos' <= total
          /\ status' \in {"walking", "ended"}
          /\ \A j \in 1 .. n + 1 : EndOf(j) <= total
          /\ status' = "walking" => pos' = At[(n + 1) + 1]
          /\ status' = "ended" => Done(n + 1)
      BY <1>1, <1>2, <1>4, <2>1, Used
    <2>5. walk \notin {"fw", "svc", "rdy", "credit"}  BY <1>1
    <2> QED  BY <1>1, <1>2, <2>2, <2>3, <2>4, <2>5, GoesOn
  <1> QED  BY <1>6, <1>7

(* The result is what the reference says of the records in the buffer. *)
LEMMA JudgeStep == ASSUME WalkInv, Judge PROVE WalkInv'
  <1>1. /\ status = "ended" /\ status' = IF Verdict THEN "ok" ELSE "bad"
        /\ UNCHANGED <<call, pos, tb, nameMatch>> /\ UNCHANGED call /\ tb' = tb
        /\ fWmiCredits' = fWmiCredits
    BY DEF Judge
  <1>2. CallOk /\ Len(recs) \in Nat  BY <1>1, UnderWay
  <1>3. PICK n \in 0 .. Len(recs) : Cursor(n)  BY <1>1, UnderWay
  <1>4. Done(n) /\ \A j \in 1 .. n : EndOf(j) <= total  BY <1>1, <1>3 DEF Cursor
  <1>5. Whole = 1 .. n  BY <1>2, <1>4, WholeIs DEF Done
  <1>6. status' \in {"ok", "bad"} /\ (status' = "ok" <=> Verdict)  BY <1>1
  <1>7. /\ walk' = walk /\ Torn' = Torn /\ Whole' = Whole /\ OurData' = OurData
        /\ At' = At /\ total' = total /\ recs' = recs
        /\ LastOf("image")' = LastOf("image") /\ LastOf("otp")' = LastOf("otp")
        /\ LastOf("event")' = LastOf("event") /\ LastOf("array")' = LastOf("array")
    BY <1>1, CallFixed
  <1>8. FwRight'
    <2> SUFFICES ASSUME walk = "fw" PROVE FwRight'  BY <1>7 DEF FwRight
    <2>1. Remembers(n) /\ ~ Torn  BY <1>3, <1>4 DEF Cursor, Done
    <2>2. tb["image"] = LastOf("image") /\ tb["otp"] = LastOf("otp")
      BY <1>5, <2>1, LastOfKnown DEF Tags
    <2>3. Verdict <=> LastOf("image").len > 0  BY <2>2 DEF Verdict
    <2> DEFINE S == {i \in Whole : recs[i].tag = "version" /\ recs[i].len + 1 < VersionSize}
    <2>4. S = Known("version", n)
      <3>1. VersionSize \in Nat  BY SizeAssumption
      <3>2. \A i \in 1 .. n : recs[i].len \in Nat
        <4>1. \A i \in 1 .. n : i \in 1 .. Len(recs)  BY <1>2
        <4> QED  BY <1>2, <4>1, BufferFacts
      <3>3. \A i \in 1 .. n : recs[i].len + 1 < VersionSize <=> recs[i].len < VersionSize - 1
        BY <3>1, <3>2
      <3> QED  BY <1>5, <3>3 DEF Known, Kept, Tags
    <2>5. tb["version"] = IF S = {} THEN NoSlice ELSE Slice(Max(S))
      <3>1. "version" \in Tags  BY DEF Tags
      <3> HIDE DEF S
      <3> QED  BY <2>1, <2>4, <3>1 DEF Remembers
    <2>6. tb["version"] = (IF S = {} THEN NoSlice ELSE Slice(Max(S)))'
      BY <1>7, <2>5 DEF Slice, Max, Layout
    <2>7. tb'["version"] =
            (LET V == {i \in Whole : recs[i].tag = "version" /\ recs[i].len + 1 < VersionSize}
             IN IF V = {} THEN NoSlice ELSE Slice(Max(V)))'
      BY <1>1, <2>6, Zenon
    <2>8. /\ (status' = "ok") = (~ Torn' /\ (LastOf("image").len > 0)')
          /\ tb'["image"] = LastOf("image")' /\ tb'["otp"] = LastOf("otp")'
      BY <1>1, <1>6, <1>7, <2>1, <2>2, <2>3
    <2> QED  BY <2>7, <2>8 DEF FwRight
  <1>9. BoardRight'
    <2> SUFFICES ASSUME walk = "board" PROVE BoardRight'  BY <1>7 DEF BoardRight
    <2>1. status' = "bad"  BY <1>1 DEF Verdict
    <2>2. Looking(n)  BY <1>3 DEF Cursor
    <2>3. OurData = {}  BY <1>5, <2>2, OurDataIs DEF Looking
    <2> QED  BY <1>7, <2>1, <2>3 DEF BoardRight
  <1>10. TlvLast'
    <2> SUFFICES ASSUME walk \in {"svc", "rdy"} PROVE TlvLast'  BY <1>7 DEF TlvLast
    <2>1. Remembers(n) /\ ~ Torn /\ total = At[n + 1]  BY <1>3, <1>4 DEF Cursor, Done
    <2>2. tb["event"] = LastOf("event") /\ tb["array"] = LastOf("array")
      BY <1>5, <2>1, LastOfKnown DEF Tags
    <2>3. \E i \in DOMAIN At' : total' = At'[i]
      <3>1. n + 1 \in DOMAIN At  BY <1>2, BufferFacts
      <3> QED  BY <1>7, <2>1, <3>1
    <2>4. Verdict <=> /\ LastOf("event").len >= IF walk = "svc" THEN SvcEvSize ELSE RdyEvSize
                      /\ walk = "svc" => /\ LastOf("array").len >= 4
                                        /\ LastOf("array").len % 4 = 0
      BY <2>2 DEF Verdict
    <2> QED  BY <1>6, <1>7, <2>1, <2>3, <2>4 DEF TlvLast
  <1>11. CreditsRight'
    <2> SUFFICES ASSUME walk = "credit" PROVE CreditsRight'  BY <1>7 DEF CreditsRight
    <2> DEFINE G == [i \in DOMAIN recs |->
                       IF i \in Whole /\ recs[i].tag = "credits"
                       THEN SumTo(recs[i].grants, recs[i].len \div 4) ELSE 0]
    <2>1. DOMAIN recs = 1 .. Len(recs)  BY <1>2, BufferFacts
    <2>2. ASSUME NEW k \in 1 .. Len(recs)
          PROVE  Gains[k] \in Nat /\ G[k] = IF k <= n THEN Gains[k] ELSE 0
      <3>1. Gains[k] \in Nat /\ Gains[k] = Granted(recs[k])  BY <1>2, GainsAreNumbers
      <3>2. k \in Whole <=> k <= n  BY <1>2, <1>5
      <3> QED  BY <2>1, <3>1, <3>2 DEF Granted, Entries
    <2>3. SumTo(G, Len(recs)) = SumTo(Gains, n)
      <3>1. n \in Nat /\ n <= Len(recs)  BY <1>2
      <3> HIDE DEF G
      <3> QED  BY <1>2, <2>2, <3>1, SumOfFirst
    <2>4. fWmiCredits' = SumTo(G, Len(recs))  BY <1>1, <1>3, <2>3 DEF Cursor, Counted
    <2>5. G' = G  BY <1>7
    <2> QED  BY <1>7, <2>4, <2>5 DEF CreditsRight
  <1> QED  BY <1>1, <1>6, <1>8, <1>9, <1>10, <1>11, HasResult

(* Before the first record. *)
LEMMA WalkStarts == ASSUME WalkInit PROVE WalkInv
  <1>1. /\ walk \in Walks /\ recs \in Seq(Record)
        /\ \A i \in 1 .. Len(recs) : recs[i] \in Records[walk]
    <2>1. walk \in Walks /\ recs \in SeqOf(Records[walk], MaxRecs) /\ MaxRecs \in Nat
      BY SizeAssumption DEF WalkInit
    <2>2. PICK m \in 0 .. MaxRecs : recs \in [1 .. m -> Records[walk]]  BY <2>1 DEF SeqOf
    <2>3. recs \in [1 .. m -> Record]  BY <2>1, <2>2, SizeAssumption
    <2>4. recs \in Seq(Record) /\ Len(recs) = m  BY <2>3
    <2> QED  BY <2>1, <2>2, <2>4
  <1>2. Begins(At, Len(recs), recs, walk) /\ Len(recs) \in Nat
    BY <1>1, StartsDefined, LenProperties DEF At
  <1>3. CallOk
    <2>1. At[Len(recs) + 1] \in Nat /\ DOMAIN recs = 1 .. Len(recs)
      BY <1>1, <1>2, LenProperties DEF Begins
    <2>2. ASSUME walk = "credit", NEW i \in 1 .. Len(recs), recs[i].tag = "credits"
          PROVE  recs[i].len \div 4 <= Len(recs[i].grants)
      BY <1>1, <2>2, SizeAssumption
    <2> QED  BY <1>1, <2>1, <2>2 DEF WalkInit, CallOk
  <1>4. /\ pos = 0 /\ status = "walking" /\ nameMatch = FALSE
        /\ tb = [t \in Tags |-> NoSlice] /\ fWmiCredits = 0
    BY DEF WalkInit
  <1>5. Cursor(0)
    <2>1. pos = At[0 + 1]  BY <1>2, <1>4 DEF Begins
    <2>2. \A n : ~ (n \in 1 .. 0)  OBVIOUS
    <2>3. Remembers(0)
      <3>1. \A t : Known(t, 0) = {}  BY DEF Known
      <3> QED  BY <1>4, <3>1 DEF Remembers
    <2>4. Looking(0)
      <3>1. Names(0) = {}  BY DEF Names
      <3>2. OurName(0) = FALSE  BY <3>1 DEF OurName
      <3> QED  BY <1>4, <2>2, <3>2, Zenon DEF Looking
    <2>5. Counted(0)
      <3>1. PICK s : Sums(s, Gains, 0) /\ SumTo(Gains, 0) = s[0]  BY <2>2, SumDefined
      <3> QED  BY <1>4, <3>1 DEF Counted, Sums
    <2> QED  BY <1>4, <2>1, <2>2, <2>3, <2>4, <2>5 DEF Cursor
  <1>6. \E n \in 0 .. Len(recs) : Cursor(n)  BY <1>2, <1>5
  <1>7. tb \in [Tags -> [at : Int, len : Int]]  BY <1>4 DEF NoSlice
  <1>8. FwRight /\ BoardRight /\ TlvLast /\ CreditsRight
    BY <1>4 DEF FwRight, BoardRight, TlvLast, CreditsRight, Result
  <1>9. pos \in Nat /\ pos <= total /\ nameMatch \in BOOLEAN
    <2>1. total \in Nat  BY <1>3 DEF CallOk
    <2>2. nameMatch \in BOOLEAN  BY <1>4
    <2> QED  BY <1>4, <2>1, <2>2
  <1> QED  BY <1>3, <1>4, <1>6, <1>7, <1>8, <1>9 DEF WalkInv

(* A step that changes nothing. *)
LEMMA WalkStutters == ASSUME WalkInv, UNCHANGED walkVars PROVE WalkInv'
  <1>1. /\ UNCHANGED call /\ pos' = pos /\ status' = status /\ tb' = tb
        /\ nameMatch' = nameMatch /\ found' = found /\ fWmiCredits' = fWmiCredits
        /\ UNCHANGED <<call, pos, tb, nameMatch>>
    BY DEF walkVars
  <1>2. CASE status \in {"walking", "ended"}
    <2>1. PICK n \in 0 .. Len(recs) : Cursor(n)  BY <1>2, UnderWay
    <2>2. Remembers(n)' = Remembers(n)
      BY <1>1, CallFixed DEF Remembers, Known, Slice, Max, Kept, Layout
    <2>3. Looking(n)' = Looking(n)  BY <1>1, CallFixed DEF Looking
    <2>4. Counted(n)' = Counted(n)  BY <1>1, CallFixed DEF Counted
    <2>5. /\ \A j \in 1 .. n : EndOf(j) <= total
          /\ walk \in {"fw", "svc", "rdy"} => Remembers(n)'
          /\ walk = "board" => Looking(n)'
          /\ walk = "credit" => Counted(n)'
          /\ status' = "walking" => pos' = At[n + 1]
          /\ status' = "ended" => Done(n)
      BY <1>1, <2>1, <2>2, <2>3, <2>4 DEF Cursor
    <2>6. /\ pos' \in Nat /\ pos' <= total /\ nameMatch' \in BOOLEAN
          /\ tb' \in [Tags -> [at : Int, len : Int]] /\ status' \in {"walking", "ended"}
      BY <1>1, <1>2, UnderWay
    <2> QED  BY <1>1, <2>5, <2>6, GoesOn
  <1>3. CASE status \notin {"walking", "ended"}
    <2>1. status' \in {"ok", "bad"}  BY <1>1, <1>3 DEF WalkInv
    <2>2. FwRight' = FwRight
      BY <1>1, CallFixed DEF FwRight, Result, Slice, Max, Layout
    <2>3. BoardRight' = BoardRight
      BY <1>1, CallFixed DEF BoardRight, Result, Slice, Min, Layout
    <2>4. TlvLast' = TlvLast
      <3>1. /\ walk' = walk /\ total' = total /\ At' = At /\ Torn' = Torn
            /\ LastOf("event")' = LastOf("event") /\ LastOf("array")' = LastOf("array")
        BY <1>1, CallFixed
      <3> QED  BY <1>1, <3>1 DEF TlvLast, Result
    <2>5. CreditsRight' = CreditsRight
      <3>1. walk' = walk /\ recs' = recs /\ Whole' = Whole  BY <1>1, CallFixed
      <3> QED  BY <1>1, <3>1 DEF CreditsRight, Result
    <2> QED  BY <1>1, <2>1, <2>2, <2>3, <2>4, <2>5, HasResult DEF WalkInv
  <1> QED  BY <1>2, <1>3

-----------------------------------------------------------------------------
(* The invariant holds in every walk. *)
THEOREM WalkInvariance == WalkSpec => []WalkInv
  <1>1. WalkInv /\ [WalkNext]_walkVars => WalkInv'
    BY WalkOutStep, OverlongStep, UseSliceStep, UseBoardIeStep, UseCreditsStep,
       JudgeStep, WalkStutters
    DEF WalkNext
  <1> QED  BY <1>1, WalkStarts, PTL DEF WalkSpec

(* Every header any of the five walks looks at is a header of the list and *)
(* no step leaves the buffer, whatever the records, their lengths and the  *)
(* place where the buffer is cut.                                          *)
THEOREM InStepTheorem == WalkSpec => []InStep
  <1>1. WalkInv => InStep
    <2> SUFFICES ASSUME WalkInv PROVE InStep  OBVIOUS
    <2>1. pos <= total  BY DEF WalkInv
    <2>2. ASSUME status = "walking" PROVE \E i \in DOMAIN At : pos = At[i]
      <3>1. PICK n \in 0 .. Len(recs) : Cursor(n)  BY <2>2, UnderWay
      <3>2. n + 1 \in DOMAIN At  BY BufferFacts DEF WalkInv
      <3> QED  BY <2>2, <3>1, <3>2 DEF Cursor
    <2> QED  BY <2>1, <2>2 DEF InStep
  <1> QED  BY <1>1, WalkInvariance, PTL

(* parseFirmware accepts exactly the containers without a torn IE that     *)
(* have a firmware image, and hands out the last image of each kind.       *)
THEOREM FwTheorem == WalkSpec => []FwRight
  <1>1. WalkInv => FwRight  BY DEF WalkInv
  <1> QED  BY <1>1, WalkInvariance, PTL

(* selectBoard finds the first board data under the card's own name, and   *)
(* only if there is one.                                                   *)
THEOREM BoardTheorem == WalkSpec => []BoardRight
  <1>1. WalkInv => BoardRight  BY DEF WalkInv
  <1> QED  BY <1>1, WalkInvariance, PTL

(* Of the events with at most one array TLV, tlvParse with                 *)
(* parseServiceReady or parseReady accepts exactly those that their TLVs   *)
(* fill, with structs as long as they are read.                            *)
THEOREM TlvTheorem == WalkSpec => []TlvRight
  <1>1. WalkInv => TlvRight  BY DEF WalkInv, TlvLast, TlvRight
  <1> QED  BY <1>1, WalkInvariance, PTL

(* applyCreditReport adds exactly the credits of the whole entries of the  *)
(* whole credit records of the trailer, however many there are.            *)
THEOREM CreditsTheorem == WalkSpec => []CreditsRight
  <1>1. WalkInv => CreditsRight  BY DEF WalkInv
  <1> QED  BY <1>1, WalkInvariance, PTL

-----------------------------------------------------------------------------
(* The walks are bounded.                                                  *)

(* The steps a walk may still take: a header is at least four bytes.       *)
WalkLeft ==
  CASE status = "walking" -> (total - pos) \div 4 + 2
    [] status = "ended"   -> 1
    [] OTHER              -> 0

(* Every step uses some of them up, and they run out with the result. *)
WalkShrinks == [][WalkNext => WalkLeft' < WalkLeft]_walkVars
WalkBounded == WalkLeft \in 0 .. total \div 4 + 2 /\ (WalkLeft = 0 <=> Result)

(* Words left in a buffer of t bytes, four or more bytes further on. *)
LEMMA WordsLeft ==
  ASSUME NEW t \in Nat, NEW a \in Nat, NEW p \in Nat, p >= a + 4, p <= t
  PROVE  (t - p) \div 4 \in Nat /\ (t - p) \div 4 < (t - a) \div 4
  <1>1. PICK d \in Nat : d = t - p  OBVIOUS
  <1>2. PICK e \in Nat : e = t - a /\ d + 4 <= e  BY <1>1
  <1>3. d \div 4 \in Nat /\ d \div 4 < e \div 4  BY <1>2
  <1> QED  BY <1>1, <1>2, <1>3

(* A step over a record leaves the loop or gets at least a header on. *)
LEMMA AdvanceFar ==
  ASSUME WalkInv, Walking, Fits(HeaderAtPos.len), Advance
  PROVE  \/ status' = "ended"
         \/ status' = "walking" /\ pos' \in Nat /\ pos' >= pos + 4 /\ pos' <= total
  <1>1. PICK n \in 0 .. Len(recs) : Cursor(n)  BY UnderWay DEF Walking
  <1>2. CallOk /\ pos = At[n + 1]  BY <1>1 DEF Cursor, Walking, WalkInv
  <1>3. CASE status' = "walking" /\ pos' = At[(n + 1) + 1] /\ pos' \in Nat /\ pos' <= total
    <2>1. n + 1 \in 1 .. Len(recs)  BY <1>2, AtRecord
    <2>2. PICK h \in {4, 8} : h = Layout(walk).hdr  BY <1>2, BufferFacts
    <2>3. (n + 1) \in 1 .. Len(recs) + 1 /\ (n + 1) + 1 \in 1 .. Len(recs) + 1
          /\ n + 1 < (n + 1) + 1
      BY <1>2, <2>1, BufferFacts
    <2>4. At[n + 1] + h <= At[(n + 1) + 1]  BY <1>2, <2>2, <2>3, BufferFacts
    <2>5. pos + h <= pos' /\ pos \in Nat  BY <1>2, <1>3, <2>4 DEF WalkInv
    <2> QED  BY <1>3, <2>2, <2>5
  <1> QED  BY <1>2, <1>3, AdvanceStep

(* The measure is in its range. *)
LEMMA WalkInRange == WalkInv => WalkBounded
  <1> SUFFICES ASSUME WalkInv PROVE WalkBounded  OBVIOUS
  <1>1. total \in Nat /\ pos \in Nat /\ pos <= total  BY DEF WalkInv, CallOk
  <1>2. (total - pos) \div 4 \in 0 .. total \div 4  BY <1>1
  <1>3. PICK q \in Nat, r \in Nat : q = total \div 4 /\ r = (total - pos) \div 4 /\ r <= q
    BY <1>1, <1>2
  <1>4. status \in {"walking", "ended", "ok", "bad"}  BY DEF WalkInv
  <1>5. CASE status = "walking"
    <2>1. WalkLeft = r + 2  BY <1>3, <1>5 DEF WalkLeft
    <2> QED  BY <1>3, <1>5, <2>1 DEF WalkBounded, Result
  <1>6. CASE status # "walking"
    <2>1. WalkLeft = IF status = "ended" THEN 1 ELSE 0  BY <1>6 DEF WalkLeft
    <2> QED  BY <1>3, <1>4, <1>6, <2>1 DEF WalkBounded, Result
  <1> QED  BY <1>5, <1>6

(* Every step lowers it. *)
LEMMA StepsOn == ASSUME WalkInv, WalkNext PROVE WalkLeft' < WalkLeft
  <1>1. total \in Nat /\ pos \in Nat /\ pos <= total /\ total' = total
    BY DEF WalkInv, CallOk, WalkNext, WalkOut, Overlong, UseSlice, UseBoardIe, UseCredits,
           Judge, call
  <1>2. PICK r \in Nat : r = (total - pos) \div 4  BY <1>1
  <1>3. CASE Judge
    <2>1. status = "ended" /\ status' \in {"ok", "bad"}  BY <1>3 DEF Judge
    <2> QED  BY <2>1 DEF WalkLeft
  <1>4. CASE status = "walking" /\ status' \in {"ended", "ok", "bad"}
    <2>1. WalkLeft = r + 2 /\ WalkLeft' \in {0, 1}  BY <1>2, <1>4 DEF WalkLeft
    <2> QED  BY <1>2, <2>1
  <1>5. CASE Walking /\ Fits(HeaderAtPos.len) /\ Advance
    <2>1. CASE status' = "ended"  BY <1>4, <1>5, <2>1 DEF Walking
    <2>2. CASE status' = "walking" /\ pos' \in Nat /\ pos' >= pos + 4 /\ pos' <= total
      <3>1. PICK t \in Nat, a \in Nat, p \in Nat :
              t = total /\ a = pos /\ p = pos' /\ p >= a + 4 /\ p <= t
        BY <1>1, <2>2
      <3>2. PICK q \in Nat : q = (t - p) \div 4 /\ q < (t - a) \div 4  BY <3>1, WordsLeft
      <3>3. WalkLeft = r + 2 /\ WalkLeft' = q + 2 /\ q < r
        BY <1>1, <1>2, <1>5, <2>2, <3>1, <3>2 DEF WalkLeft, Walking
      <3> QED  BY <1>2, <3>2, <3>3
    <2> QED  BY <1>5, <2>1, <2>2, AdvanceFar
  <1>6. CASE WalkOut \/ Overlong
    <2>1. status = "walking" /\ status' \in {"ended", "bad"}
      BY <1>6 DEF WalkOut, Overlong, Walking
    <2> QED  BY <1>4, <2>1
  <1>7. CASE UseSlice \/ UseCredits
    BY <1>5, <1>7 DEF UseSlice, UseCredits
  <1>8. CASE UseBoardIe
    <2>1. \/ status = "walking" /\ status' = "ok"
          \/ Walking /\ Fits(HeaderAtPos.len) /\ Advance
      BY <1>8 DEF UseBoardIe, Walking
    <2> QED  BY <1>4, <1>5, <2>1
  <1> QED  BY <1>3, <1>6, <1>7, <1>8 DEF WalkNext

(* The variant behind WalkEnds: whatever lengths the records declare, none *)
(* of the five loops turns more often than its buffer has words, and each  *)
(* comes to a result.                                                      *)
THEOREM WalksBounded == WalkSpec => []WalkBounded /\ WalkShrinks
  <1>1. WalkInv => WalkBounded  BY WalkInRange
  <1>2. WalkInv /\ [WalkNext]_walkVars => [WalkNext => WalkLeft' < WalkLeft]_walkVars
    BY StepsOn
  <1> QED  BY <1>1, <1>2, WalkInvariance, PTL DEF WalkSpec, WalkShrinks
=============================================================================
