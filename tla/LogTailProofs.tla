--------------------------- MODULE LogTailProofs ----------------------------
(***************************************************************************)
(* The log tail of LogTail is the end of the log, for every size of the    *)
(* tail and of a line that TailAssumption allows and lines of any length.  *)
(***************************************************************************)
EXTENDS LogTail, IntervalFacts, SequenceTheorems

Byte == [line : Nat, at : Nat, nl : BOOLEAN]

(* t is the last bytes of d. *)
Ends(t, d) ==
  /\ Len(t) <= Len(d)
  /\ \A k \in 1 .. Len(t) : t[k] = d[Len(d) - Len(t) + k]

(* t begins with a line, and a line begins behind every newline in it. *)
Aligned(t) ==
  /\ t # <<>> => t[1].at = 1
  /\ \A k \in 1 .. Len(t) - 1 : t[k].nl => t[k + 1].at = 1

TailTypes ==
  /\ lines \in Seq(LineLens) /\ dmesg \in Seq(Byte)
  /\ fLogTail \in Seq(Byte) /\ nvram = fLogTail

(* The newest line is there to its last byte. *)
Newest == lines # <<>> => Len(fLogTail) >= Len(Present(Len(lines), lines[Len(lines)]))

TailInv ==
  /\ TailTypes /\ Len(fLogTail) < TailSize /\ Newest
  /\ Ends(fLogTail, dmesg) /\ Aligned(fLogTail)

-----------------------------------------------------------------------------
(* What vsnprintf leaves in line[]: at least a byte, at most LineSize - 1, *)
(* and no newline but as the last byte.                                    *)
LEMMA PresentFacts ==
  ASSUME NEW n \in Nat, NEW len \in LineLens
  PROVE  /\ Present(n, len) \in Seq(Byte)
         /\ Len(Present(n, len)) \in 1 .. LineSize - 1
         /\ Len(Present(n, len)) <= len
         /\ Aligned(Present(n, len))
  <1>1. len \in Nat /\ len >= 1 /\ LineSize \in Nat /\ LineSize - 1 >= 1
    BY TailAssumption
  <1>2. PICK m : m = Min({len, LineSize - 1})  OBVIOUS
  <1>3. m \in {len, LineSize - 1} /\ m <= len /\ m <= LineSize - 1
    <2>1. {len, LineSize - 1} \in SUBSET Nat  BY <1>1
    <2> QED  BY <1>2, <2>1, MinOfNats
  <1>4. m \in 1 .. LineSize - 1 /\ m \in Nat  BY <1>1, <1>3
  <1>5. PICK text : text = [k \in 1 .. m |-> [line |-> n, at |-> k, nl |-> k = len]]
    OBVIOUS
  <1>6. Present(n, len) = text  BY <1>2, <1>5 DEF Present
  <1>7. \A k \in 1 .. m : /\ text[k] = [line |-> n, at |-> k, nl |-> k = len]
                          /\ text[k] \in Byte
    BY <1>4, <1>5 DEF Byte
  <1>8. text \in Seq(Byte) /\ Len(text) = m
    <2>1. text \in [1 .. m -> Byte]  BY <1>5, <1>7
    <2> QED  BY <1>4, <2>1
  <1>9. Aligned(text)
    <2>1. text[1].at = 1
      <3>1. 1 \in 1 .. m  BY <1>4
      <3>2. text[1] = [line |-> n, at |-> 1, nl |-> 1 = len]  BY <1>7, <3>1
      <3> QED  BY <3>2
    <2>2. \A k \in 1 .. Len(text) - 1 : ~ text[k].nl
      <3> TAKE k \in 1 .. Len(text) - 1
      <3>1. k \in 1 .. m /\ k # len  BY <1>1, <1>3, <1>4, <1>8
      <3>2. text[k] = [line |-> n, at |-> k, nl |-> k = len]  BY <1>7, <3>1
      <3>3. PICK b \in BOOLEAN : b = (k = len)  OBVIOUS
      <3>4. text[k] = [line |-> n, at |-> k, nl |-> b]  BY <3>2, <3>3, Zenon
      <3>5. ~ b  BY <3>1, <3>3
      <3> QED  BY <3>4, <3>5
    <2> QED  BY <2>1, <2>2 DEF Aligned
  <1> QED  BY <1>3, <1>4, <1>6, <1>8, <1>9

(* Cutting keeps an end of the tail that begins with a line and is at most *)
(* half as long.                                                           *)
LEMMA CutFacts ==
  ASSUME NEW t \in Seq(Byte), Aligned(t)
  PROVE  /\ Cut(t) \in Seq(Byte) /\ Ends(Cut(t), t) /\ Aligned(Cut(t))
         /\ 2 * Len(Cut(t)) <= Len(t)
  <1> DEFINE nls == {k \in 1 .. Len(t) : k > Len(t) \div 2 /\ t[k].nl}
  <1>1. Len(t) \in Nat  BY LenProperties
  <1>2. CASE nls = {}
    <2>1. Cut(t) = <<>>  BY <1>2 DEF Cut
    <2> QED  BY <1>1, <2>1, EmptySeq DEF Ends, Aligned
  <1>3. CASE nls # {}
    <2>1. PICK m : m = Min(nls)  OBVIOUS
    <2>2. m \in nls
      <3>1. nls \in SUBSET Nat  OBVIOUS
      <3> HIDE DEF nls
      <3> QED  BY <1>3, <2>1, <3>1, MinOfNats
    <2>3. /\ m \in 1 .. Len(t) /\ t[m].nl
          /\ 2 * m > Len(t)
      BY <1>1, <2>2
    <2>4. PICK c : c = SubSeq(t, m + 1, Len(t))  OBVIOUS
    <2>5. Cut(t) = c  BY <1>3, <2>1, <2>4 DEF Cut
    <2>6. /\ c \in Seq(Byte) /\ Len(c) = Len(t) - m
          /\ \A k \in 1 .. Len(c) : c[k] = t[m + k]
      <3>1. \A k \in m + 1 .. Len(t) : t[k] \in Byte  BY <1>1, <2>3, ElementOfSeq
      <3> QED  BY <1>1, <2>3, <2>4, <3>1, SubSeqProperties
    <2>7. Ends(c, t)  BY <1>1, <2>3, <2>6 DEF Ends
    <2>8. Aligned(c)
      <3>1. c # <<>> => c[1].at = 1
        <4> HAVE c # <<>>
        <4>1. Len(c) \in Nat \ {0}  BY <2>6, EmptySeq
        <4>2. c[1] = t[m + 1] /\ m \in 1 .. Len(t) - 1  BY <1>1, <2>3, <2>6, <4>1
        <4> QED  BY <2>3, <4>2 DEF Aligned
      <3>2. ASSUME NEW k \in 1 .. Len(c) - 1, c[k].nl
            PROVE  c[k + 1].at = 1
        <4>1. /\ k \in 1 .. Len(c) /\ k + 1 \in 1 .. Len(c)
              /\ m + (k + 1) = (m + k) + 1 /\ m + k \in 1 .. Len(t) - 1
          <5>1. PICK a \in Nat : a = Len(t)  BY <1>1
          <5>2. m \in 1 .. a /\ Len(c) = a - m  BY <2>3, <2>6, <5>1
          <5>3. k \in 1 .. (a - m) - 1  BY <5>2
          <5> QED  BY <5>1, <5>2, <5>3
        <4>2. c[k] = t[m + k] /\ c[k + 1] = t[m + (k + 1)]  BY <2>6, <4>1
        <4> QED  BY <3>2, <4>1, <4>2 DEF Aligned
      <3> QED  BY <3>1, <3>2 DEF Aligned
    <2> QED  BY <1>1, <2>3, <2>5, <2>6, <2>7, <2>8
  <1> QED  BY <1>2, <1>3

(* An end of an end is an end. *)
LEMMA EndsTransitive ==
  ASSUME NEW s \in Seq(Byte), NEW t \in Seq(Byte), NEW d \in Seq(Byte),
         Ends(s, t), Ends(t, d)
  PROVE  Ends(s, d)
  <1>1. Len(s) \in Nat /\ Len(t) \in Nat /\ Len(d) \in Nat  BY LenProperties
  <1>2. ASSUME NEW k \in 1 .. Len(s)
        PROVE  s[k] = d[Len(d) - Len(s) + k]
    <2>1. s[k] = t[Len(t) - Len(s) + k]  BY DEF Ends
    <2>2. Len(t) - Len(s) + k \in 1 .. Len(t)  BY <1>1 DEF Ends
    <2>3. t[Len(t) - Len(s) + k] = d[Len(d) - Len(t) + (Len(t) - Len(s) + k)]
      BY <2>2 DEF Ends
    <2>4. Len(d) - Len(t) + (Len(t) - Len(s) + k) = Len(d) - Len(s) + k
      BY <1>1
    <2> QED  BY <2>1, <2>3, <2>4
  <1> QED  BY <1>1, <1>2 DEF Ends

(* Appending the same line to both keeps an end an end and, as the line    *)
(* begins at its first byte, the alignment.                                *)
LEMMA AppendFacts ==
  ASSUME NEW t \in Seq(Byte), NEW d \in Seq(Byte), NEW text \in Seq(Byte),
         Ends(t, d), Aligned(t), Aligned(text), Len(text) >= 1
  PROVE  Ends(t \o text, d \o text) /\ Aligned(t \o text)
  <1>1. Len(t) \in Nat /\ Len(d) \in Nat /\ Len(text) \in Nat  BY LenProperties
  <1>2. PICK u, v : u = t \o text /\ v = d \o text  OBVIOUS
  <1>3. /\ Len(u) = Len(t) + Len(text)
        /\ \A k \in 1 .. Len(t) + Len(text) :
             u[k] = IF k <= Len(t) THEN t[k] ELSE text[k - Len(t)]
    BY <1>2, ConcatProperties
  <1>4. /\ Len(v) = Len(d) + Len(text)
        /\ \A k \in 1 .. Len(d) + Len(text) :
             v[k] = IF k <= Len(d) THEN d[k] ELSE text[k - Len(d)]
    BY <1>2, ConcatProperties
  <1>5. Ends(u, v)
    <2>1. Len(u) <= Len(v)  BY <1>1, <1>3, <1>4 DEF Ends
    <2>2. ASSUME NEW k \in 1 .. Len(u)
          PROVE  u[k] = v[Len(v) - Len(u) + k]
      <3>1. Len(v) - Len(u) + k = (Len(d) - Len(t)) + k  BY <1>1, <1>3, <1>4
      <3>2. CASE k <= Len(t)
        <4>1. k \in 1 .. Len(t)  BY <1>1, <3>2
        <4>2. t[k] = d[Len(d) - Len(t) + k]  BY <4>1 DEF Ends
        <4>3. (Len(d) - Len(t)) + k \in 1 .. Len(d)  BY <1>1, <3>2 DEF Ends
        <4>4. v[(Len(d) - Len(t)) + k] = d[(Len(d) - Len(t)) + k]
          <5>1. PICK q \in 1 .. Len(d) : q = (Len(d) - Len(t)) + k  BY <4>3
          <5>2. q \in 1 .. Len(d) + Len(text) /\ q <= Len(d)  BY <1>1, <5>1
          <5>3. v[q] = d[q]  BY <1>4, <5>2
          <5> QED  BY <5>1, <5>3
        <4>5. u[k] = t[k]  BY <1>1, <1>3, <3>2
        <4> QED  BY <3>1, <4>2, <4>4, <4>5
      <3>3. CASE k > Len(t)
        <4>1. ((Len(d) - Len(t)) + k) - Len(d) = k - Len(t)  BY <1>1
        <4>2. /\ (Len(d) - Len(t)) + k \in 1 .. Len(d) + Len(text)
              /\ ~ ((Len(d) - Len(t)) + k <= Len(d))
          BY <1>1, <1>3, <3>3 DEF Ends
        <4>3. v[(Len(d) - Len(t)) + k] = text[k - Len(t)]  BY <1>4, <4>1, <4>2
        <4>4. u[k] = text[k - Len(t)]  BY <1>1, <1>3, <3>3
        <4> QED  BY <3>1, <4>3, <4>4
      <3> QED  BY <1>1, <3>2, <3>3
    <2> QED  BY <2>1, <2>2 DEF Ends
  <1>6. text[1].at = 1
    <2>1. text # <<>>  BY <1>1, EmptySeq
    <2> QED  BY <2>1 DEF Aligned
  <1>7. Aligned(u)
    <2>1. u[1].at = 1
      <3>1. CASE Len(t) = 0  BY <1>1, <1>3, <1>6, <3>1
      <3>2. CASE Len(t) >= 1
        <4>1. t # <<>>  BY <3>2, EmptySeq
        <4>2. u[1] = t[1]  BY <1>1, <1>3, <3>2
        <4> QED  BY <4>1, <4>2 DEF Aligned
      <3> QED  BY <1>1, <3>1, <3>2
    <2>2. ASSUME NEW k \in 1 .. Len(u) - 1, u[k].nl
          PROVE  u[k + 1].at = 1
      <3>1. CASE k < Len(t)
        <4>1. u[k] = t[k] /\ u[k + 1] = t[k + 1] /\ k \in 1 .. Len(t) - 1
          BY <1>1, <1>3, <3>1
        <4> QED  BY <2>2, <4>1 DEF Aligned
      <3>2. CASE k = Len(t)
        <4>1. u[k + 1] = text[1]  BY <1>1, <1>3, <3>2
        <4> QED  BY <1>6, <4>1
      <3>3. CASE k > Len(t)
        <4>1. /\ u[k] = text[k - Len(t)] /\ u[k + 1] = text[(k - Len(t)) + 1]
              /\ k - Len(t) \in 1 .. Len(text) - 1
          BY <1>1, <1>3, <3>3
        <4> QED  BY <2>2, <4>1 DEF Aligned
      <3> QED  BY <1>1, <3>1, <3>2, <3>3
    <2> QED  BY <2>1, <2>2 DEF Aligned
  <1> QED  BY <1>2, <1>5, <1>7

-----------------------------------------------------------------------------
(* Before the first line. *)
LEMMA TailInit == LogInit => TailInv
  <1> HAVE LogInit
  <1> QED  BY EmptySeq, TailAssumption
           DEF LogInit, TailInv, TailTypes, Newest, Ends, Aligned

(* A call of qlog: the tail, cut or not, has room for the whole line. *)
LEMMA TailStep ==
  ASSUME TailInv, Qlog
  PROVE  TailInv'
  <1>1. PICK len \in LineLens :
          LET text == Present(Len(lines) + 1, len)
              kept == IF len + 1 > Space(fLogTail) THEN Cut(fLogTail) ELSE fLogTail
              n    == Min({Len(text), Space(kept)})
          IN /\ lines' = Append(lines, len)
             /\ dmesg' = dmesg \o text
             /\ fLogTail' = kept \o SubSeq(text, 1, n)
             /\ nvram' = fLogTail'
    BY DEF Qlog
  <1>2. PICK text : text = Present(Len(lines) + 1, len)  OBVIOUS
  <1>3. PICK kept : kept = IF len + 1 > Space(fLogTail) THEN Cut(fLogTail) ELSE fLogTail
    OBVIOUS
  <1>4. PICK n : n = Min({Len(text), Space(kept)})  OBVIOUS
  <1>5. /\ lines' = Append(lines, len) /\ dmesg' = dmesg \o text
        /\ fLogTail' = kept \o SubSeq(text, 1, n) /\ nvram' = fLogTail'
    BY <1>1, <1>2, <1>3, <1>4
  <1>6. /\ lines \in Seq(LineLens) /\ dmesg \in Seq(Byte) /\ fLogTail \in Seq(Byte)
        /\ Len(fLogTail) < TailSize /\ Ends(fLogTail, dmesg) /\ Aligned(fLogTail)
    BY DEF TailInv, TailTypes
  <1>7. /\ Len(lines) \in Nat /\ Len(fLogTail) \in Nat /\ Len(dmesg) \in Nat
        /\ len \in Nat /\ LineSize \in Nat /\ TailSize \in Nat /\ 2 * LineSize <= TailSize
    BY <1>6, LenProperties, TailAssumption
  <1>8. /\ text \in Seq(Byte) /\ Len(text) \in 1 .. LineSize - 1 /\ Len(text) <= len
        /\ Aligned(text)
    <2>1. Len(lines) + 1 \in Nat  BY <1>7
    <2> QED  BY <1>2, <2>1, PresentFacts
  <1>9. /\ kept \in Seq(Byte) /\ Ends(kept, fLogTail) /\ Aligned(kept)
        /\ Len(kept) + Len(text) < TailSize
    <2>1. CASE len + 1 > Space(fLogTail)
      <3>1. kept = Cut(fLogTail)  BY <1>3, <2>1
      <3>2. /\ kept \in Seq(Byte) /\ Ends(kept, fLogTail) /\ Aligned(kept)
            /\ 2 * Len(kept) <= Len(fLogTail)
        BY <1>6, <3>1, CutFacts
      <3>3. Len(kept) \in Nat  BY <3>2, LenProperties
      <3> QED  BY <1>6, <1>7, <1>8, <3>2, <3>3
    <2>2. CASE ~ (len + 1 > Space(fLogTail))
      <3>1. kept = fLogTail  BY <1>3, <2>2
      <3>2. Ends(fLogTail, fLogTail)  BY <1>7 DEF Ends
      <3> QED  BY <1>6, <1>7, <1>8, <2>2, <3>1, <3>2 DEF Space
    <2> QED  BY <2>1, <2>2
  <1>10. Len(kept) \in Nat /\ Len(text) \in Nat  BY <1>8, <1>9, LenProperties
  <1>11. SubSeq(text, 1, n) = text
    <2>1. {Len(text), Space(kept)} \in SUBSET Nat /\ Len(text) <= Space(kept)
      BY <1>7, <1>9, <1>10 DEF Space
    <2>2. n \in {Len(text), Space(kept)} /\ n <= Len(text) /\ n <= Space(kept)
      BY <1>4, <2>1, MinOfNats
    <2>3. n = Len(text)  BY <2>1, <2>2
    <2> QED  BY <1>8, <2>3, SubSeqFull
  <1>12. fLogTail' = kept \o text  BY <1>5, <1>11
  <1>13. Ends(fLogTail', dmesg') /\ Aligned(fLogTail')
    <2>1. Ends(kept, dmesg)  BY <1>6, <1>9, EndsTransitive
    <2>2. Len(text) >= 1  BY <1>8
    <2>3. Ends(kept \o text, dmesg \o text) /\ Aligned(kept \o text)
      BY <1>6, <1>8, <1>9, <2>1, <2>2, AppendFacts
    <2> QED  BY <1>5, <1>12, <2>3
  <1>14. /\ fLogTail' \in Seq(Byte) /\ Len(fLogTail') = Len(kept) + Len(text)
         /\ dmesg' \in Seq(Byte)
    BY <1>5, <1>6, <1>8, <1>9, <1>12, ConcatProperties
  <1>15. Newest'
    <2>1. lines' \in Seq(LineLens) /\ Len(lines') = Len(lines) + 1 /\ lines'[Len(lines')] = len
      BY <1>5, <1>6, <1>7
    <2>2. Present(Len(lines'), lines'[Len(lines')]) = text  BY <1>2, <2>1
    <2>3. Len(fLogTail') >= Len(Present(Len(lines'), lines'[Len(lines')]))
      BY <1>10, <1>14, <2>2
    <2> QED  BY <2>3 DEF Newest, Present
  <1>16. TailTypes'  BY <1>5, <1>6, <1>14 DEF TailTypes
  <1> QED  BY <1>9, <1>13, <1>14, <1>15, <1>16 DEF TailInv, Ends, Aligned

(* The invariant holds in every behaviour of the log. *)
THEOREM TailInvariance == LogSpec => []TailInv
  <1>1. TailInv /\ [LogNext]_tailVars => TailInv'
    <2>1. ASSUME TailInv, UNCHANGED tailVars PROVE TailInv'
      BY <2>1 DEF TailInv, tailVars, TailTypes, Newest, Ends, Aligned, Present
    <2> QED  BY <2>1, TailStep DEF LogNext
  <1> QED  BY <1>1, TailInit, PTL DEF LogSpec

(* qlog: what NVRAM holds is always the end of the log that went to dmesg, *)
(* from the start of a line, the newest line complete, with room for the   *)
(* NUL, for every size of tail and line and any lengths of the lines.      *)
THEOREM TailTheorem == LogSpec => []TailIsRecentLog
  <1>1. TailInv => TailIsRecentLog
    <2> HAVE TailInv
    <2>1. /\ dmesg \in Seq(Byte) /\ nvram \in Seq(Byte) /\ nvram = fLogTail
          /\ Len(fLogTail) < TailSize /\ Ends(nvram, dmesg) /\ Aligned(nvram) /\ Newest
      BY DEF TailInv, TailTypes
    <2>2. Len(dmesg) \in Nat /\ Len(nvram) \in Nat /\ Len(nvram) <= Len(dmesg)
      BY <2>1, LenProperties DEF Ends
    <2>3. nvram = SubSeq(dmesg, Len(dmesg) - Len(nvram) + 1, Len(dmesg))
      <3>1. PICK m : m = Len(dmesg) - Len(nvram) + 1  OBVIOUS
      <3>2. m \in 1 .. Len(dmesg) + 1  BY <2>2, <3>1
      <3>3. \A k \in m .. Len(dmesg) : dmesg[k] \in Byte  BY <2>1, <2>2, <3>2, ElementOfSeq
      <3>4. PICK s : s = SubSeq(dmesg, m, Len(dmesg))  OBVIOUS
      <3>5. /\ s \in Seq(Byte)
            /\ Len(s) = IF m <= Len(dmesg) THEN Len(dmesg) - m + 1 ELSE 0
            /\ \A k \in 1 .. Len(dmesg) - m + 1 : s[k] = dmesg[m + k - 1]
        BY <2>2, <3>2, <3>3, <3>4, SubSeqProperties
      <3>6. Len(s) = Len(nvram)  BY <2>2, <3>1, <3>5
      <3>7. ASSUME NEW k \in 1 .. Len(nvram) PROVE nvram[k] = s[k]
        <4>1. nvram[k] = dmesg[Len(dmesg) - Len(nvram) + k]  BY <2>1 DEF Ends
        <4>2. Len(dmesg) - Len(nvram) + k = m + k - 1 /\ k \in 1 .. Len(dmesg) - m + 1
          BY <2>2, <3>1
        <4> QED  BY <3>5, <4>1, <4>2
      <3>8. nvram = s  BY <2>1, <3>5, <3>6, <3>7, SeqEqual
      <3> QED  BY <3>1, <3>4, <3>8
    <2> QED  BY <2>1, <2>3 DEF TailIsRecentLog, Newest, Aligned
  <1> QED  BY <1>1, TailInvariance, PTL
=============================================================================
