--------------------------- MODULE DispatchProofs ---------------------------
(***************************************************************************)
(* Proofs about Dispatch: whatever verified bytecode is run, no exception  *)
(* handler outlives its frame, every frame has its own level of deferred   *)
(* calls and a script that ends leaves the value stack empty.              *)
(***************************************************************************)
EXTENDS Dispatch, SequenceTheorems, TLAPS

-----------------------------------------------------------------------------
(* The inductive invariant: where the frames stand, and how the value stack  *)
(* and the handlers are divided among them.  Stated for a bytecode code with *)
(* depths D, frames fr, next instruction i, m values on the stack and        *)
(* handlers hs, so that it can be carried from a state to the next.          *)

\* The instruction at which frame d stands: the next one in the top frame, the
\* call in progress in the others.
Place(fr, i, d) == IF d = Len(fr) THEN i ELSE fr[d + 1].ret - 1

\* The depths there.
Info(D, fr, i, d) == D[fr[d].fn][Place(fr, i, d)]

\* Frame 1 is the script, the others are calls in progress.
Standing(code, D, fr, i) ==
  /\ Len(fr) > 0
  /\ \A d \in 1..Len(fr) :
       /\ fr[d].fn \in DOMAIN code /\ fr[d].ret \in Nat
       /\ fr[d].fn = "main" <=> d = 1
       /\ Place(fr, i, d) \in DOMAIN D[fr[d].fn]
       /\ d < Len(fr) => code[fr[d].fn][Place(fr, i, d)].op = "Call"

\* Frame d's values start above sb[d] and its handlers above hb[d].
Divided(D, fr, i, m, hs, sb, hb) ==
  /\ sb \in [1..Len(fr) -> Nat] /\ hb \in [1..Len(fr) -> Nat]
  /\ sb[1] = 0 /\ hb[1] = 0
  /\ \A d \in 1..(Len(fr) - 1) :
       /\ sb[d + 1] = sb[d] + Info(D, fr, i, d).values
       /\ hb[d + 1] = hb[d] + Len(Info(D, fr, i, d).tries)
  /\ m = sb[Len(fr)] + Info(D, fr, i, Len(fr)).values
  /\ Len(hs) = hb[Len(fr)] + Len(Info(D, fr, i, Len(fr)).tries)
  /\ \A d, e \in 1..Len(fr) : d <= e => sb[d] <= sb[e] /\ hb[d] <= hb[e]

\* Handler h is the j-th of frame d, whose depths are x.
Placed(x, h, j, base) ==
  /\ j \in 1..Len(x.tries)
  /\ h.ip = x.tries[j].ip
  /\ h.stackDepth = base + x.tries[j].values

\* Every handler is the one its frame's depths tell of.
Handled(D, fr, i, hs, sb, hb) ==
  \A k \in 1..Len(hs) :
    /\ hs[k].frameDepth \in 1..Len(fr)
    /\ Placed(Info(D, fr, i, hs[k].frameDepth), hs[k], k - hb[hs[k].frameDepth], sb[hs[k].frameDepth])

Layout(code, D, fr, i, m, hs, sb, hb) ==
  Standing(code, D, fr, i) /\ Divided(D, fr, i, m, hs, sb, hb) /\ Handled(D, fr, i, hs, sb, hb)

Handler == [ip : Nat, frameDepth : Nat, stackDepth : Nat]
Try == [ip : Nat, values : Nat]
Depth == [values : Nat, tries : Seq(Try)]

-----------------------------------------------------------------------------
(* Sequences. *)

\* The first n elements of a sequence.
LEMMA Prefix ==
  ASSUME NEW S, NEW s, NEW n \in Nat, \A i \in 1..n : s[i] \in S
  PROVE  /\ SubSeq(s, 1, n) \in Seq(S) /\ Len(SubSeq(s, 1, n)) = n
         /\ \A i \in 1..n : SubSeq(s, 1, n)[i] = s[i]
<1>1. 1 \in Int /\ n \in Int OBVIOUS
<1>2. SubSeq(s, 1, n) \in Seq(S) BY <1>1, SubSeqProperties
<1>3. Len(SubSeq(s, 1, n)) = IF 1 <= n THEN n - 1 + 1 ELSE 0 BY <1>1, SubSeqProperties
<1>4. \A i \in 1..(n - 1 + 1) : SubSeq(s, 1, n)[i] = s[1 + i - 1] BY <1>1, SubSeqProperties
<1>5. ASSUME NEW i \in 1..n PROVE SubSeq(s, 1, n)[i] = s[i]
  <2>1. i \in 1..(n - 1 + 1) /\ 1 + i - 1 = i OBVIOUS
  <2> QED BY <1>4, <2>1
<1>6. Len(SubSeq(s, 1, n)) = n BY <1>3
<1> QED BY <1>2, <1>5, <1>6

\* What Front and Last do to a sequence that is not empty.
LEMMA FrontLast ==
  ASSUME NEW S, NEW s \in Seq(S), Len(s) > 0
  PROVE  /\ Front(s) \in Seq(S) /\ Len(Front(s)) = Len(s) - 1 /\ Len(s) \in Nat \ {0}
         /\ \A i \in 1..(Len(s) - 1) : Front(s)[i] = s[i]
         /\ Last(s) = s[Len(s)] /\ Last(s) \in S
<1>1. Len(s) \in Nat \ {0} BY LenProperties
<1>2. PICK n \in Nat : n = Len(s) - 1 BY <1>1
<1>3. \A i \in 1..n : s[i] \in S BY <1>1, <1>2, ElementOfSeq
<1>4. /\ SubSeq(s, 1, n) \in Seq(S) /\ Len(SubSeq(s, 1, n)) = n
      /\ \A i \in 1..n : SubSeq(s, 1, n)[i] = s[i]
  BY <1>3, Prefix
<1>5. Last(s) = s[Len(s)] /\ Last(s) \in S BY <1>1, ElementOfSeq DEF Last
<1> QED BY <1>1, <1>2, <1>4, <1>5 DEF Front

\* What Append does, to a sequence of anything.
LEMMA Appending ==
  ASSUME NEW S, NEW s \in Seq(S), NEW e
  PROVE  /\ Append(s, e) \in Seq(S \cup {e}) /\ Len(Append(s, e)) = Len(s) + 1 /\ Len(s) \in Nat
         /\ \A i \in 1..Len(s) : Append(s, e)[i] = s[i]
         /\ Append(s, e)[Len(s) + 1] = e
<1>1. s \in Seq(S \cup {e}) /\ e \in S \cup {e} BY SeqMonotonic
<1> QED BY <1>1

-----------------------------------------------------------------------------
(* Facts about a layout. *)

\* The depths of a frame's instruction are well formed, and its handlers resume in it.
LEMMA InfoFacts ==
  ASSUME NEW code, NEW D, Verified(code, D), NEW f \in DOMAIN code, NEW p \in DOMAIN D[f]
  PROVE  /\ p \in Nat \ {0} /\ D[f][p] \in Depth
         /\ TriesKept(D[f], p) /\ FlowKept(code, D[f], f, p)
         /\ Reached(D[f], 1, 0, <<>>)
BY DEF Verified, Depth, Try

\* The depths of every frame.
LEMMA FrameInfo ==
  ASSUME NEW code, NEW D, Verified(code, D), NEW fr, NEW i, Standing(code, D, fr, i),
         NEW d \in 1..Len(fr)
  PROVE  /\ Info(D, fr, i, d) \in Depth
         /\ Info(D, fr, i, d).values \in Nat /\ Info(D, fr, i, d).tries \in Seq(Try)
         /\ Len(Info(D, fr, i, d).tries) \in Nat
<1>1. fr[d].fn \in DOMAIN code /\ Place(fr, i, d) \in DOMAIN D[fr[d].fn]
  BY DEF Standing
<1>2. Info(D, fr, i, d) \in Depth BY <1>1, InfoFacts DEF Info
<1> QED BY <1>2, LenProperties DEF Depth

\* What lies above frame d starts above what it has.
LEMMA Above ==
  ASSUME NEW code, NEW D, Verified(code, D), NEW fr, NEW i, NEW m, NEW hs, NEW sb, NEW hb,
         Len(fr) \in Nat, Standing(code, D, fr, i), Divided(D, fr, i, m, hs, sb, hb),
         NEW d \in 1..Len(fr), NEW e \in 1..Len(fr), d < e
  PROVE  /\ sb[d] + Info(D, fr, i, d).values <= sb[e]
         /\ hb[d] + Len(Info(D, fr, i, d).tries) <= hb[e]
<1>1. d \in 1..(Len(fr) - 1) /\ d + 1 \in 1..Len(fr) /\ d + 1 <= e OBVIOUS
<1>2. sb[d + 1] <= sb[e] /\ hb[d + 1] <= hb[e] BY <1>1 DEF Divided
<1>3. /\ sb[d + 1] = sb[d] + Info(D, fr, i, d).values
      /\ hb[d + 1] = hb[d] + Len(Info(D, fr, i, d).tries)
  BY <1>1 DEF Divided
<1> QED BY <1>2, <1>3

\* A layout has its handlers in the order of their frames, and within the stack.
LEMMA LayoutLive ==
  ASSUME NEW code, NEW D, Verified(code, D), NEW fr, NEW i, NEW m, NEW hs, NEW sb, NEW hb,
         Len(fr) \in Nat, Len(hs) \in Nat, Layout(code, D, fr, i, m, hs, sb, hb),
         NEW k \in 1..Len(hs)
  PROVE  /\ hs[k].frameDepth \in 1..Len(fr)
         /\ hs[k].stackDepth \in Nat /\ hs[k].stackDepth <= m
         /\ \A l \in 1..Len(hs) : l <= k => hs[l].frameDepth <= hs[k].frameDepth
<1> USE DEF Layout
<1>1. PICK d \in 1..Len(fr) : d = hs[k].frameDepth BY DEF Handled
<1>2. PICK x \in Depth : x = Info(D, fr, i, d) BY FrameInfo
<1>3. Placed(x, hs[k], k - hb[d], sb[d]) BY <1>1, <1>2 DEF Handled
<1>4. PICK j \in 1..Len(x.tries) : j = k - hb[d] BY <1>3 DEF Placed
<1>5. x.tries \in Seq(Try) /\ x.values \in Nat /\ Len(x.tries) \in Nat BY <1>2, FrameInfo
<1>6. x.tries[j] \in Try BY <1>4, <1>5, ElementOfSeq
<1>7. x.tries[j].values <= x.values
  <2>1. fr[d].fn \in DOMAIN code /\ Place(fr, i, d) \in DOMAIN D[fr[d].fn] BY DEF Standing
  <2>2. TriesKept(D[fr[d].fn], Place(fr, i, d)) BY <2>1, InfoFacts
  <2>3. j \in DOMAIN x.tries BY <1>5, LenProperties
  <2> QED BY <2>2, <2>3, <1>2 DEF TriesKept, Info
<1>8. sb \in [1..Len(fr) -> Nat] /\ hb \in [1..Len(fr) -> Nat] BY DEF Divided
<1>9. hs[k].stackDepth = sb[d] + x.tries[j].values BY <1>3, <1>4 DEF Placed
<1>10. sb[d] + x.values <= m
  <2>1. CASE d = Len(fr) BY <2>1, <1>2, <1>5, <1>8 DEF Divided
  <2>2. CASE d < Len(fr)
    <3>1. PICK e \in 1..Len(fr) : e = Len(fr) BY <2>2
    <3>2. sb[d] + x.values <= sb[e] BY <3>1, <2>2, <1>2, Above
    <3>3. PICK y \in Nat : y = Info(D, fr, i, e).values BY FrameInfo
    <3>4. m = sb[e] + y BY <3>1, <3>3 DEF Divided
    <3>5. PICK z \in Nat : z = sb[e] BY <1>8
    <3>6. sb[d] \in Nat /\ x.values \in Nat BY <1>5, <1>8
    <3> QED BY SMTT(30), <3>2, <3>4, <3>5, <3>6
  <2> QED BY <2>1, <2>2
<1>11. hs[k].stackDepth \in Nat /\ hs[k].stackDepth <= m
  <2>1. m \in Int BY FrameInfo, <1>8 DEF Divided, Standing
  <2>2. x.tries[j].values \in Nat /\ sb[d] \in Nat BY <1>6, <1>8 DEF Try
  <2>3. PICK v \in Nat : v = x.tries[j].values BY <2>2
  <2>4. PICK w \in Nat : w = x.values BY <1>5
  <2>5. v <= w /\ hs[k].stackDepth = sb[d] + v /\ sb[d] + w <= m
    BY <2>3, <2>4, <1>7, <1>9, <1>10
  <2>6. PICK z \in Nat : z = sb[d] BY <2>2
  <2>7. hs[k].stackDepth = z + v /\ z + w <= m BY <2>5, <2>6
  <2> QED BY ONLY <2>1, <2>5, <2>7, z \in Nat, v \in Nat, w \in Nat
<1>12. ASSUME NEW l \in 1..Len(hs), l <= k PROVE hs[l].frameDepth <= hs[k].frameDepth
  <2>1. PICK e \in 1..Len(fr) : e = hs[l].frameDepth BY DEF Handled
  <2>2. SUFFICES ASSUME d < e PROVE FALSE BY <1>1, <2>1
  <2>3. l - hb[e] \in 1..Len(Info(D, fr, i, e).tries) BY <2>1 DEF Handled, Placed
  <2>4. l > hb[e] BY SMTT(30), <2>3, <1>8
  <2>5. hb[d] + Len(x.tries) <= hb[e] BY <2>2, <1>2, Above
  <2>6. k <= hb[d] + Len(x.tries) BY SMTT(30), <1>4, <1>5, <1>8
  <2>7. hb[d] \in Nat /\ hb[e] \in Nat /\ Len(x.tries) \in Nat /\ k \in Nat /\ l \in Nat
    BY <1>5, <1>8
  <2> QED BY <2>4, <2>5, <2>6, <2>7, <1>12
<1> QED BY <1>1, <1>11, <1>12

\* A layout's handlers of frame e are the ones its depths tell of, and no others.
LEMMA FrameHandlers ==
  ASSUME NEW code, NEW D, Verified(code, D), NEW fr, NEW i, NEW m, NEW hs, NEW sb, NEW hb,
         Len(fr) \in Nat, Len(hs) \in Nat, Layout(code, D, fr, i, m, hs, sb, hb),
         NEW e \in 1..Len(fr), NEW j \in 1..Len(Info(D, fr, i, e).tries)
  PROVE  /\ hb[e] + j \in 1..Len(hs) /\ hs[hb[e] + j].frameDepth = e
         /\ Placed(Info(D, fr, i, e), hs[hb[e] + j], j, sb[e])
<1>0. /\ Standing(code, D, fr, i) /\ Divided(D, fr, i, m, hs, sb, hb)
      /\ Handled(D, fr, i, hs, sb, hb)
  BY DEF Layout
<1>1. hb \in [1..Len(fr) -> Nat] BY <1>0 DEF Divided
<1>2. PICK w \in Nat : w = Len(Info(D, fr, i, e).tries) BY <1>0, FrameInfo
<1>3. PICK k \in Nat : k = hb[e] + j BY <1>1, <1>2
<1>4. k \in 1..Len(hs)
  <2>1. hb[e] + w <= Len(hs)
    <3>1. CASE e = Len(fr) BY <3>1, <1>0, <1>2, <1>1 DEF Divided
    <3>2. CASE e < Len(fr)
      <4>1. PICK n \in 1..Len(fr) : n = Len(fr) BY <3>2
      <4>2. hb[e] + w <= hb[n] BY <4>1, <3>2, <1>0, <1>2, Above
      <4>3. PICK y \in Nat : y = Len(Info(D, fr, i, n).tries) BY <1>0, FrameInfo
      <4>4. Len(hs) = hb[n] + y BY <4>1, <4>3, <1>0 DEF Divided
      <4>5. hb[n] \in Nat /\ hb[e] \in Nat BY <1>1
      <4> QED BY <4>2, <4>3, <4>4, <4>5
    <3> QED BY <3>1, <3>2
  <2> QED BY <2>1, <1>1, <1>2, <1>3
<1>5. PICK d \in 1..Len(fr) : d = hs[k].frameDepth BY <1>0, <1>4 DEF Handled
<1>6. Placed(Info(D, fr, i, d), hs[k], k - hb[d], sb[d]) BY <1>0, <1>4, <1>5 DEF Handled
<1>7. PICK z \in Nat : z = Len(Info(D, fr, i, d).tries) BY <1>0, FrameInfo
<1>8. k - hb[d] \in 1..z BY <1>6, <1>7 DEF Placed
<1>9. hb[d] \in Nat /\ hb[e] \in Nat /\ j \in 1..w BY <1>1, <1>2
<1>10. ~(d < e)
  <2> SUFFICES ASSUME d < e PROVE FALSE OBVIOUS
  <2>1. hb[d] + z <= hb[e] BY <1>0, <1>7, Above
  <2>2. PICK a \in Nat, b \in Nat : a = hb[d] /\ b = hb[e] BY <1>9
  <2>3. a + z <= b /\ k = b + j /\ k - a \in 1..z BY <2>1, <2>2, <1>3, <1>8
  <2> QED BY ONLY <2>3, <1>9, a \in Nat, b \in Nat, z \in Nat, w \in Nat, k \in Nat
<1>11. ~(e < d)
  <2> SUFFICES ASSUME e < d PROVE FALSE OBVIOUS
  <2>1. hb[e] + w <= hb[d] BY <1>0, <1>2, Above
  <2>2. PICK a \in Nat, b \in Nat : a = hb[d] /\ b = hb[e] BY <1>9
  <2>3. b + w <= a /\ k = b + j /\ k - a \in 1..z BY <2>1, <2>2, <1>3, <1>8
  <2> QED BY ONLY <2>3, <1>9, a \in Nat, b \in Nat, z \in Nat, w \in Nat, k \in Nat
<1>12. d = e BY <1>10, <1>11
<1>13. k - hb[d] = j BY <1>12, <1>9, <1>3
<1>14. Placed(Info(D, fr, i, e), hs[k], j, sb[e]) BY <1>6, <1>12, <1>13
<1>15. hb[e] + j = k BY <1>3
<1> QED BY <1>14, <1>12, <1>5, <1>4, <1>15

\* Frames fr2 are the first e of fr, but for the locals.
Cut(fr, fr2, e) ==
  /\ Len(fr2) = e
  /\ \A d \in 1..e : fr2[d].fn = fr[d].fn /\ fr2[d].ret = fr[d].ret

\* Frame e, now on top, is at instruction i2 with the values and handlers that belong
\* there, and what is below it is as it was.
Resumes(D, fr, i2, e, m2, hs, hs2, sb, hb) ==
  /\ i2 \in DOMAIN D[fr[e].fn]
  /\ m2 = sb[e] + D[fr[e].fn][i2].values
  /\ Len(hs2) = hb[e] + Len(D[fr[e].fn][i2].tries)
  /\ \A k \in 1..hb[e] : hs2[k] = hs[k]
  /\ \A j \in 1..Len(D[fr[e].fn][i2].tries) :
       hs2[hb[e] + j].frameDepth = e /\ Placed(D[fr[e].fn][i2], hs2[hb[e] + j], j, sb[e])

\* Control that stays in or comes back to frame e leaves a layout.
LEMMA Resume ==
  ASSUME NEW code, NEW D, Verified(code, D), NEW fr, NEW i, NEW m, NEW hs, NEW sb, NEW hb,
         Len(fr) \in Nat, Len(hs) \in Nat, Layout(code, D, fr, i, m, hs, sb, hb),
         NEW e \in 1..Len(fr), NEW fr2, Cut(fr, fr2, e),
         NEW i2, NEW m2, NEW hs2, Resumes(D, fr, i2, e, m2, hs, hs2, sb, hb)
  PROVE  Layout(code, D, fr2, i2, m2, hs2, [d \in 1..e |-> sb[d]], [d \in 1..e |-> hb[d]])
<1>0. /\ Standing(code, D, fr, i) /\ Divided(D, fr, i, m, hs, sb, hb)
      /\ Handled(D, fr, i, hs, sb, hb)
  BY DEF Layout
<1>1. sb \in [1..Len(fr) -> Nat] /\ hb \in [1..Len(fr) -> Nat] BY <1>0 DEF Divided
<1>2. Len(fr2) = e /\ e \in Nat /\ e > 0 /\ \A d \in 1..e : d \in 1..Len(fr) BY DEF Cut
<1>3. /\ Place(fr2, i2, e) = i2
      /\ Info(D, fr2, i2, e) = D[fr[e].fn][i2]
  BY <1>2 DEF Cut, Place, Info
<1>4. ASSUME NEW d \in 1..e, d < e
      PROVE  Place(fr2, i2, d) = Place(fr, i, d) /\ Info(D, fr2, i2, d) = Info(D, fr, i, d)
  <2>1. d # Len(fr2) /\ d # Len(fr) /\ d + 1 \in 1..e BY <1>2, <1>4
  <2>2. Place(fr2, i2, d) = Place(fr, i, d) BY <2>1 DEF Place, Cut
  <2> QED BY <2>2 DEF Info, Cut
<1> DEFINE sb2 == [d \in 1..e |-> sb[d]]
           hb2 == [d \in 1..e |-> hb[d]]
<1>5. Standing(code, D, fr2, i2)
  <2> SUFFICES ASSUME NEW d \in 1..e
               PROVE  /\ fr2[d].fn \in DOMAIN code /\ fr2[d].ret \in Nat
                      /\ fr2[d].fn = "main" <=> d = 1
                      /\ Place(fr2, i2, d) \in DOMAIN D[fr2[d].fn]
                      /\ d < e => code[fr2[d].fn][Place(fr2, i2, d)].op = "Call"
    BY <1>2 DEF Standing
  <2>1. d \in 1..Len(fr) /\ fr2[d].fn = fr[d].fn /\ fr2[d].ret = fr[d].ret BY <1>2 DEF Cut
  <2>2. CASE d = e
    <3>1. fr[e].fn \in DOMAIN code /\ fr[e].ret \in Nat /\ (fr[e].fn = "main" <=> e = 1)
      BY <1>0 DEF Standing
    <3>2. i2 \in DOMAIN D[fr[e].fn] BY DEF Resumes
    <3>3. ~(d < e) BY <2>2, <1>2
    <3> QED BY <2>1, <2>2, <3>1, <3>2, <3>3, <1>3
  <2>3. CASE d < e BY <2>1, <2>3, <1>0, <1>4 DEF Standing
  <2> QED BY <2>2, <2>3
<1>6. Divided(D, fr2, i2, m2, hs2, sb2, hb2)
  <2>1. /\ sb2 \in [1..e -> Nat] /\ hb2 \in [1..e -> Nat] /\ sb2[1] = 0 /\ hb2[1] = 0
    <3>1. sb2 \in [1..e -> Nat] /\ hb2 \in [1..e -> Nat] BY <1>1, <1>2
    <3>2. 1 \in 1..e /\ sb[1] = 0 /\ hb[1] = 0 BY <1>0, <1>2 DEF Divided
    <3> QED BY <3>1, <3>2
  <2>2. ASSUME NEW d \in 1..(e - 1)
        PROVE  /\ sb2[d + 1] = sb2[d] + Info(D, fr2, i2, d).values
               /\ hb2[d + 1] = hb2[d] + Len(Info(D, fr2, i2, d).tries)
    <3>1. d \in 1..e /\ d < e /\ d + 1 \in 1..e /\ d \in 1..(Len(fr) - 1) BY <1>2
    <3>2. Info(D, fr2, i2, d) = Info(D, fr, i, d) BY <3>1, <1>4
    <3>3. /\ sb[d + 1] = sb[d] + Info(D, fr, i, d).values
          /\ hb[d + 1] = hb[d] + Len(Info(D, fr, i, d).tries)
      BY <3>1, <1>0 DEF Divided
    <3> QED BY <3>1, <3>2, <3>3
  <2>3. /\ m2 = sb2[e] + Info(D, fr2, i2, e).values
        /\ Len(hs2) = hb2[e] + Len(Info(D, fr2, i2, e).tries)
    <3>1. /\ m2 = sb[e] + D[fr[e].fn][i2].values
          /\ Len(hs2) = hb[e] + Len(D[fr[e].fn][i2].tries)
      BY DEF Resumes
    <3>2. sb2[e] = sb[e] /\ hb2[e] = hb[e] BY <1>2
    <3> QED BY <3>1, <3>2, <1>3
  <2>4. \A d, c \in 1..e : d <= c => sb2[d] <= sb2[c] /\ hb2[d] <= hb2[c]
    BY <1>0, <1>2 DEF Divided
  <2> HIDE DEF sb2, hb2
  <2> QED BY <1>2, <2>1, <2>2, <2>3, <2>4 DEF Divided
<1>7. Handled(D, fr2, i2, hs2, sb2, hb2)
  <2> SUFFICES ASSUME NEW k \in 1..Len(hs2)
               PROVE  /\ hs2[k].frameDepth \in 1..e
                      /\ Placed(Info(D, fr2, i2, hs2[k].frameDepth), hs2[k],
                                k - hb2[hs2[k].frameDepth], sb2[hs2[k].frameDepth])
    BY <1>2 DEF Handled
  <2>1. PICK w \in Nat : w = Len(D[fr[e].fn][i2].tries)
    <3>1. fr[e].fn \in DOMAIN code /\ i2 \in DOMAIN D[fr[e].fn] BY <1>0 DEF Standing, Resumes
    <3> QED BY <3>1, InfoFacts, LenProperties DEF Depth
  <2>2. PICK b \in Nat : b = hb[e] BY <1>1
  <2>3. Len(hs2) = b + w BY <2>1, <2>2 DEF Resumes
  <2>4. CASE k > b
    <3>1. PICK j \in 1..w : k = b + j
      <4>1. k \in 1..(b + w) BY <2>3
      <4>2. k - b \in 1..w /\ k = b + (k - b) BY <4>1, <2>4
      <4> QED BY <4>2
    <3>2. hs2[k].frameDepth = e /\ Placed(D[fr[e].fn][i2], hs2[k], j, sb[e])
      BY <3>1, <2>1, <2>2 DEF Resumes
    <3>3. k - hb2[e] = j BY <3>1, <2>2, <1>2
    <3>4. sb2[e] = sb[e] BY <1>2
    <3> QED BY <3>2, <3>3, <3>4, <1>2, <1>3
  <2>5. CASE k <= b
    <3>1. b <= Len(hs)
      <4>1. PICK n \in 1..Len(fr) : n = Len(fr) BY <1>2
      <4>2. PICK y \in Nat : y = Len(Info(D, fr, i, n).tries) BY <1>0, FrameInfo
      <4>3. Len(hs) = hb[n] + y /\ hb[e] <= hb[n] BY <4>1, <4>2, <1>0 DEF Divided
      <4>4. hb[n] \in Nat BY <1>1
      <4> QED BY <4>2, <4>3, <4>4, <2>2
    <3>2. k \in 1..b /\ k \in 1..Len(hs) BY <3>1, <2>3, <2>5
    <3>3. hs2[k] = hs[k] BY <3>2, <2>2 DEF Resumes
    <3>4. PICK d \in 1..Len(fr) : d = hs[k].frameDepth BY <3>2, <1>0 DEF Handled
    <3>5. Placed(Info(D, fr, i, d), hs[k], k - hb[d], sb[d]) BY <3>2, <3>4, <1>0 DEF Handled
    <3>6. d < e
      <4> SUFFICES ASSUME e <= d PROVE FALSE OBVIOUS
      <4>1. PICK y \in Nat : y = Len(Info(D, fr, i, d).tries) BY <1>0, FrameInfo
      <4>2. k - hb[d] \in 1..y BY <4>1, <3>5 DEF Placed
      <4>3. b <= hb[d] BY <2>2, <1>0 DEF Divided
      <4>4. hb[d] \in Nat BY <1>1
      <4> QED BY <4>2, <4>3, <4>4, <3>2
    <3>7. d \in 1..e /\ hb2[d] = hb[d] /\ sb2[d] = sb[d] BY <3>6, <1>2
    <3>8. Info(D, fr2, i2, d) = Info(D, fr, i, d) BY <3>6, <3>7, <1>4
    <3> QED BY <3>3, <3>4, <3>5, <3>7, <3>8
  <2> QED BY <2>3, <2>4, <2>5
<1> QED BY <1>5, <1>6, <1>7 DEF Layout

\* A call stacks a frame whose values and handlers start above all there are.
LEMMA CallLayout ==
  ASSUME NEW code, NEW D, Verified(code, D), NEW fr, NEW i, NEW m, NEW hs, NEW sb, NEW hb,
         Len(fr) \in Nat, Len(hs) \in Nat, Layout(code, D, fr, i, m, hs, sb, hb),
         code[fr[Len(fr)].fn][i].op = "Call",
         NEW fr2, Len(fr2) = Len(fr) + 1,
         \A d \in 1..Len(fr) : fr2[d] = fr[d],
         fr2[Len(fr) + 1].fn \in DOMAIN code \ {"main"}, fr2[Len(fr) + 1].ret = i + 1
  PROVE  \E sb2, hb2 : Layout(code, D, fr2, 1, m, hs, sb2, hb2)
<1>0. /\ Standing(code, D, fr, i) /\ Divided(D, fr, i, m, hs, sb, hb)
      /\ Handled(D, fr, i, hs, sb, hb)
  BY DEF Layout
<1>1. PICK n \in Nat : n = Len(fr) /\ n > 0 BY <1>0 DEF Standing
<1>2. PICK f \in DOMAIN code : f = fr2[n + 1].fn /\ f # "main" BY <1>1
<1>3. Reached(D[f], 1, 0, <<>>) BY DEF Verified
<1>4. i \in Nat /\ i + 1 \in Nat
  <2>1. n \in 1..Len(fr) /\ Place(fr, i, n) = i BY <1>1 DEF Place
  <2>2. fr[n].fn \in DOMAIN code /\ i \in DOMAIN D[fr[n].fn] BY <2>1, <1>0 DEF Standing
  <2>3. i \in Nat BY <2>2, InfoFacts
  <2> QED BY <2>3
<1>5. /\ Place(fr2, 1, n + 1) = 1
      /\ Info(D, fr2, 1, n + 1) = [values |-> 0, tries |-> <<>>]
  BY <1>1, <1>2, <1>3 DEF Place, Info, Reached
<1>6. ASSUME NEW d \in 1..n
      PROVE  Place(fr2, 1, d) = Place(fr, i, d) /\ Info(D, fr2, 1, d) = Info(D, fr, i, d)
  <2>1. CASE d = n
    <3>1. fr2[n + 1].ret - 1 = i BY SMTT(30), <1>1, <1>4
    <3> QED BY <2>1, <3>1, <1>1 DEF Place, Info
  <2>2. CASE d < n
    <3>1. d # Len(fr) /\ d # Len(fr2) /\ d + 1 \in 1..Len(fr) BY <2>2, <1>1
    <3> QED BY <3>1, <1>1 DEF Place, Info
  <2> QED BY <2>1, <2>2
<1> DEFINE sb2 == [d \in 1..(n + 1) |-> IF d = n + 1 THEN m ELSE sb[d]]
           hb2 == [d \in 1..(n + 1) |-> IF d = n + 1 THEN Len(hs) ELSE hb[d]]
<1>7. sb \in [1..n -> Nat] /\ hb \in [1..n -> Nat] BY <1>0, <1>1 DEF Divided
<1>8. /\ m = sb[n] + Info(D, fr, i, n).values
      /\ Len(hs) = hb[n] + Len(Info(D, fr, i, n).tries)
  BY <1>0, <1>1 DEF Divided
<1>9. PICK v \in Nat, t \in Nat : v = Info(D, fr, i, n).values /\ t = Len(Info(D, fr, i, n).tries)
  BY <1>0, <1>1, FrameInfo
<1>10. m \in Nat /\ sb[n] <= m /\ hb[n] <= Len(hs)
  <2>1. PICK a \in Nat, b \in Nat : a = sb[n] /\ b = hb[n] BY <1>1, <1>7
  <2>2. m = a + v /\ Len(hs) = b + t BY <2>1, <1>8, <1>9
  <2>3. a + v \in Nat /\ a <= a + v /\ b <= b + t BY a \in Nat, b \in Nat, v \in Nat, t \in Nat
  <2> QED BY <2>1, <2>2, <2>3
<1>11. /\ \A d \in 1..n : sb2[d] = sb[d] /\ hb2[d] = hb[d]
       /\ sb2[n + 1] = m /\ hb2[n + 1] = Len(hs)
       /\ sb2 \in [1..(n + 1) -> Nat] /\ hb2 \in [1..(n + 1) -> Nat]
  BY SMTT(30), <1>7, <1>10
<1> HIDE DEF sb2, hb2
<1>12. Standing(code, D, fr2, 1)
  <2> SUFFICES ASSUME NEW d \in 1..(n + 1)
               PROVE  /\ fr2[d].fn \in DOMAIN code /\ fr2[d].ret \in Nat
                      /\ fr2[d].fn = "main" <=> d = 1
                      /\ Place(fr2, 1, d) \in DOMAIN D[fr2[d].fn]
                      /\ d < n + 1 => code[fr2[d].fn][Place(fr2, 1, d)].op = "Call"
    BY <1>1 DEF Standing
  <2>1. CASE d = n + 1
    <3>1. 1 \in DOMAIN D[f] BY <1>3 DEF Reached
    <3> QED BY <2>1, <3>1, <1>1, <1>2, <1>4, <1>5
  <2>2. CASE d < n + 1
    <3>1. d \in 1..n /\ fr2[d] = fr[d] BY <2>2, <1>1
    <3>2. Place(fr2, 1, d) = Place(fr, i, d) BY <3>1, <1>6
    <3>3. /\ fr[d].fn \in DOMAIN code /\ fr[d].ret \in Nat
          /\ fr[d].fn = "main" <=> d = 1
          /\ Place(fr, i, d) \in DOMAIN D[fr[d].fn]
      BY <3>1, <1>0, <1>1 DEF Standing
    <3>4. code[fr[d].fn][Place(fr, i, d)].op = "Call"
      <4>1. CASE d = n BY <4>1, <1>1 DEF Place
      <4>2. CASE d < n BY <4>2, <3>1, <1>0, <1>1 DEF Standing
      <4> QED BY <4>1, <4>2, <3>1
    <3> QED BY <3>1, <3>2, <3>3, <3>4
  <2> QED BY <2>1, <2>2
<1>13. Divided(D, fr2, 1, m, hs, sb2, hb2)
  <2>1. sb2[1] = 0 /\ hb2[1] = 0 BY <1>0, <1>1, <1>11 DEF Divided
  <2>2. ASSUME NEW d \in 1..n
        PROVE  /\ sb2[d + 1] = sb2[d] + Info(D, fr2, 1, d).values
               /\ hb2[d + 1] = hb2[d] + Len(Info(D, fr2, 1, d).tries)
    <3>1. Info(D, fr2, 1, d) = Info(D, fr, i, d) BY <1>6
    <3>2. CASE d = n BY <3>1, <3>2, <1>8, <1>11
    <3>3. CASE d < n
      <4>1. d + 1 \in 1..n /\ d \in 1..(Len(fr) - 1) BY <3>3, <1>1
      <4>2. /\ sb[d + 1] = sb[d] + Info(D, fr, i, d).values
            /\ hb[d + 1] = hb[d] + Len(Info(D, fr, i, d).tries)
        BY <4>1, <1>0 DEF Divided
      <4> QED BY <3>1, <4>1, <4>2, <1>11
    <3> QED BY <3>2, <3>3
  <2>3. /\ m = sb2[n + 1] + Info(D, fr2, 1, n + 1).values
        /\ Len(hs) = hb2[n + 1] + Len(Info(D, fr2, 1, n + 1).tries)
    BY <1>5, <1>10, <1>11
  <2>4. ASSUME NEW d \in 1..(n + 1), NEW c \in 1..(n + 1), d <= c
        PROVE  sb2[d] <= sb2[c] /\ hb2[d] <= hb2[c]
    <3>1. \A x, y \in 1..n : x <= y => sb[x] <= sb[y] /\ hb[x] <= hb[y]
      BY <1>0, <1>1 DEF Divided
    <3>2. CASE c = n + 1 /\ d = n + 1 BY <3>2, <1>10, <1>11
    <3>3. CASE c = n + 1 /\ d # n + 1
      <4>1. d \in 1..n /\ n \in 1..n /\ d <= n BY <3>3, <1>1
      <4>2. sb[d] <= sb[n] /\ hb[d] <= hb[n] BY <4>1, <3>1
      <4>3. sb[d] \in Nat /\ hb[d] \in Nat /\ sb[n] \in Nat /\ hb[n] \in Nat BY <4>1, <1>7
      <4>4. sb[d] <= m /\ hb[d] <= Len(hs) BY <4>2, <4>3, <1>10
      <4> QED BY <4>1, <4>4, <3>3, <1>11
    <3>4. CASE c # n + 1
      <4>1. d \in 1..n /\ c \in 1..n BY <3>4, <2>4
      <4> QED BY <4>1, <3>1, <2>4, <1>11
    <3> QED BY <3>2, <3>3, <3>4
  <2>5. Len(fr2) = n + 1 /\ Len(fr2) - 1 = n BY <1>1
  <2> QED BY <2>1, <2>2, <2>3, <2>4, <2>5, <1>11 DEF Divided
<1>14. Handled(D, fr2, 1, hs, sb2, hb2)
  <2> SUFFICES ASSUME NEW k \in 1..Len(hs)
               PROVE  /\ hs[k].frameDepth \in 1..Len(fr2)
                      /\ Placed(Info(D, fr2, 1, hs[k].frameDepth), hs[k],
                                k - hb2[hs[k].frameDepth], sb2[hs[k].frameDepth])
    BY DEF Handled
  <2>1. PICK d \in 1..n : d = hs[k].frameDepth BY <1>0, <1>1 DEF Handled
  <2>2. Placed(Info(D, fr, i, d), hs[k], k - hb[d], sb[d]) BY <2>1, <1>0 DEF Handled
  <2>3. d \in 1..Len(fr2) BY <1>1
  <2> QED BY <2>1, <2>2, <2>3, <1>6, <1>11
<1>15. Layout(code, D, fr2, 1, m, hs, sb2, hb2) BY <1>12, <1>13, <1>14 DEF Layout
<1> QED BY <1>15

-----------------------------------------------------------------------------
(* The invariant of the dispatch loop. *)

DispatchTypes ==
  /\ status \in {"running", "done", "uncaught"}
  /\ \E L : frames \in Seq([fn : DOMAIN script.code, ret : Nat, locals : L])
  /\ \E V : stack \in Seq(V)
  /\ handlers \in Seq(Handler)
  /\ \E E : defers \in Seq(E)

\* The frames, values and handlers of a running script are laid out as the depths tell.
InLayout ==
  \E sb, hb : Layout(script.code, Depths(script.code), frames, ip, Len(stack), handlers, sb, hb)

DispatchInv ==
  /\ CodeVerified
  /\ DispatchTypes
  /\ status = "running" => Len(defers) = Len(frames) /\ InLayout
  /\ status # "running" => handlers = <<>>
  /\ status = "done" => stack = <<>>

\* The running function, and its depths.
Fn == frames[Len(frames)].fn
Here == Depths(script.code)[Fn]

\* The state of a script that runs.
LEMMA Running ==
  ASSUME DispatchInv, status = "running"
  PROVE  /\ Len(frames) \in Nat \ {0} /\ Len(handlers) \in Nat /\ Len(stack) \in Nat
         /\ Len(defers) = Len(frames) /\ Last(frames) = frames[Len(frames)]
         /\ Cur = script.code[Fn][ip]
         /\ Fn \in DOMAIN script.code /\ (Fn = "main" <=> Len(frames) = 1)
         /\ ip \in DOMAIN Here /\ ip \in Nat \ {0} /\ Here[ip] \in Depth
         /\ Here[ip].values \in Nat /\ Here[ip].values <= Len(stack)
         /\ Here[ip].tries \in Seq(Try) /\ Len(Here[ip].tries) \in Nat
         /\ Len(Here[ip].tries) <= Len(handlers)
         /\ FlowKept(script.code, Here, Fn, ip)
<1>1. Verified(script.code, Depths(script.code)) BY DEF DispatchInv, CodeVerified
<1>2. Len(frames) \in Nat /\ Len(handlers) \in Nat /\ Len(stack) \in Nat
  BY LenProperties DEF DispatchInv, DispatchTypes
<1>3. Len(defers) = Len(frames) /\ InLayout BY DEF DispatchInv
<1>4. PICK sb, hb :
        Layout(script.code, Depths(script.code), frames, ip, Len(stack), handlers, sb, hb)
  BY <1>3 DEF InLayout
<1>5. /\ Standing(script.code, Depths(script.code), frames, ip)
      /\ Divided(Depths(script.code), frames, ip, Len(stack), handlers, sb, hb)
  BY <1>4 DEF Layout
<1>6. PICK n \in Nat : n = Len(frames) /\ n > 0 /\ n \in 1..Len(frames)
  BY <1>2, <1>5 DEF Standing
<1>7. Place(frames, ip, n) = ip BY <1>6 DEF Place
<1>8. Fn \in DOMAIN script.code /\ (Fn = "main" <=> n = 1) /\ ip \in DOMAIN Here
  BY <1>5, <1>6, <1>7 DEF Standing, Fn, Here
<1>9. /\ ip \in Nat \ {0} /\ Here[ip] \in Depth /\ FlowKept(script.code, Here, Fn, ip)
  BY <1>1, <1>8, InfoFacts DEF Here
<1>10. Info(Depths(script.code), frames, ip, n) = Here[ip]
  BY <1>6, <1>7 DEF Info, Here, Fn
<1>11. Here[ip].values \in Nat /\ Here[ip].tries \in Seq(Try) BY <1>9 DEF Depth
<1>12. Len(Here[ip].tries) \in Nat BY <1>11, LenProperties
<1>13. /\ Len(stack) = sb[n] + Here[ip].values /\ Len(handlers) = hb[n] + Len(Here[ip].tries)
       /\ sb[n] \in Nat /\ hb[n] \in Nat
  BY <1>5, <1>6, <1>10 DEF Divided
<1>14. Here[ip].values <= Len(stack) /\ Len(Here[ip].tries) <= Len(handlers)
  <2>1. PICK a \in Nat, b \in Nat, v \in Nat, t \in Nat :
          a = sb[n] /\ b = hb[n] /\ v = Here[ip].values /\ t = Len(Here[ip].tries)
    BY <1>11, <1>12, <1>13
  <2>2. v <= a + v /\ t <= b + t BY a \in Nat, b \in Nat, v \in Nat, t \in Nat
  <2> QED BY <2>1, <2>2, <1>13
<1>15. Last(frames) = frames[Len(frames)] /\ Cur = script.code[Fn][ip] BY DEF Last, Cur, Fn
<1> QED BY <1>2, <1>3, <1>6, <1>8, <1>9, <1>11, <1>12, <1>14, <1>15

\* Control that stays in or comes back to frame e keeps the invariant.
LEMMA ResumeInv ==
  ASSUME DispatchInv, status = "running", script' = script, status' = status, DispatchTypes',
         NEW sb, NEW hb,
         Layout(script.code, Depths(script.code), frames, ip, Len(stack), handlers, sb, hb),
         NEW e \in 1..Len(frames), Len(defers') = e, Cut(frames, frames', e),
         Resumes(Depths(script.code), frames, ip', e, Len(stack'), handlers, handlers', sb, hb)
  PROVE  DispatchInv'
<1>1. Verified(script.code, Depths(script.code)) BY DEF DispatchInv, CodeVerified
<1>2. Len(frames) \in Nat /\ Len(handlers) \in Nat BY Running
<1>3. Layout(script.code, Depths(script.code), frames', ip', Len(stack'), handlers',
             [d \in 1..e |-> sb[d]], [d \in 1..e |-> hb[d]])
  BY <1>1, <1>2, Resume
<1>4. InLayout'
  <2>1. \E sb2, hb2 : Layout(script.code, Depths(script.code), frames', ip', Len(stack'), handlers', sb2, hb2)
    BY <1>3
  <2> QED BY <2>1 DEF InLayout
<1>5. CodeVerified' BY <1>1 DEF CodeVerified
<1>6. Len(defers') = Len(frames') BY DEF Cut
<1> QED BY <1>4, <1>5, <1>6 DEF DispatchInv

\* How the running function's values and handlers lie on the stacks.
LEMMA TopLayout ==
  ASSUME DispatchInv, status = "running"
  PROVE  \E sb, hb :
           /\ Layout(script.code, Depths(script.code), frames, ip, Len(stack), handlers, sb, hb)
           /\ sb[Len(frames)] \in Nat /\ hb[Len(frames)] \in Nat
           /\ Len(stack) = sb[Len(frames)] + Here[ip].values
           /\ Len(handlers) = hb[Len(frames)] + Len(Here[ip].tries)
           /\ \A j \in 1..Len(Here[ip].tries) :
                /\ hb[Len(frames)] + j \in 1..Len(handlers)
                /\ handlers[hb[Len(frames)] + j].frameDepth = Len(frames)
                /\ Placed(Here[ip], handlers[hb[Len(frames)] + j], j, sb[Len(frames)])
<1>1. Verified(script.code, Depths(script.code)) BY DEF DispatchInv, CodeVerified
<1>2. PICK sb, hb :
        Layout(script.code, Depths(script.code), frames, ip, Len(stack), handlers, sb, hb)
  BY DEF DispatchInv, InLayout
<1>3. Len(frames) \in Nat \ {0} /\ Len(handlers) \in Nat BY Running
<1>4. PICK n \in 1..Len(frames) : n = Len(frames) BY <1>3
<1>5. Info(Depths(script.code), frames, ip, n) = Here[ip] BY <1>4 DEF Info, Place, Here, Fn
<1>6. Divided(Depths(script.code), frames, ip, Len(stack), handlers, sb, hb) BY <1>2 DEF Layout
<1>7. /\ Len(stack) = sb[n] + Here[ip].values /\ Len(handlers) = hb[n] + Len(Here[ip].tries)
      /\ sb[n] \in Nat /\ hb[n] \in Nat
  BY <1>4, <1>5, <1>6 DEF Divided
<1>8. ASSUME NEW j \in 1..Len(Here[ip].tries)
      PROVE  /\ hb[n] + j \in 1..Len(handlers) /\ handlers[hb[n] + j].frameDepth = n
             /\ Placed(Here[ip], handlers[hb[n] + j], j, sb[n])
  BY <1>1, <1>2, <1>3, <1>5, FrameHandlers
<1> QED BY <1>2, <1>4, <1>7, <1>8

\* A step of the running function under the same handlers keeps the invariant.
LEMMA Move ==
  ASSUME DispatchInv, status = "running", UNCHANGED <<script, handlers, status>>, DispatchTypes',
         Len(defers') = Len(defers), Cut(frames, frames', Len(frames)),
         NEW v \in Int, Reached(Here, ip', v, Here[ip].tries),
         Len(stack') = Len(stack) - Here[ip].values + v
  PROVE  DispatchInv'
<1>1. PICK sb, hb :
        /\ Layout(script.code, Depths(script.code), frames, ip, Len(stack), handlers, sb, hb)
        /\ sb[Len(frames)] \in Nat /\ hb[Len(frames)] \in Nat
        /\ Len(stack) = sb[Len(frames)] + Here[ip].values
        /\ Len(handlers) = hb[Len(frames)] + Len(Here[ip].tries)
        /\ \A j \in 1..Len(Here[ip].tries) :
             /\ hb[Len(frames)] + j \in 1..Len(handlers)
             /\ handlers[hb[Len(frames)] + j].frameDepth = Len(frames)
             /\ Placed(Here[ip], handlers[hb[Len(frames)] + j], j, sb[Len(frames)])
  BY TopLayout
<1>2. PICK n \in 1..Len(frames) : n = Len(frames) BY Running
<1>3. PICK y : y = Here[ip'] BY Zenon
<1>4. ip' \in DOMAIN Here /\ y.values = v /\ y.tries = Here[ip].tries
  BY <1>3 DEF Reached
<1>5. Len(stack') = sb[n] + v
  <2>1. PICK a \in Nat, w \in Nat : a = sb[n] /\ w = Here[ip].values BY <1>1, <1>2, Running
  <2>2. Len(stack') = (a + w) - w + v BY <2>1, <1>1, <1>2
  <2>3. (a + w) - w + v = a + v BY ONLY a \in Nat, w \in Nat, v \in Int
  <2> QED BY <2>1, <2>2, <2>3
<1>6. \A j \in 1..Len(y.tries) :
        handlers[hb[n] + j].frameDepth = n /\ Placed(y, handlers[hb[n] + j], j, sb[n])
  BY <1>1, <1>2, <1>4 DEF Placed
<1>7. Here = Depths(script.code)[frames[n].fn] BY <1>2 DEF Here, Fn
<1>8. Resumes(Depths(script.code), frames, ip', n, Len(stack'), handlers, handlers', sb, hb)
  BY <1>1, <1>2, <1>3, <1>4, <1>5, <1>6, <1>7 DEF Resumes
<1>9. Len(defers') = n BY <1>2, Running
<1> QED BY <1>1, <1>2, <1>8, <1>9, ResumeInv

\* An entered try pushes the handler that its depths tell of.
LEMMA PushInv ==
  ASSUME DispatchInv, OpPushExceptionHandler
  PROVE  DispatchInv'
<1>0. status = "running" /\ Cur.op = "PushHandler" BY DEF OpPushExceptionHandler, At
<1>1. PICK sb, hb :
        /\ Layout(script.code, Depths(script.code), frames, ip, Len(stack), handlers, sb, hb)
        /\ sb[Len(frames)] \in Nat /\ hb[Len(frames)] \in Nat
        /\ Len(stack) = sb[Len(frames)] + Here[ip].values
        /\ Len(handlers) = hb[Len(frames)] + Len(Here[ip].tries)
        /\ \A j \in 1..Len(Here[ip].tries) :
             /\ hb[Len(frames)] + j \in 1..Len(handlers)
             /\ handlers[hb[Len(frames)] + j].frameDepth = Len(frames)
             /\ Placed(Here[ip], handlers[hb[Len(frames)] + j], j, sb[Len(frames)])
  BY <1>0, TopLayout
<1>2. PICK n \in 1..Len(frames) : n = Len(frames) BY <1>0, Running
<1>3. PICK x \in Depth : x = Here[ip] BY <1>0, Running
<1>4. PICK to : to = Cur.to BY Zenon
<1>5. /\ Reached(Here, to, x.values, x.tries)
      /\ Reached(Here, ip + 1, x.values, Append(x.tries, [ip |-> to, values |-> x.values]))
  <2>1. Cur = script.code[Fn][ip] /\ FlowKept(script.code, Here, Fn, ip) BY <1>0, Running
  <2> QED BY <2>1, <1>0, <1>3, <1>4 DEF FlowKept
<1>6. to \in Nat
  <2>1. to \in DOMAIN Here /\ Fn \in DOMAIN script.code BY <1>0, <1>5, Running DEF Reached
  <2> QED BY <2>1, InfoFacts DEF DispatchInv, CodeVerified, Here
<1>7. PICK t \in Seq(Try) : t = x.tries BY <1>3 DEF Depth
<1>8. PICK u : u = [ip |-> to, values |-> x.values] BY Zenon
<1>9. x.values \in Nat BY <1>3 DEF Depth
<1>10. /\ Len(Append(t, u)) = Len(t) + 1 /\ Len(t) \in Nat
       /\ \A j \in 1..Len(t) : Append(t, u)[j] = t[j]
       /\ Append(t, u)[Len(t) + 1] = u
  BY Appending
<1>11. PICK h \in Handler : h = [ip |-> to, frameDepth |-> n, stackDepth |-> Len(stack)]
  BY <1>0, <1>2, <1>6, Running DEF Handler
<1>12. handlers' = Append(handlers, h) BY <1>2, <1>4, <1>11 DEF OpPushExceptionHandler
<1>13. /\ handlers' \in Seq(Handler) /\ Len(handlers') = Len(handlers) + 1
       /\ \A k \in 1..Len(handlers) : handlers'[k] = handlers[k]
       /\ handlers'[Len(handlers) + 1] = h
  BY <1>12 DEF DispatchInv, DispatchTypes
<1>14. PICK b \in Nat, l \in Nat : b = hb[n] /\ l = Len(t) BY <1>1, <1>2, <1>10
<1>15. Len(handlers) = b + l BY <1>1, <1>2, <1>3, <1>7, <1>14
<1>16. ip' = ip + 1 /\ UNCHANGED <<script, frames, stack, defers, status>>
  BY DEF OpPushExceptionHandler, Step
<1>17. PICK y : y = Here[ip'] BY Zenon
<1>18. ip' \in DOMAIN Here /\ y.values = x.values /\ y.tries = Append(t, u)
  BY <1>5, <1>7, <1>8, <1>16, <1>17 DEF Reached
<1>19. Len(y.tries) = l + 1 BY <1>10, <1>14, <1>18
<1>20. ASSUME NEW j \in 1..(l + 1)
       PROVE  handlers'[b + j].frameDepth = n /\ Placed(y, handlers'[b + j], j, sb[n])
  <2>1. CASE j = l + 1
    <3>1. b + j = Len(handlers) + 1 BY <2>1, <1>15
    <3>2. handlers'[b + j] = h BY <3>1, <1>13
    <3>3. y.tries[j] = u BY <2>1, <1>10, <1>14, <1>18
    <3>4. Len(stack) = sb[n] + x.values BY <1>1, <1>2, <1>3
    <3> QED BY <3>2, <3>3, <3>4, <1>8, <1>11, <1>19 DEF Placed
  <2>2. CASE j \in 1..l
    <3>1. b + j \in 1..Len(handlers) BY <2>2, <1>15
    <3>2. handlers'[b + j] = handlers[b + j] BY <3>1, <1>13
    <3>3. y.tries[j] = x.tries[j] BY <2>2, <1>7, <1>10, <1>14, <1>18
    <3>4. handlers[b + j].frameDepth = n /\ Placed(x, handlers[b + j], j, sb[n])
      BY <2>2, <1>1, <1>2, <1>3, <1>7, <1>14
    <3> QED BY <3>2, <3>3, <3>4, <1>19 DEF Placed
  <2> QED BY <2>1, <2>2
<1>21. \A k \in 1..b : handlers'[k] = handlers[k] BY <1>13, <1>15
<1>22. Len(handlers') = b + (l + 1) BY <1>13, <1>15
<1>23. Here = Depths(script.code)[frames[n].fn] BY <1>2 DEF Here, Fn
<1>24. Len(stack') = sb[n] + y.values BY <1>1, <1>2, <1>3, <1>16, <1>18
<1>25. Resumes(Depths(script.code), frames, ip', n, Len(stack'), handlers, handlers', sb, hb)
  BY <1>14, <1>17, <1>18, <1>19, <1>20, <1>21, <1>22, <1>23, <1>24 DEF Resumes
<1>26. DispatchTypes' BY <1>13, <1>16 DEF DispatchInv, DispatchTypes
<1>27. Cut(frames, frames', n) BY <1>2, <1>16 DEF Cut
<1>28. Len(defers') = n BY <1>0, <1>2, <1>16, Running
<1> QED BY <1>0, <1>1, <1>16, <1>25, <1>26, <1>27, <1>28, ResumeInv

\* Leaving a try pops the handler that it pushed.
LEMMA PopInv ==
  ASSUME DispatchInv, OpPopExceptionHandler
  PROVE  DispatchInv'
<1>0. status = "running" /\ Cur.op = "PopHandler" BY DEF OpPopExceptionHandler, At
<1>1. PICK sb, hb :
        /\ Layout(script.code, Depths(script.code), frames, ip, Len(stack), handlers, sb, hb)
        /\ sb[Len(frames)] \in Nat /\ hb[Len(frames)] \in Nat
        /\ Len(stack) = sb[Len(frames)] + Here[ip].values
        /\ Len(handlers) = hb[Len(frames)] + Len(Here[ip].tries)
        /\ \A j \in 1..Len(Here[ip].tries) :
             /\ hb[Len(frames)] + j \in 1..Len(handlers)
             /\ handlers[hb[Len(frames)] + j].frameDepth = Len(frames)
             /\ Placed(Here[ip], handlers[hb[Len(frames)] + j], j, sb[Len(frames)])
  BY <1>0, TopLayout
<1>2. PICK n \in 1..Len(frames) : n = Len(frames) BY <1>0, Running
<1>3. PICK x \in Depth : x = Here[ip] BY <1>0, Running
<1>4. PICK t \in Seq(Try) : t = x.tries BY <1>3 DEF Depth
<1>5. t # <<>> /\ Reached(Here, ip + 1, x.values, Front(t))
  <2>1. Cur = script.code[Fn][ip] /\ FlowKept(script.code, Here, Fn, ip) BY <1>0, Running
  <2> QED BY <2>1, <1>0, <1>3, <1>4 DEF FlowKept
<1>6. Len(t) \in Nat /\ Len(t) > 0 BY <1>5, EmptySeq
<1>7. Len(Front(t)) = Len(t) - 1 /\ \A j \in 1..(Len(t) - 1) : Front(t)[j] = t[j]
  BY <1>6, FrontLast
<1>8. PICK b \in Nat, l \in Nat : b = hb[n] /\ l + 1 = Len(t)
  <2>1. Len(t) - 1 \in Nat /\ (Len(t) - 1) + 1 = Len(t) BY <1>6
  <2> QED BY <2>1, <1>1, <1>2
<1>9. Len(handlers) = b + (l + 1) BY <1>1, <1>2, <1>3, <1>4, <1>8
<1>10. /\ handlers' \in Seq(Handler) /\ Len(handlers') = Len(handlers) - 1
       /\ \A k \in 1..(Len(handlers) - 1) : handlers'[k] = handlers[k]
  <2>1. handlers \in Seq(Handler) /\ Len(handlers) > 0 /\ handlers' = Front(handlers)
    BY SMTT(30), <1>8, <1>9 DEF DispatchInv, DispatchTypes, OpPopExceptionHandler
  <2> QED BY <2>1, FrontLast
<1>11. ip' = ip + 1 /\ UNCHANGED <<script, frames, stack, defers, status>>
  BY DEF OpPopExceptionHandler, Step
<1>12. PICK y : y = Here[ip'] BY Zenon
<1>13. ip' \in DOMAIN Here /\ y.values = x.values /\ y.tries = Front(t)
  BY <1>5, <1>11, <1>12 DEF Reached
<1>14. Len(y.tries) = l BY <1>7, <1>8, <1>13
<1>15. Len(handlers') = b + l BY <1>9, <1>10
<1>16. ASSUME NEW j \in 1..l
       PROVE  handlers'[b + j].frameDepth = n /\ Placed(y, handlers'[b + j], j, sb[n])
  <2>1. b + j \in 1..(Len(handlers) - 1) /\ j \in 1..(Len(t) - 1) /\ j \in 1..Len(t)
    BY SMTT(30), <1>8, <1>9
  <2>2. handlers'[b + j] = handlers[b + j] /\ y.tries[j] = x.tries[j]
    BY <2>1, <1>4, <1>7, <1>10, <1>13
  <2>3. handlers[b + j].frameDepth = n /\ Placed(x, handlers[b + j], j, sb[n])
    BY <2>1, <1>1, <1>2, <1>3, <1>4, <1>8
  <2> QED BY <2>2, <2>3, <1>14 DEF Placed
<1>17. \A k \in 1..b : handlers'[k] = handlers[k] BY <1>9, <1>10
<1>18. Here = Depths(script.code)[frames[n].fn] BY <1>2 DEF Here, Fn
<1>19. Len(stack') = sb[n] + y.values BY <1>1, <1>2, <1>3, <1>11, <1>13
<1>20. Resumes(Depths(script.code), frames, ip', n, Len(stack'), handlers, handlers', sb, hb)
  BY <1>8, <1>12, <1>13, <1>14, <1>15, <1>16, <1>17, <1>18, <1>19 DEF Resumes
<1>21. DispatchTypes' BY <1>10, <1>11 DEF DispatchInv, DispatchTypes
<1>22. Cut(frames, frames', n) BY <1>2, <1>11 DEF Cut
<1>23. Len(defers') = n BY <1>0, <1>2, <1>11, Running
<1> QED BY <1>0, <1>1, <1>11, <1>20, <1>21, <1>22, <1>23, ResumeInv

\* The first n elements of frames, of the stack, of the defer levels.
LEMMA CutTypes ==
  ASSUME NEW S, NEW s \in Seq(S), NEW n \in 0..Len(s)
  PROVE  /\ SubSeq(s, 1, n) \in Seq(S) /\ Len(SubSeq(s, 1, n)) = n
         /\ \A i \in 1..n : SubSeq(s, 1, n)[i] = s[i]
<1>1. n \in Nat /\ \A i \in 1..n : s[i] \in S BY LenProperties, ElementOfSeq
<1> QED BY <1>1, Prefix

\* jumpToExceptionHandler resumes the frame whose handler is on top, with the values and
\* the handlers that it had when it pushed that handler.
LEMMA UnwindInv ==
  ASSUME DispatchInv, status = "running", script' = script,
         NEW err, NEW printed, JumpToExceptionHandler(err, printed)
  PROVE  DispatchInv'
<1>0. /\ Verified(script.code, Depths(script.code)) /\ DispatchTypes
      /\ Len(frames) \in Nat /\ Len(handlers) \in Nat /\ Len(stack) \in Nat
      /\ Len(defers) = Len(frames)
  BY Running DEF DispatchInv, CodeVerified
<1>1. CASE handlers = <<>>
  <2>1. status' = "uncaught" /\ defers' = <<>> /\ UNCHANGED <<ip, frames, stack, handlers>>
    BY <1>1 DEF JumpToExceptionHandler
  <2>2. CodeVerified' BY <1>0 DEF CodeVerified
  <2>3. <<>> \in Seq({}) BY EmptySeq
  <2>4. DispatchTypes' BY <1>0, <2>1, <2>3 DEF DispatchTypes
  <2> QED BY <1>1, <2>1, <2>2, <2>4 DEF DispatchInv
<1>2. CASE handlers # <<>>
  <2>1. handlers \in Seq(Handler) /\ Len(handlers) > 0 BY <1>0, <1>2, EmptySeq DEF DispatchTypes
  <2>2. /\ Front(handlers) \in Seq(Handler) /\ Len(Front(handlers)) = Len(handlers) - 1
        /\ \A k \in 1..(Len(handlers) - 1) : Front(handlers)[k] = handlers[k]
        /\ Last(handlers) = handlers[Len(handlers)]
    BY <2>1, FrontLast
  <2>3. PICK k \in 1..Len(handlers) : k = Len(handlers) BY <1>0, <2>1
  <2>4. PICK sb, hb :
          Layout(script.code, Depths(script.code), frames, ip, Len(stack), handlers, sb, hb)
    BY DEF DispatchInv, InLayout
  <2>5. /\ Standing(script.code, Depths(script.code), frames, ip)
        /\ Divided(Depths(script.code), frames, ip, Len(stack), handlers, sb, hb)
        /\ Handled(Depths(script.code), frames, ip, handlers, sb, hb)
    BY <2>4 DEF Layout
  <2>6. PICK e \in 1..Len(frames) : e = handlers[k].frameDepth BY <2>5 DEF Handled
  <2>7. handlers[k].stackDepth \in 0..Len(stack)
    BY <1>0, <2>4, LayoutLive
  <2>8. /\ handlers' = Front(handlers) /\ frames' = SubSeq(frames, 1, e)
        /\ defers' = SubSeq(defers, 1, e) /\ stack' = SubSeq(stack, 1, handlers[k].stackDepth)
        /\ ip' = handlers[k].ip /\ status' = status
    BY <1>2, <2>2, <2>3, <2>6 DEF JumpToExceptionHandler
  <2>9. DispatchTypes' /\ Len(defers') = e /\ Cut(frames, frames', e)
        /\ Len(stack') = handlers[k].stackDepth
    <3>1. PICK L : frames \in Seq([fn : DOMAIN script.code, ret : Nat, locals : L])
      BY <1>0 DEF DispatchTypes
    <3>2. PICK V : stack \in Seq(V) BY <1>0 DEF DispatchTypes
    <3>3. PICK E : defers \in Seq(E) BY <1>0 DEF DispatchTypes
    <3>4. e \in 0..Len(frames) /\ e \in 0..Len(defers) BY <1>0
    <3>5. /\ frames' \in Seq([fn : DOMAIN script.code, ret : Nat, locals : L])
          /\ Len(frames') = e /\ \A d \in 1..e : frames'[d] = frames[d]
      BY <3>1, <3>4, <2>8, CutTypes
    <3>6. stack' \in Seq(V) /\ Len(stack') = handlers[k].stackDepth BY <3>2, <2>7, <2>8, CutTypes
    <3>7. defers' \in Seq(E) /\ Len(defers') = e BY <3>3, <3>4, <2>8, CutTypes
    <3>8. DispatchTypes'
      BY <3>5, <3>6, <3>7, <2>2, <2>8, <1>0 DEF DispatchTypes
    <3> QED BY <3>5, <3>6, <3>7, <3>8 DEF Cut
  <2>10. PICK x \in Depth : x = Info(Depths(script.code), frames, ip, e)
    BY <1>0, <2>5, FrameInfo
  <2>11. PICK t \in Seq(Try) : t = x.tries BY <2>10 DEF Depth
  <2>12. PICK b \in Nat, l \in Nat : b = hb[e] /\ l = Len(t)
    BY <2>5, LenProperties DEF Divided
  <2>13. PICK j \in 1..l :
           /\ j = k - b
           /\ handlers[k].ip = t[j].ip /\ handlers[k].stackDepth = sb[e] + t[j].values
    BY <2>5, <2>6, <2>10, <2>11, <2>12 DEF Handled, Placed
  <2>14. j = l
    <3>1. CASE e = Len(frames)
      <4>1. Len(handlers) = b + l BY <3>1, <2>5, <2>10, <2>11, <2>12 DEF Divided
      <4> QED BY <4>1, <2>3, <2>13
    <3>2. CASE e < Len(frames)
      <4>1. l \in 1..l BY <2>12, <2>13
      <4>2. hb[e] + l \in 1..Len(handlers)
        BY <4>1, <1>0, <2>4, <2>10, <2>11, <2>12, FrameHandlers
      <4> QED BY SMTT(30), <4>2, <2>3, <2>12, <2>13
    <3> QED BY <1>0, <3>1, <3>2
  <2>15. PICK d : d = Depths(script.code)[frames[e].fn] BY Zenon
  <2>16. x = d[Place(frames, ip, e)] BY <2>10, <2>15 DEF Info
  <2>17. Reached(d, t[j].ip, t[j].values, SubSeq(t, 1, j - 1))
    <3>1. frames[e].fn \in DOMAIN script.code /\ Place(frames, ip, e) \in DOMAIN d
      BY <2>5, <2>15 DEF Standing
    <3>2. TriesKept(d, Place(frames, ip, e)) BY <3>1, <1>0, <2>15, InfoFacts
    <3>3. j \in DOMAIN t BY <2>12, <2>13, LenProperties
    <3> QED BY <3>2, <3>3, <2>11, <2>16 DEF TriesKept
  <2>18. PICK y : y = d[ip'] BY Zenon
  <2>19. ip' \in DOMAIN d /\ y.values = t[j].values /\ y.tries = SubSeq(t, 1, j - 1)
    <3>1. PICK q : q = t[j].ip BY Zenon
    <3>2. ip' = q BY <3>1, <2>8, <2>13
    <3>3. y = [values |-> t[j].values, tries |-> SubSeq(t, 1, j - 1)] /\ ip' \in DOMAIN d
      BY <3>1, <3>2, <2>17, <2>18 DEF Reached
    <3> QED BY <3>3
  <2>20. Len(y.tries) = l - 1 /\ \A c \in 1..(l - 1) : y.tries[c] = t[c]
    <3>0. l - 1 \in 0..Len(t) BY ONLY <2>12, l \in Nat, j \in 1..l
    <3>1. PICK z \in 0..Len(t) : z = l - 1 BY <3>0
    <3>2. Len(SubSeq(t, 1, z)) = z /\ \A c \in 1..z : SubSeq(t, 1, z)[c] = t[c] BY CutTypes
    <3> QED BY <3>1, <3>2, <2>14, <2>19
  <2>21. Len(handlers) = b + l BY <2>3, <2>13, <2>14
  <2>22. Len(handlers') = b + (l - 1) /\ \A c \in 1..b : handlers'[c] = handlers[c]
    <3>1. Len(handlers) - 1 = b + (l - 1) /\ l >= 1 BY <2>13, <2>21
    <3>2. \A c \in 1..b : c \in 1..(b + (l - 1)) BY <3>1
    <3> QED BY <3>1, <3>2, <2>2, <2>8
  <2>23. ASSUME NEW c \in 1..(l - 1)
         PROVE  handlers'[b + c].frameDepth = e /\ Placed(y, handlers'[b + c], c, sb[e])
    <3>1. c \in 1..l /\ b + c \in 1..(Len(handlers) - 1)
      <4>1. c \in Nat /\ 1 <= c /\ c <= l - 1 /\ l \in Nat /\ b \in Nat BY <2>23
      <4>2. Len(handlers) - 1 = b + (l - 1) BY <2>21
      <4> QED BY <4>1, <4>2
    <3>2. handlers'[b + c] = handlers[b + c] BY <3>1, <2>2, <2>8
    <3>3. handlers[b + c].frameDepth = e /\ Placed(x, handlers[b + c], c, sb[e])
      BY <3>1, <1>0, <2>4, <2>10, <2>11, <2>12, FrameHandlers
    <3> QED BY <3>2, <3>3, <2>11, <2>20 DEF Placed
  <2>24. Len(stack') = sb[e] + y.values BY <2>9, <2>13, <2>19
  <2>25. Resumes(Depths(script.code), frames, ip', e, Len(stack'), handlers, handlers', sb, hb)
    BY <2>12, <2>15, <2>18, <2>19, <2>20, <2>22, <2>23, <2>24 DEF Resumes
  <2> QED BY <2>4, <2>8, <2>9, <2>25, ResumeInv
<1> QED BY <1>1, <1>2

\* A call keeps the invariant: its frame and its level of deferred calls are new.
LEMMA CallInv ==
  ASSUME DispatchInv, OpCall
  PROVE  DispatchInv'
<1>0. status = "running" /\ Cur.op = "Call" BY DEF OpCall, At
<1>1. /\ Verified(script.code, Depths(script.code)) /\ DispatchTypes
      /\ Len(frames) \in Nat \ {0} /\ Len(handlers) \in Nat /\ Len(defers) = Len(frames)
      /\ ip \in Nat
  BY <1>0, Running DEF DispatchInv, CodeVerified
<1>2. PICK f \in DOMAIN script.code : f = Cur.v /\ f # "main"
  <2>1. Cur = script.code[Fn][ip] /\ FlowKept(script.code, Here, Fn, ip) BY <1>0, Running
  <2> QED BY <2>1, <1>0 DEF FlowKept
<1>3. PICK r : r = Frame(f, ip + 1) BY Zenon
<1>4. PICK L : frames \in Seq([fn : DOMAIN script.code, ret : Nat, locals : L])
  BY <1>1 DEF DispatchTypes
<1>5. PICK M : M = L \cup {[s \in {} |-> 0]} BY Zenon
<1>6. r \in [fn : DOMAIN script.code, ret : Nat, locals : M] /\ r.fn = f /\ r.ret = ip + 1
  BY <1>1, <1>3, <1>5 DEF Frame
<1>7. frames \in Seq([fn : DOMAIN script.code, ret : Nat, locals : M])
  <2>1. [fn : DOMAIN script.code, ret : Nat, locals : L]
           \subseteq [fn : DOMAIN script.code, ret : Nat, locals : M]
    BY <1>5
  <2> QED BY <1>4, <2>1, SeqMonotonic
<1>8. frames' = Append(frames, r) /\ defers' = Append(defers, <<>>) /\ ip' = 1
      /\ UNCHANGED <<script, stack, handlers, status>>
  BY <1>2, <1>3 DEF OpCall
<1>9. /\ frames' \in Seq([fn : DOMAIN script.code, ret : Nat, locals : M])
      /\ Len(frames') = Len(frames) + 1
      /\ \A d \in 1..Len(frames) : frames'[d] = frames[d]
      /\ frames'[Len(frames) + 1] = r
  BY <1>6, <1>7, <1>8
<1>10. (\E E : defers' \in Seq(E)) /\ Len(defers') = Len(defers) + 1
  <2>1. PICK E : defers \in Seq(E) BY <1>1 DEF DispatchTypes
  <2> QED BY <2>1, <1>8, Appending
<1>11. DispatchTypes' BY <1>1, <1>8, <1>9, <1>10 DEF DispatchTypes
<1>12. PICK sb, hb :
         Layout(script.code, Depths(script.code), frames, ip, Len(stack), handlers, sb, hb)
  BY <1>0 DEF DispatchInv, InLayout
<1>13. script.code[frames[Len(frames)].fn][ip].op = "Call" BY <1>0, Running DEF Fn
<1>14. \E sb2, hb2 : Layout(script.code, Depths(script.code), frames', 1, Len(stack), handlers, sb2, hb2)
  BY <1>1, <1>2, <1>6, <1>9, <1>12, <1>13, CallLayout
<1>15. InLayout' BY <1>8, <1>14 DEF InLayout
<1>16. CodeVerified' BY <1>1, <1>8 DEF CodeVerified
<1> QED BY <1>0, <1>1, <1>8, <1>9, <1>10, <1>11, <1>15, <1>16 DEF DispatchInv

\* A return keeps the invariant: nothing of the callee's is left but its value.
LEMMA ReturnInv ==
  ASSUME DispatchInv, OpReturn
  PROVE  DispatchInv'
<1>0. status = "running" /\ Cur.op = "Return" BY DEF OpReturn, At
<1>1. /\ Verified(script.code, Depths(script.code)) /\ DispatchTypes
      /\ Len(frames) \in Nat \ {0} /\ Len(handlers) \in Nat /\ Len(defers) = Len(frames)
      /\ ip \in Nat /\ (Fn = "main" <=> Len(frames) = 1)
  BY <1>0, Running DEF DispatchInv, CodeVerified
<1>2. Here[ip].tries = <<>> /\ Here[ip].values = IF Fn = "main" THEN 0 ELSE 1
  <2>1. Cur = script.code[Fn][ip] /\ FlowKept(script.code, Here, Fn, ip) BY <1>0, Running
  <2> QED BY <2>1, <1>0 DEF FlowKept
<1>3. PICK sb, hb :
        /\ Layout(script.code, Depths(script.code), frames, ip, Len(stack), handlers, sb, hb)
        /\ sb[Len(frames)] \in Nat /\ hb[Len(frames)] \in Nat
        /\ Len(stack) = sb[Len(frames)] + Here[ip].values
        /\ Len(handlers) = hb[Len(frames)] + Len(Here[ip].tries)
  BY <1>0, TopLayout
<1>4. Len(handlers) = hb[Len(frames)] BY <1>2, <1>3
<1>5. PICK E : defers \in Seq(E) BY <1>1 DEF DispatchTypes
<1>6. defers' \in Seq(E) /\ Len(defers') = Len(frames) - 1
  <2>1. defers' = Front(defers) /\ Len(defers) > 0 BY <1>1 DEF OpReturn
  <2> QED BY <2>1, <1>1, <1>5, FrontLast
<1>7. UNCHANGED <<script, stack, handlers>> BY DEF OpReturn
<1>8. CASE Len(frames) = 1
  <2>1. status' = "done" /\ UNCHANGED <<ip, frames>> BY <1>8 DEF OpReturn
  <2>2. sb[1] = 0 /\ hb[1] = 0 BY <1>3 DEF Layout, Divided
  <2>3. Len(stack) = 0 /\ Len(handlers) = 0 BY <2>2, <1>1, <1>2, <1>3, <1>4, <1>8
  <2>4. stack = <<>> /\ handlers = <<>> BY <2>3, <1>1, EmptySeq DEF DispatchTypes
  <2>5. CodeVerified' BY <1>1, <1>7 DEF CodeVerified
  <2>6. DispatchTypes' BY <2>1, <1>1, <1>6, <1>7 DEF DispatchTypes
  <2> QED BY <2>1, <2>4, <2>5, <2>6, <1>7 DEF DispatchInv
<1>9. CASE Len(frames) # 1
  <2>1. PICK n \in 1..Len(frames) : n = Len(frames) /\ n > 1 BY <1>1, <1>9
  <2>2. PICK e \in 1..Len(frames) : e = n - 1 /\ e + 1 = n /\ e \in 1..(Len(frames) - 1) /\ e # Len(frames)
    <3>1. n - 1 \in 1..Len(frames) /\ (n - 1) + 1 = n /\ n - 1 \in 1..(Len(frames) - 1) /\ n - 1 # Len(frames)
      BY <2>1, <1>1
    <3> QED BY <3>1
  <2>3. PICK L : frames \in Seq([fn : DOMAIN script.code, ret : Nat, locals : L])
    BY <1>1 DEF DispatchTypes
  <2>4. frames' = Front(frames) /\ ip' = frames[n].ret /\ status' = status
    BY <1>9, <2>1 DEF OpReturn, Last
  <2>5. /\ frames' \in Seq([fn : DOMAIN script.code, ret : Nat, locals : L])
        /\ Len(frames') = e /\ \A d \in 1..e : frames'[d] = frames[d]
    <3>1. Len(frames) > 0 BY <1>1
    <3> QED BY <3>1, <2>1, <2>2, <2>3, <2>4, FrontLast
  <2>6. DispatchTypes' BY <2>4, <2>5, <1>1, <1>6, <1>7 DEF DispatchTypes
  <2>7. Cut(frames, frames', e) /\ Len(defers') = e BY <2>1, <2>2, <2>5, <1>6 DEF Cut
  <2>8. /\ Standing(script.code, Depths(script.code), frames, ip)
        /\ Divided(Depths(script.code), frames, ip, Len(stack), handlers, sb, hb)
    BY <1>3 DEF Layout
  <2>9. PICK p : p = Place(frames, ip, e) BY Zenon
  <2>10. PICK d : d = Depths(script.code)[frames[e].fn] BY Zenon
  <2>11. /\ frames[e].fn \in DOMAIN script.code /\ p \in DOMAIN d
         /\ script.code[frames[e].fn][p].op = "Call" /\ frames[n].ret \in Nat
    BY <2>1, <2>2, <2>8, <2>9, <2>10 DEF Standing
  <2>12. ip' = p + 1
    <3>1. p = frames[n].ret - 1 BY <2>2, <2>9 DEF Place
    <3> QED BY <3>1, <2>4, <2>11
  <2>13. d[p] \in Depth /\ FlowKept(script.code, d, frames[e].fn, p)
    BY <2>10, <2>11, <1>1, InfoFacts
  <2>14. Reached(d, ip', d[p].values + 1, d[p].tries) BY <2>11, <2>12, <2>13 DEF FlowKept
  <2>15. PICK y : y = d[ip'] BY Zenon
  <2>16. ip' \in DOMAIN d /\ y.values = d[p].values + 1 /\ y.tries = d[p].tries
    BY <2>14, <2>15 DEF Reached
  <2>17. Info(Depths(script.code), frames, ip, e) = d[p] BY <2>9, <2>10 DEF Info
  <2>18. sb[n] = sb[e] + d[p].values /\ hb[n] = hb[e] + Len(d[p].tries)
    BY <2>2, <2>8, <2>17 DEF Divided
  <2>19. Len(stack') = sb[e] + y.values
    <3>1. Len(stack') = sb[n] + 1 BY <1>1, <1>2, <1>3, <1>7, <1>9, <2>1
    <3>2. sb[e] \in Nat /\ d[p].values \in Nat BY <2>8, <2>13 DEF Divided, Depth
    <3> QED BY <3>1, <3>2, <2>16, <2>18
  <2>20. Len(handlers') = hb[e] + Len(y.tries) BY <1>4, <1>7, <2>1, <2>16, <2>18
  <2>21. ASSUME NEW j \in 1..Len(y.tries)
         PROVE  handlers'[hb[e] + j].frameDepth = e /\ Placed(y, handlers'[hb[e] + j], j, sb[e])
    <3>1. handlers[hb[e] + j].frameDepth = e /\ Placed(d[p], handlers[hb[e] + j], j, sb[e])
      BY <1>1, <1>3, <2>16, <2>17, FrameHandlers
    <3> QED BY <3>1, <1>7, <2>16 DEF Placed
  <2>22. Resumes(Depths(script.code), frames, ip', e, Len(stack'), handlers, handlers', sb, hb)
    BY <1>7, <2>10, <2>15, <2>16, <2>19, <2>20, <2>21 DEF Resumes
  <2> QED BY <1>0, <1>3, <1>7, <2>4, <2>6, <2>7, <2>22, ResumeInv
<1> QED BY <1>8, <1>9

-----------------------------------------------------------------------------
(* The opcodes that move within the running function. *)

\* Pushing and popping a value.
LEMMA StackMoves ==
  ASSUME DispatchTypes
  PROVE  /\ Len(stack) \in Nat
         /\ \A v : stack' = Append(stack, v) =>
              (\E V : stack' \in Seq(V)) /\ Len(stack') = Len(stack) + 1
         /\ Len(stack) > 0 /\ stack' = Front(stack) =>
              (\E V : stack' \in Seq(V)) /\ Len(stack') = Len(stack) - 1
<1>1. PICK V : stack \in Seq(V) BY DEF DispatchTypes
<1>2. Len(stack) \in Nat BY <1>1, LenProperties
<1>3. ASSUME NEW v, stack' = Append(stack, v)
      PROVE  stack' \in Seq(V \cup {v}) /\ Len(stack') = Len(stack) + 1
  BY <1>1, <1>3, Appending
<1>4. ASSUME Len(stack) > 0, stack' = Front(stack)
      PROVE  stack' \in Seq(V) /\ Len(stack') = Len(stack) - 1
  BY <1>1, <1>4, FrontLast
<1> QED BY <1>2, <1>3, <1>4

\* Assigning a local leaves the frames' functions and return addresses alone.
LEMMA LocalMoves ==
  ASSUME DispatchTypes, Len(frames) \in Nat \ {0}, NEW slot, NEW v, SetLocal(slot, v),
         script' = script
  PROVE  /\ \E L : frames' \in Seq([fn : DOMAIN script.code, ret : Nat, locals : L])
         /\ Cut(frames, frames', Len(frames))
<1>1. PICK L : frames \in Seq([fn : DOMAIN script.code, ret : Nat, locals : L])
  BY DEF DispatchTypes
<1>2. PICK x : frames' = [frames EXCEPT ![Len(frames)].locals = x] BY DEF SetLocal
<1>3. PICK n \in 1..Len(frames) : n = Len(frames) OBVIOUS
<1>4. PICK M : M = L \cup {x} BY Zenon
<1>5. PICK R : R = [fn : DOMAIN script.code, ret : Nat, locals : M] BY Zenon
<1>6. frames \in Seq(R)
  <2>1. [fn : DOMAIN script.code, ret : Nat, locals : L] \subseteq R BY <1>4, <1>5
  <2> QED BY <1>1, <2>1, SeqMonotonic
<1>7. frames[n] \in [fn : DOMAIN script.code, ret : Nat, locals : L] BY <1>1, <1>3, ElementOfSeq
<1>8. PICK r : r = [frames[n] EXCEPT !.locals = x] BY Zenon
<1>9. r \in R /\ r.fn = frames[n].fn /\ r.ret = frames[n].ret BY <1>4, <1>5, <1>7, <1>8
<1>10. frames' = [frames EXCEPT ![n] = r] BY <1>2, <1>3, <1>8
<1>11. frames \in [1..Len(frames) -> R] BY <1>6, LenProperties
<1>12. frames' \in Seq(R) /\ Len(frames') = Len(frames)
       /\ \A d \in 1..Len(frames) : frames'[d] = IF d = n THEN r ELSE frames[d]
  BY <1>6, <1>9, <1>10, <1>11, ExceptSeq
<1>13. Cut(frames, frames', Len(frames)) BY <1>9, <1>12 DEF Cut
<1> QED BY <1>5, <1>12, <1>13

\* Frames that do not change.
LEMMA FramesStay ==
  ASSUME frames' = frames
  PROVE  Cut(frames, frames', Len(frames))
BY DEF Cut

\* The opcodes that touch only the top of the stack, the locals and the output.
Plain ==
  \/ OpConstant \/ OpPop \/ OpPrintln \/ OpDefineLocal \/ OpGetLocal
  \/ OpZero \/ OpIncrement \/ OpBelow \/ OpJump \/ OpJumpIfFalse
  \/ OpIterInit \/ OpIterNext \/ OpIterClose \/ OpWithEnter

\* What such an opcode adds to the stack.
Pushes == {"Constant", "GetLocal", "Below"}
Pops == {"Pop", "Println", "DefineLocal", "JumpIfFalse"}
Keeps == {"Zero", "Increment", "Jump", "IterInit", "IterNext", "IterClose", "WithEnter"}

\* Where they go and what they change.
LEMMA PlainEffect ==
  ASSUME Plain
  PROVE  /\ status = "running" /\ UNCHANGED <<script, handlers, defers, status>>
         /\ frames' = frames \/ \E slot, v : SetLocal(slot, v)
         /\ \/ Cur.op \in Pushes /\ \E v : stack' = Append(stack, v)
            \/ Cur.op \in Pops /\ stack' = Front(stack)
            \/ Cur.op \in Keeps /\ stack' = stack
         /\ \/ ip' = ip + 1 /\ Cur.op # "Jump"
            \/ ip' = Cur.to /\ Cur.op \in {"Jump", "JumpIfFalse", "IterNext"}
<1> USE DEF At, Step, Quiet, Pushes, Pops, Keeps
<1>1. CASE OpConstant BY <1>1 DEF OpConstant
<1>2. CASE OpPop BY <1>2 DEF OpPop
<1>3. CASE OpPrintln BY <1>3 DEF OpPrintln
<1>4. CASE OpDefineLocal BY <1>4 DEF OpDefineLocal
<1>5. CASE OpGetLocal BY <1>5 DEF OpGetLocal
<1>6. CASE OpZero BY <1>6 DEF OpZero
<1>7. CASE OpIncrement BY <1>7 DEF OpIncrement
<1>8. CASE OpBelow BY <1>8 DEF OpBelow
<1>9. CASE OpJump BY <1>9 DEF OpJump
<1>10. CASE OpJumpIfFalse BY <1>10 DEF OpJumpIfFalse
<1>11. CASE OpIterInit BY <1>11 DEF OpIterInit
<1>12. CASE OpIterNext BY <1>12 DEF OpIterNext
<1>13. CASE OpIterClose BY <1>13 DEF OpIterClose
<1>14. CASE OpWithEnter BY <1>14 DEF OpWithEnter
<1> QED BY <1>1, <1>2, <1>3, <1>4, <1>5, <1>6, <1>7, <1>8, <1>9, <1>10, <1>11, <1>12, <1>13,
           <1>14 DEF Plain

\* They keep the invariant.
LEMMA PlainInv ==
  ASSUME DispatchInv, Plain
  PROVE  DispatchInv'
<1>1. /\ status = "running" /\ UNCHANGED <<script, handlers, defers, status>>
      /\ frames' = frames \/ \E slot, v : SetLocal(slot, v)
  BY PlainEffect
<1>2. DispatchTypes /\ Len(frames) \in Nat \ {0} BY <1>1, Running DEF DispatchInv
<1>3. /\ \E L : frames' \in Seq([fn : DOMAIN script.code, ret : Nat, locals : L])
      /\ Cut(frames, frames', Len(frames))
  <2>1. CASE frames' = frames BY <2>1, <1>2, FramesStay DEF DispatchTypes
  <2>2. CASE \E slot, v : SetLocal(slot, v) BY <2>2, <1>1, <1>2, LocalMoves
  <2> QED BY <1>1, <2>1, <2>2
<1>4. PICK n \in Nat : n = Here[ip].values BY <1>1, Running
<1>5. Cur = script.code[Fn][ip] /\ FlowKept(script.code, Here, Fn, ip) /\ n <= Len(stack)
      /\ Len(stack) \in Nat
  BY <1>1, <1>4, Running
<1>6. ASSUME NEW v \in Int, Reached(Here, ip', v, Here[ip].tries),
             \E V : stack' \in Seq(V), Len(stack') = Len(stack) - n + v
      PROVE  DispatchInv'
  <2>1. DispatchTypes' BY <1>1, <1>2, <1>3, <1>6 DEF DispatchTypes
  <2>2. Len(stack') = Len(stack) - Here[ip].values + v BY <1>4, <1>6
  <2> QED BY <2>1, <2>2, <1>1, <1>3, <1>6, Move
<1>7. CASE Cur.op \in Pushes /\ \E v : stack' = Append(stack, v)
  <2>1. ip' = ip + 1 BY <1>7, PlainEffect DEF Pushes
  <2>2. Reached(Here, ip', n + 1, Here[ip].tries)
    BY <2>1, <1>4, <1>5, <1>7 DEF FlowKept, Pushes
  <2>3. (\E V : stack' \in Seq(V)) /\ Len(stack') = Len(stack) + 1
    BY <1>2, <1>7, StackMoves
  <2>4. Len(stack') = Len(stack) - n + (n + 1) /\ n + 1 \in Int BY <2>3, <1>5
  <2> QED BY <2>2, <2>3, <2>4, <1>6
<1>8. CASE Cur.op \in Pops /\ stack' = Front(stack)
  <2>1. n > 0 /\ Reached(Here, ip', n - 1, Here[ip].tries)
    <3>1. ip' = ip + 1 \/ (ip' = Cur.to /\ Cur.op = "JumpIfFalse")
      BY <1>8, PlainEffect DEF Pops
    <3> QED BY <3>1, <1>4, <1>5, <1>8 DEF FlowKept, Pops
  <2>2. (\E V : stack' \in Seq(V)) /\ Len(stack') = Len(stack) - 1
    BY <2>1, <1>2, <1>5, <1>8, StackMoves
  <2>3. Len(stack') = Len(stack) - n + (n - 1) /\ n - 1 \in Int BY <2>2, <1>5
  <2> QED BY <2>1, <2>2, <2>3, <1>6
<1>9. CASE Cur.op \in Keeps /\ stack' = stack
  <2>1. Reached(Here, ip', n, Here[ip].tries)
    <3>1. \/ ip' = ip + 1 /\ Cur.op # "Jump"
          \/ ip' = Cur.to /\ Cur.op \in {"Jump", "IterNext"}
      BY <1>9, PlainEffect DEF Keeps
    <3> QED BY <3>1, <1>4, <1>5, <1>9 DEF FlowKept, Keeps
  <2>2. (\E V : stack' \in Seq(V)) /\ Len(stack') = Len(stack) - n + n /\ n \in Int
    BY <1>2, <1>5, <1>9 DEF DispatchTypes
  <2> QED BY <2>1, <2>2, <1>6
<1> QED BY <1>7, <1>8, <1>9, PlainEffect

\* An opcode that leaves the frames, the stack and the defer levels alone.
LEMMA IdleMove ==
  ASSUME DispatchInv, status = "running",
         UNCHANGED <<script, frames, stack, handlers, defers, status>>,
         \/ ip' = ip + 1 /\ Cur.op \in {"WithExit", "Catch", "Rethrow"}
         \/ ip' = Cur.to /\ Cur.op = "Catch"
  PROVE  DispatchInv'
<1>1. PICK n \in Nat : n = Here[ip].values BY Running
<1>2. Cur = script.code[Fn][ip] /\ FlowKept(script.code, Here, Fn, ip) /\ Len(stack) \in Nat
  BY Running
<1>3. Reached(Here, ip', n, Here[ip].tries) BY <1>1, <1>2 DEF FlowKept
<1>4. DispatchTypes' BY DEF DispatchInv, DispatchTypes
<1>5. Len(stack') = Len(stack) - Here[ip].values + n BY <1>1, <1>2
<1> QED BY <1>1, <1>3, <1>4, <1>5, FramesStay, Move

\* defer pops its argument and adds a call to the running function's level.
LEMMA DeferInv ==
  ASSUME DispatchInv, OpDeferPrintln
  PROVE  DispatchInv'
<1>0. status = "running" /\ Cur.op = "DeferPrintln" /\ ip' = ip + 1
      /\ UNCHANGED <<script, frames, handlers, status>>
  BY DEF OpDeferPrintln, At, Step
<1>1. PICK n \in Nat : n = Here[ip].values BY <1>0, Running
<1>2. Cur = script.code[Fn][ip] /\ FlowKept(script.code, Here, Fn, ip) /\ n <= Len(stack)
      /\ Len(stack) \in Nat /\ Len(frames) \in Nat \ {0} /\ Len(defers) = Len(frames)
  BY <1>0, <1>1, Running
<1>3. n > 0 /\ Reached(Here, ip', n - 1, Here[ip].tries) BY <1>0, <1>1, <1>2 DEF FlowKept
<1>4. DispatchTypes BY DEF DispatchInv
<1>5. (\E V : stack' \in Seq(V)) /\ Len(stack') = Len(stack) - 1
  BY <1>2, <1>3, <1>4, StackMoves DEF OpDeferPrintln
<1>6. (\E E : defers' \in Seq(E)) /\ Len(defers') = Len(defers)
  <2>1. PICK E : defers \in Seq(E) BY <1>4 DEF DispatchTypes
  <2>2. PICK v : defers' = [defers EXCEPT ![Len(defers)] = v] BY DEF OpDeferPrintln
  <2>3. defers \in Seq(E \cup {v}) /\ v \in E \cup {v} BY <2>1, SeqMonotonic
  <2>4. PICK k \in 1..Len(defers) : k = Len(defers) BY <1>2
  <2>5. defers' = [defers EXCEPT ![k] = v] BY <2>2, <2>4
  <2> QED BY <2>3, <2>5, ExceptSeq
<1>7. DispatchTypes' BY <1>0, <1>4, <1>5, <1>6 DEF DispatchTypes
<1>8. Len(stack') = Len(stack) - Here[ip].values + (n - 1) /\ n - 1 \in Int BY <1>1, <1>2, <1>5
<1> QED BY <1>0, <1>3, <1>6, <1>7, <1>8, FramesStay, Move

\* A fault with no handler left ends the script; any other throw unwinds.
LEMMA ThrowsInv ==
  ASSUME DispatchInv, OpThrow \/ OpFault \/ OpWithExit \/ OpCatch \/ OpRethrow
  PROVE  DispatchInv'
<1>1. CASE OpThrow BY <1>1, UnwindInv DEF OpThrow, At
<1>2. CASE OpFault
  <2>1. status = "running" /\ script' = script BY <1>2 DEF OpFault, At
  <2>2. CASE handlers = <<>>
    <3>1. status' = "uncaught" /\ UNCHANGED <<script, ip, frames, stack, handlers, defers>>
      BY <1>2, <2>2 DEF OpFault
    <3>2. DispatchTypes' /\ CodeVerified' BY <3>1 DEF DispatchInv, DispatchTypes, CodeVerified
    <3> QED BY <3>1, <3>2, <2>2 DEF DispatchInv
  <2>3. CASE handlers # <<>> BY <1>2, <2>1, <2>3, UnwindInv DEF OpFault
  <2> QED BY <2>2, <2>3
<1>3. CASE OpWithExit
  <2>1. status = "running" /\ script' = script /\ Cur.op = "WithExit" BY <1>3 DEF OpWithExit, At
  <2>2. CASE Local(Cur.to) # "" BY <1>3, <2>1, <2>2, UnwindInv DEF OpWithExit
  <2>3. CASE Local(Cur.to) = "" BY <1>3, <2>1, <2>3, IdleMove DEF OpWithExit, Step
  <2> QED BY <2>2, <2>3
<1>4. CASE OpCatch BY <1>4, IdleMove DEF OpCatch, At, Step
<1>5. CASE OpRethrow
  <2>1. status = "running" /\ script' = script /\ Cur.op = "Rethrow" BY <1>5 DEF OpRethrow, At
  <2>2. CASE pending = "" BY <1>5, <2>1, <2>2, IdleMove DEF OpRethrow, Step
  <2>3. CASE pending # "" BY <1>5, <2>1, <2>3, UnwindInv DEF OpRethrow
  <2> QED BY <2>2, <2>3
<1> QED BY <1>1, <1>2, <1>3, <1>4, <1>5

-----------------------------------------------------------------------------
(* The theorems. *)

\* A script starts with one frame, and nothing on the stacks.
LEMMA StartInv ==
  ASSUME Start, CodeVerified
  PROVE  DispatchInv
<1>1. PICK f : f = Frame("main", 0) /\ frames = <<f>> BY DEF Start
<1>2. f.fn = "main" /\ f.ret = 0 /\ f.locals = [s \in {} |-> 0]
      /\ f = [fn |-> f.fn, ret |-> f.ret, locals |-> f.locals]
  BY <1>1 DEF Frame
<1>3. "main" \in DOMAIN script.code BY DEF CodeVerified, Verified
<1>4. f \in [fn : DOMAIN script.code, ret : Nat, locals : {[s \in {} |-> 0]}] BY <1>2, <1>3
<1>5. frames \in Seq([fn : DOMAIN script.code, ret : Nat, locals : {[s \in {} |-> 0]}])
      /\ Len(frames) = 1 /\ frames[1] = f
  BY <1>1, <1>4
<1>6. Len(stack) = 0 /\ Len(handlers) = 0 /\ Len(defers) = 1 /\ stack \in Seq({})
      /\ handlers \in Seq(Handler) /\ defers \in Seq({<<>>}) /\ status = "running" /\ ip = 1
  <2>1. \A S : <<>> \in Seq(S) /\ Len(<<>>) = 0 BY EmptySeq
  <2>2. << <<>> >> \in Seq({<<>>}) /\ Len(<< <<>> >>) = 1 OBVIOUS
  <2> QED BY <2>1, <2>2 DEF Start
<1>7. DispatchTypes BY <1>5, <1>6 DEF DispatchTypes
<1>8. Reached(Depths(script.code)["main"], 1, 0, <<>>) BY <1>3 DEF CodeVerified, Verified
<1>9. PICK z : z = [d \in 1..1 |-> 0] BY Zenon
<1>10. z \in [1..1 -> Nat] /\ z[1] = 0 BY <1>9
<1>11. Place(frames, ip, 1) = 1 BY <1>5, <1>6 DEF Place
<1>12. Info(Depths(script.code), frames, ip, 1) = [values |-> 0, tries |-> <<>>]
  BY <1>2, <1>5, <1>8, <1>11 DEF Info, Reached
<1>13. Standing(script.code, Depths(script.code), frames, ip)
  BY <1>2, <1>3, <1>5, <1>8, <1>11 DEF Standing, Reached
<1>14. Divided(Depths(script.code), frames, ip, Len(stack), handlers, z, z)
  BY <1>5, <1>6, <1>10, <1>12 DEF Divided
<1>15. Handled(Depths(script.code), frames, ip, handlers, z, z) BY <1>6 DEF Handled
<1>16. InLayout BY <1>13, <1>14, <1>15 DEF InLayout, Layout
<1> QED BY <1>5, <1>6, <1>7, <1>16 DEF DispatchInv

\* Every opcode keeps the invariant.
LEMMA NextInv ==
  ASSUME DispatchInv, [Next]_vars
  PROVE  DispatchInv'
<1>1. CASE UNCHANGED vars
  BY <1>1 DEF vars, DispatchInv, CodeVerified, DispatchTypes, InLayout
<1>2. CASE Next
  BY <1>2, PlainInv, ThrowsInv, PushInv, PopInv, DeferInv, CallInv, ReturnInv DEF Next, Plain
<1> QED BY <1>1, <1>2

\* A script keeps its frames, values and handlers laid out as the depths of its bytecode
\* tell, for any verified bytecode and any depths.
THEOREM DispatchInvariant == DispatchSpec => []DispatchInv
<1>1. Start /\ CodeVerified => DispatchInv BY StartInv
<1>2. DispatchInv /\ [Next]_vars => DispatchInv' BY NextInv
<1> QED BY <1>1, <1>2, PTL DEF DispatchSpec

\* No handler outlives its frame: whatever verified bytecode runs, a throw resumes in a
\* function that is still running, with a stack depth that is still there.
THEOREM HandlersLiveHolds == DispatchSpec => []HandlersLive
<1>1. DispatchInv => HandlersLive
  <2> SUFFICES ASSUME DispatchInv PROVE HandlersLive OBVIOUS
  <2>1. CASE status # "running"
    <3>1. handlers = <<>> BY <2>1 DEF DispatchInv
    <3> QED BY <3>1 DEF HandlersLive
  <2>2. CASE status = "running"
    <3>1. Len(frames) \in Nat /\ Len(handlers) \in Nat /\ Len(stack) \in Nat BY <2>2, Running
    <3>2. Verified(script.code, Depths(script.code)) BY DEF DispatchInv, CodeVerified
    <3>3. PICK sb, hb :
            Layout(script.code, Depths(script.code), frames, ip, Len(stack), handlers, sb, hb)
      BY <2>2 DEF DispatchInv, InLayout
    <3>4. DOMAIN handlers = 1..Len(handlers)
      BY LenProperties DEF DispatchInv, DispatchTypes
    <3>5. ASSUME NEW k \in 1..Len(handlers)
          PROVE  /\ handlers[k].frameDepth \in 1..Len(frames)
                 /\ handlers[k].stackDepth <= Len(stack)
                 /\ \A l \in 1..Len(handlers) : l <= k => handlers[l].frameDepth <= handlers[k].frameDepth
      BY <3>1, <3>2, <3>3, LayoutLive
    <3>6. ASSUME NEW k \in 1..Len(handlers), k > 1
          PROVE  handlers[k - 1].frameDepth <= handlers[k].frameDepth
      <4>1. k - 1 \in 1..Len(handlers) /\ k - 1 <= k BY <3>1, <3>6
      <4> QED BY <4>1, <3>5
    <3>7. ASSUME NEW k \in 1..Len(handlers) PROVE handlers[k].frameDepth <= Len(frames)
      BY <3>1, <3>5
    <3> QED BY <2>2, <3>4, <3>5, <3>6, <3>7 DEF HandlersLive
  <2> QED BY <2>1, <2>2
<1> QED BY <1>1, DispatchInvariant, PTL

\* Every frame has its own level of deferred calls, and a script that ends leaves nothing
\* on the value stack, whatever verified bytecode runs.
THEOREM DefersAlignedHolds == DispatchSpec => []DefersAligned
<1>1. DispatchInv => DefersAligned BY DEF DispatchInv, DefersAligned
<1> QED BY <1>1, DispatchInvariant, PTL
=============================================================================
