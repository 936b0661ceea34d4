---------------------------- MODULE FreeSpaceProofs ----------------------------
(***************************************************************************)
(* The page allocator is correct for every segment size, every set of blob *)
(* sizes, every metadata size and every file size.                         *)
(*                                                                         *)
(* Sound(sp, U) of FreeRanges.tla says of a space sp and the runs U in use *)
(* what the invariants of FreeSpace.tla say together.  AllocSound and      *)
(* FreeSound show that the two operations preserve it, for every space;    *)
(* FreeStoreTransactionProofs.tla rests on them, too.                      *)
(***************************************************************************)
EXTENDS FreeSpace, FiniteSetTheorems, WellFoundedInduction, TLAPS

-----------------------------------------------------------------------------
(* Arithmetic *)

\* Every nonempty set of naturals has a least element.
LEMMA LeastNat ==
  ASSUME NEW S, S \subseteq Nat, S # {}
  PROVE  \E m \in S : \A n \in S : m =< n
<1>. DEFINE R == OpToRel(<, Nat)
<1>1. \A m, n \in Nat : <<m, n>> \in R <=> m < n
  BY DEF OpToRel
<1>2. IsWellFoundedOn(R, Nat)
  BY NatLessThanWellFounded
<1>. HIDE DEF R
<1>3. \E m \in S : \A n \in S : ~ (<<n, m>> \in R)
  BY <1>2, WFMin
<1>4. PICK m \in S : \A n \in S : ~ (<<n, m>> \in R)
  BY <1>3
<1>5. \A n \in S : ~ (n < m)
  BY <1>1, <1>4, Zenon
<1>. QED BY <1>5

\* Between a page and the end of its segment no segment starts.
LEMMA ModShift ==
  ASSUME NEW d \in Nat \ {0}, NEW t \in Nat, NEW k \in Int,
         0 < k, k < d - (t % d)
  PROVE  (t + k) % d # 0
<1>. DEFINE q == t \div d
            r == t % d
<1>1. q \in Int /\ r \in 0 .. d - 1 /\ t = d * q + r
  OBVIOUS
<1>. HIDE DEF q, r
<1>2. k < d - r
  BY DEF r
<1>3. \A a \in Int, b \in 0 .. d - 1 : (d * a + b) % d = b
  OBVIOUS
<1>4. t + k = d * q + (r + k) /\ r + k \in 0 .. d - 1
  BY <1>1, <1>2
<1>5. (d * q + (r + k)) % d = r + k
  BY <1>3, <1>1, <1>4
<1>. QED BY <1>5, <1>4, <1>1

\* The page after the last one of a segment starts a segment.
LEMMA ModNext ==
  ASSUME NEW d \in Nat \ {0}, NEW t \in Nat
  PROVE  /\ d - (t % d) \in 1 .. d
         /\ (t + (d - (t % d))) % d = 0
<1>1. t % d \in 0 .. d - 1
  OBVIOUS
<1>2. (t + (d - (t % d))) % d = 0
  OBVIOUS
<1>. QED BY <1>1, <1>2

-----------------------------------------------------------------------------
(* The choices of the two operations are well defined *)

\* lower_bound finds the smallest run that is large enough, if there is one.
LEMMA BestFitFits ==
  ASSUME NEW sp, sp.freeBySize \subseteq Run, NEW n \in Nat,
         Fitting(sp, n) # {}
  PROVE  BestFit(sp, n) \in Fitting(sp, n)
<1>. DEFINE Fit == Fitting(sp, n)
            Sizes == {r.size : r \in Fit}
<1>1. Fit \subseteq Run
  BY DEF Fitting
<1>2. \A r \in Fit : r.start \in Nat /\ r.size \in Nat
  BY <1>1 DEF Run
<1>. HIDE DEF Fit
<1>3. PICK m \in Sizes : \A s \in Sizes : m =< s
  <2>1. Sizes \subseteq Nat /\ Sizes # {}
    BY <1>2 DEF Fit
  <2>. QED BY <2>1, LeastNat
<1>. DEFINE Least == {r \in Fit : r.size = m}
            Starts == {r.start : r \in Least}
<1>4. PICK f \in Starts : \A s \in Starts : f =< s
  <2>1. Starts \subseteq Nat /\ Starts # {}
    BY <1>2, <1>3
  <2>. HIDE DEF Starts
  <2>. QED BY <2>1, LeastNat
<1>5. PICK best \in Fit : best.size = m /\ best.start = f
  BY <1>4
<1>6. \A r \in Fit : SizeOrder(best, r)
  <2>. SUFFICES ASSUME NEW r \in Fit
                PROVE  SizeOrder(best, r)
    OBVIOUS
  <2>1. m =< r.size
    BY <1>3
  <2>2. r.size = m => f =< r.start
    BY <1>4
  <2>3. m \in Nat /\ f \in Nat
    BY <1>2, <1>5
  <2>. QED BY <1>2, <1>5, <2>1, <2>2, <2>3 DEF SizeOrder
<1>. QED BY <1>5, <1>6 DEF BestFit, Fit

\* Below a page there is a last one that is not free, because page 0 is not.
LEMMA LastKeptExists ==
  ASSUME NEW runs, NEW end \in Nat \ {0}, ~ Covered(runs, 0)
  PROVE  /\ LastKept(runs, end) \in 0 .. end - 1
         /\ ~ Covered(runs, LastKept(runs, end))
         /\ \A q \in LastKept(runs, end) + 1 .. end - 1 : Covered(runs, q)
<1>. DEFINE Back == {k \in 0 .. end - 1 : ~ Covered(runs, end - 1 - k)}
<1>1. Back \subseteq Nat /\ Back # {}
  <2>1. end - 1 \in 0 .. end - 1 /\ end - 1 - (end - 1) = 0
    OBVIOUS
  <2>. QED BY <2>1
<1>2. PICK m \in Back : \A k \in Back : m =< k
  <2>. HIDE DEF Back
  <2>. QED BY <1>1, LeastNat
<1>. DEFINE last == end - 1 - m
<1>3. last \in 0 .. end - 1 /\ ~ Covered(runs, last)
  BY <1>2
<1>4. ASSUME NEW q \in last + 1 .. end - 1
      PROVE  Covered(runs, q)
  <2>. DEFINE k == end - 1 - q
  <2>1. k \in 0 .. end - 1 /\ k < m /\ end - 1 - k = q
    BY <1>2
  <2>2. k \notin Back
    <3>1. k \in Back => m =< k
      BY <1>2, Zenon
    <3>2. m \in Nat /\ k \in Nat
      BY <1>1, <2>1
    <3>. HIDE DEF Back, k
    <3>. QED BY <3>1, <3>2, <2>1
  <2>. QED BY <2>1, <2>2
<1>. HIDE DEF last
<1>. QED BY <1>3, <1>4 DEF LastKept
-----------------------------------------------------------------------------
(* What allocPages does to the layout *)

\* Using the front of a free run and leaving the rest of it free.
Front(fit, n) == [start |-> fit.start, size |-> n]
Rest(fit, n) == [start |-> fit.start + n, size |-> fit.size - n]
Keep(fit, n) == IF fit.size = n THEN {} ELSE {Rest(fit, n)}

\* What AllocBlob leaves of a free blob takes its place in the layout.
LEMMA SplitLayout ==
  ASSUME NEW F, NEW U, NEW total, Layout(F, U, total),
         NEW fit \in F, NEW n \in Nat \ {0}, n =< fit.size
  PROVE  /\ Layout((F \ {fit}) \cup Keep(fit, n), U \cup {Front(fit, n)}, total)
         /\ Front(fit, n) \in Run /\ Front(fit, n) \notin U
         /\ InOneSegment(Front(fit, n))
         /\ \A r \in U : ~ Overlap(r, Front(fit, n))
         /\ fit.size # n => Rest(fit, n) \notin F
<1>. DEFINE blob == Front(fit, n)
            rest == Rest(fit, n)
            keep == Keep(fit, n)
            G    == (F \ {fit}) \cup keep
<1>1. /\ F \subseteq Run /\ U \subseteq Run /\ fit \in Run
      /\ fit.start \in Nat /\ fit.size \in Nat \ {0}
      /\ total \in Nat \ {0}
  BY DEF Layout, Run
<1>2. blob \in Run /\ blob.start = fit.start /\ blob.size = n
  BY <1>1 DEF Run, Front
<1>3. fit.size # n =>
        /\ rest \in Run
        /\ rest.start = fit.start + n
        /\ End(rest) = End(fit)
  BY <1>1 DEF Run, End, Rest
<1>0. keep = IF fit.size = n THEN {} ELSE {rest}
  BY DEF Keep
<1>. HIDE DEF blob, rest, keep
<1>. USE DEF End
<1>4. \A r \in (U \cup F) \ {fit} : ~ Overlap(r, blob) /\ ~ Overlap(blob, r)
  <2>. SUFFICES ASSUME NEW r \in (U \cup F) \ {fit}
                PROVE  ~ Overlap(r, blob) /\ ~ Overlap(blob, r)
    OBVIOUS
  <2>1. ~ Overlap(r, fit) /\ ~ Overlap(fit, r)
    BY DEF Layout, Apart
  <2>2. r.start \in Nat /\ r.size \in Nat \ {0}
    BY <1>1 DEF Run
  <2>. QED BY <2>1, <2>2, <1>1, <1>2 DEF Overlap
<1>5. \A r \in (U \cup F) \ {fit} :
         fit.size # n => ~ Overlap(r, rest) /\ ~ Overlap(rest, r)
  <2>. SUFFICES ASSUME NEW r \in (U \cup F) \ {fit}, fit.size # n
                PROVE  ~ Overlap(r, rest) /\ ~ Overlap(rest, r)
    OBVIOUS
  <2>1. ~ Overlap(r, fit) /\ ~ Overlap(fit, r)
    BY DEF Layout, Apart
  <2>2. r.start \in Nat /\ r.size \in Nat \ {0}
    BY <1>1 DEF Run
  <2>. QED BY <2>1, <2>2, <1>1, <1>3 DEF Overlap
<1>6. fit.size # n => ~ Overlap(blob, rest) /\ ~ Overlap(rest, blob)
  BY <1>1, <1>2, <1>3 DEF Overlap
<1>7. \A r \in Run : Overlap(r, r)
  BY DEF Overlap, Run
<1>8. /\ fit \notin U
      /\ blob \notin U /\ (blob \in F => blob = fit)
      /\ fit.size # n => rest \notin U \cup (F \ {fit}) /\ rest # fit /\ rest # blob
  <2>1. fit.size # n => rest # fit
    BY <1>1, <1>3
  <2>. QED BY <1>2, <1>3, <1>4, <1>5, <1>6, <1>7, <2>1 DEF Layout
<1>9. G \subseteq Run /\ U \cup {blob} \subseteq Run /\ (U \cup {blob}) \cap G = {}
  <2>1. blob \in F => blob = fit
    BY <1>8
  <2>. QED BY <1>0, <1>1, <1>2, <1>3, <1>8, <2>1 DEF Layout
<1>10. Apart((U \cup {blob}) \cup G)
  <2>1. \A r \in (U \cup {blob}) \cup G :
           r \in (U \cup F) \ {fit} \/ r = blob \/ (fit.size # n /\ r = rest)
    BY <1>0, <1>8
  <2>2. \A r, s \in (U \cup F) \ {fit} : r # s => ~ Overlap(r, s)
    BY DEF Layout, Apart
  <2>. QED BY <2>1, <2>2, <1>4, <1>5, <1>6 DEF Apart
<1>11. Fills((U \cup {blob}) \cup G, total)
  <2>1. \A r \in U \cup F : End(r) =< total
    BY DEF Layout, Fills
  <2>2. End(blob) =< total /\ (fit.size # n => End(rest) =< total)
    <3>1. End(fit) =< total
      BY <2>1
    <3>. QED BY <3>1, <1>1, <1>2, <1>3
  <2>3. ASSUME NEW p \in 0 .. total - 1
        PROVE  Covered((U \cup {blob}) \cup G, p)
    <3>1. PICK r \in U \cup F : r.start =< p /\ p < End(r)
      BY DEF Layout, Fills, Covered
    <3>2. CASE r # fit
      BY <3>1, <3>2 DEF Covered
    <3>3. CASE r = fit /\ p < End(blob)
      BY <3>1, <3>3, <1>2 DEF Covered
    <3>4. CASE r = fit /\ p >= End(blob)
      <4>1. fit.size # n /\ rest.start =< p /\ p < End(rest)
        BY <3>1, <3>4, <1>1, <1>2, <1>3
      <4>. QED BY <4>1, <1>0 DEF Covered
    <3>. QED BY <3>2, <3>3, <3>4, <1>1, <1>2
  <2>4. \A r \in (U \cup {blob}) \cup G : End(r) =< total
    BY <2>1, <2>2, <1>0
  <2>. QED BY <2>3, <2>4 DEF Fills
<1>12. InOneSegment(fit)
  BY DEF Layout, Shape
<1>13. InOneSegment(blob) /\ (fit.size # n => InOneSegment(rest))
  BY <1>12, <1>1, <1>2, <1>3 DEF InOneSegment
<1>14. Shape(G, total)
  <2>1. \A r \in G : End(r) < total /\ InOneSegment(r)
    BY <1>0, <1>1, <1>3, <1>13 DEF Layout, Shape
  <2>2. ASSUME NEW r \in G, NEW s \in G, End(r) = s.start
        PROVE  isFirstPageOfSegment(s.start)
    <3>1. CASE r \in F /\ s \in F
      BY <2>2, <3>1 DEF Layout, Shape
    <3>2. CASE fit.size # n /\ r = rest /\ s \in F
      BY <2>2, <3>2, <1>3 DEF Layout, Shape
    <3>3. CASE fit.size # n /\ s = rest /\ r \in F \ {fit}
      \* r would end where the rest starts, inside the run it was split from.
      <4>1. ~ Overlap(r, fit) /\ r.start \in Nat /\ r.size \in Nat \ {0}
        BY <3>3, <1>1 DEF Layout, Apart, Run
      <4>. QED BY <2>2, <3>3, <4>1, <1>1, <1>3 DEF Overlap
    <3>4. CASE fit.size # n /\ r = rest /\ s = rest
      BY <2>2, <3>4, <1>1, <1>3
    <3>. QED BY <3>1, <3>2, <3>3, <3>4, <1>0
  <2>. QED BY <2>1, <2>2 DEF Shape
<1>. QED BY <1>1, <1>2, <1>4, <1>8, <1>9, <1>10, <1>11, <1>13, <1>14 DEF Layout, blob, rest, keep

\* Appending a blob to a file that ends with a run in use.
LEMMA AppendLayout ==
  ASSUME NEW F, NEW U, NEW total, Layout(F, U, total),
         NEW n \in Nat \ {0},
         NEW blob, blob = [start |-> total, size |-> n]
  PROVE  /\ Layout(F, U \cup {blob}, total + n)
         /\ blob \in Run /\ blob \notin U
         /\ \A r \in U : ~ Overlap(r, blob)
<1>1. total \in Nat \ {0} /\ F \subseteq Run /\ U \subseteq Run
  BY DEF Layout
<1>2. blob \in Run /\ blob.start = total /\ End(blob) = total + n
  BY <1>1 DEF Run, End
<1>3. \A r \in U \cup F : End(r) =< total /\ r \in Run
  BY <1>1 DEF Layout, Fills
<1>4. \A r \in U \cup F : ~ Overlap(r, blob) /\ ~ Overlap(blob, r)
  <2>. SUFFICES ASSUME NEW r \in U \cup F
                PROVE  ~ Overlap(r, blob) /\ ~ Overlap(blob, r)
    OBVIOUS
  <2>1. End(r) =< total /\ End(r) \in Nat
    BY <1>3 DEF Run, End
  <2>. QED BY <2>1, <1>1, <1>2 DEF Overlap
<1>5. blob \notin U \cup F
  <2>1. Overlap(blob, blob)
    BY <1>1, <1>2 DEF Overlap
  <2>. QED BY <2>1, <1>4
<1>6. Apart((U \cup {blob}) \cup F)
  BY <1>4 DEF Layout, Apart
<1>7. Fills((U \cup {blob}) \cup F, total + n)
  <2>1. \A r \in (U \cup {blob}) \cup F : End(r) =< total + n
    <3>. SUFFICES ASSUME NEW r \in U \cup F PROVE End(r) =< total + n
      BY <1>2, <1>1
    <3>1. End(r) =< total /\ End(r) \in Nat
      BY <1>3 DEF Run, End
    <3>. QED BY <3>1, <1>1
  <2>2. ASSUME NEW p \in 0 .. (total + n) - 1
        PROVE  Covered((U \cup {blob}) \cup F, p)
    <3>1. CASE p < total
      <4>1. p \in 0 .. total - 1
        BY <3>1, <1>1
      <4>. QED BY <4>1 DEF Layout, Fills, Covered
    <3>2. CASE p >= total
      <4>1. blob.start =< p /\ p < End(blob)
        BY <3>2, <1>1, <1>2
      <4>. QED BY <4>1 DEF Covered
    <3>. QED BY <3>1, <3>2, <1>1
  <2>. QED BY <2>1, <2>2 DEF Fills
<1>8. Shape(F, total + n)
  <2>. SUFFICES ASSUME NEW r \in F PROVE End(r) < total + n
    BY DEF Layout, Shape
  <2>1. End(r) < total /\ End(r) \in Nat
    BY <1>1 DEF Layout, Shape, Run, End
  <2>. QED BY <2>1, <1>1
<1>. QED BY <1>1, <1>2, <1>4, <1>5, <1>6, <1>7, <1>8 DEF Layout

\* Turning the last run of the file from used into free, below a new one.
Tail(total) == [start |-> total,
                size |-> SegmentPages - (total % SegmentPages)]

\* The end of a segment that a new blob has no room in becomes one more free blob.
LEMMA SkipLayout ==
  ASSUME NEW F, NEW U, NEW total, Layout(F, U, total),
         NEW n \in Nat \ {0},
         NEW blob, blob = [start |-> End(Tail(total)), size |-> n]
  PROVE  /\ Layout(F \cup {Tail(total)}, U \cup {blob}, End(Tail(total)) + n)
         /\ blob \in Run /\ blob \notin U
         /\ \A r \in U : ~ Overlap(r, blob)
         /\ Tail(total) \in Run /\ Tail(total) \notin F
<1>. DEFINE tail == Tail(total)
            len == SegmentPages - (total % SegmentPages)
<1>1. total \in Nat \ {0} /\ F \subseteq Run /\ U \subseteq Run
  BY DEF Layout
<1>2. len \in Nat \ {0} /\ tail.size = len
  BY <1>1, ModNext, SegmentPagesAssumption DEF Tail
<1>3. tail = [start |-> total, size |-> len] /\ blob = [start |-> total + len, size |-> n]
  BY DEF End, Tail
<1>. HIDE DEF tail
<1>4. InOneSegment(tail)
  <2>1. tail.start = total /\ End(tail) = total + len
    BY <1>3 DEF End
  <2>2. ASSUME NEW p \in tail.start + 1 .. End(tail) - 1
        PROVE  ~ isFirstPageOfSegment(p)
    <3>. DEFINE k == p - total
    <3>1. k \in Int /\ 0 < k /\ k < len /\ total + k = p
      <4>. HIDE DEF len
      <4>. QED BY <1>1, <1>2, <2>1
    <3>. HIDE DEF k
    <3>2. (total + k) % SegmentPages # 0
      BY <3>1, <1>1, ModShift, SegmentPagesAssumption
    <3>. QED BY <3>1, <3>2 DEF isFirstPageOfSegment
  <2>. QED BY <2>2 DEF InOneSegment
<1>. HIDE DEF len
<1>5. Layout(F, U \cup {tail}, total + len) /\ tail \in Run /\ tail \notin U
  BY <1>2, <1>3, AppendLayout
<1>6. /\ Layout(F, (U \cup {tail}) \cup {blob}, (total + len) + n)
      /\ blob \in Run /\ blob \notin U \cup {tail}
      /\ \A r \in U \cup {tail} : ~ Overlap(r, blob)
  <2>1. (total + len) \in Nat
    BY <1>1, <1>2
  <2>. QED BY <2>1, <1>3, <1>5, AppendLayout
<1>7. tail \notin F
  BY <1>5 DEF Layout
<1>8. End(tail) + n = (total + len) + n /\ End(tail) = total + len
  BY <1>3 DEF End
<1>. DEFINE G == F \cup {tail}
            V == U \cup {blob}
<1>9. V \cup G = (U \cup {tail} \cup {blob}) \cup F
  OBVIOUS
<1>10. /\ G \subseteq Run /\ V \subseteq Run /\ V \cap G = {}
       /\ Apart(V \cup G) /\ Fills(V \cup G, End(tail) + n)
       /\ End(tail) + n \in Nat \ {0}
  <2>1. Apart(V \cup G) /\ Fills(V \cup G, End(tail) + n)
    BY <1>6, <1>8, <1>9, Zenon DEF Layout
  <2>. QED BY <2>1, <1>1, <1>2, <1>5, <1>6, <1>8 DEF Layout
<1>11. Shape(G, End(tail) + n)
  <2>1. \A r \in G : End(r) < End(tail) + n /\ InOneSegment(r)
    <3>1. \A r \in F : End(r) < (total + len) + n /\ InOneSegment(r)
      BY <1>6 DEF Layout, Shape
    <3>. QED BY <3>1, <1>1, <1>2, <1>4, <1>8
  <2>2. ASSUME NEW r \in G, NEW s \in G, End(r) = s.start
        PROVE  isFirstPageOfSegment(s.start)
    <3>1. CASE r \in F /\ s \in F
      BY <2>2, <3>1 DEF Layout, Shape
    <3>2. CASE r \in F /\ s = tail
      \* The last free run ends before the end of the file.
      <4>1. End(r) < total
        BY <3>2 DEF Layout, Shape
      <4>. QED BY <4>1, <2>2, <3>2, <1>1, <1>3
    <3>3. CASE r = tail
      <4>1. End(s) =< total \/ s = tail
        BY <3>3 DEF Layout, Fills
      <4>2. s \in Run
        BY <1>10
      <4>3. s.start \in Nat /\ s.size \in Nat \ {0} /\ End(s) = s.start + s.size
        BY <4>2 DEF Run, End
      <4>4. s.start = total + len
        BY <2>2, <3>3, <1>8
      <4>5. tail.start = total
        BY <1>3
      <4>. QED BY <4>1, <4>3, <4>4, <4>5, <1>1, <1>2
    <3>. QED BY <3>1, <3>2, <3>3
  <2>. QED BY <2>1, <2>2 DEF Shape
<1>. QED BY <1>5, <1>6, <1>7, <1>10, <1>11 DEF Layout, tail

-----------------------------------------------------------------------------
(* What performFreePages does to the layout *)

\* Cutting off the last run in use, and the free runs that then end the file.
LEMMA TrimLayout ==
  ASSUME NEW F, NEW U, NEW total, Layout(F, U, total),
         NEW blob \in U, End(blob) = total,
         NEW meta \in U, meta.start = 0, meta # blob,
         NEW cut, cut = LastKept(F, blob.start) + 1,
         NEW trimmed, trimmed = {r \in F : r.start >= cut}
  PROVE  Layout(F \ trimmed, U \ {blob}, cut)
<1>1. /\ total \in Nat \ {0} /\ F \subseteq Run /\ U \subseteq Run
      /\ \A r \in U \cup F : r.start \in Nat /\ r.size \in Nat \ {0}
  BY DEF Layout, Run
<1>2. \A r, s \in U \cup F : r # s => ~ Overlap(r, s)
  BY DEF Layout, Apart
<1>3. blob.start \in Nat \ {0}
  BY <1>1, <1>2 DEF Overlap, End
<1>4. ~ Covered(F, 0)
  <2>. SUFFICES ASSUME NEW r \in F, r.start =< 0, 0 < End(r)
                PROVE  FALSE
    BY DEF Covered
  <2>1. r # meta
    BY DEF Layout
  <2>. QED BY <2>1, <1>1, <1>2 DEF Overlap, End
<1>. DEFINE last == LastKept(F, blob.start)
<1>5. /\ last \in 0 .. blob.start - 1
      /\ ~ Covered(F, last)
      /\ \A q \in last + 1 .. blob.start - 1 : Covered(F, q)
  BY <1>3, <1>4, LastKeptExists
<1>. HIDE DEF last
<1>6. cut = last + 1 /\ cut \in Nat \ {0}
  BY <1>3, <1>5 DEF last
<1>7. ASSUME NEW r \in U \ {blob}
      PROVE  End(r) =< cut
  <2>1. End(r) =< blob.start
    <3>1. ~ Overlap(r, blob) /\ End(r) =< total
      BY <1>2 DEF Layout, Fills
    <3>. QED BY <3>1, <1>1 DEF Overlap, End
  <2>2. ~ Covered(F, End(r) - 1)
    <3>. SUFFICES ASSUME NEW f \in F, f.start =< End(r) - 1, End(r) - 1 < End(f)
                  PROVE  FALSE
      BY DEF Covered
    <3>1. ~ Overlap(r, f)
      BY <1>2 DEF Layout
    <3>. QED BY <3>1, <1>1 DEF Overlap, End
  <2>3. End(r) \in Nat \ {0}
    BY <1>1 DEF End
  <2>. QED BY <2>1, <2>2, <2>3, <1>3, <1>5, <1>6
<1>8. ASSUME NEW r \in F \ trimmed
      PROVE  End(r) < cut
  <2>1. r.start =< last
    BY <1>1, <1>5, <1>6
  <2>2. ~ (last < End(r))
    BY <2>1, <1>5 DEF Covered
  <2>. QED BY <2>2, <1>1, <1>5, <1>6 DEF End
<1>. DEFINE G == F \ trimmed
            V == U \ {blob}
<1>9. Fills(V \cup G, cut)
  <2>1. \A r \in V \cup G : End(r) =< cut
    BY <1>1, <1>6, <1>7, <1>8 DEF End
  <2>2. ASSUME NEW p \in 0 .. cut - 1
        PROVE  Covered(V \cup G, p)
    <3>1. p \in 0 .. total - 1 /\ p < blob.start /\ p < cut
      BY <1>1, <1>3, <1>5, <1>6 DEF End
    <3>2. PICK r \in U \cup F : r.start =< p /\ p < End(r)
      BY <3>1 DEF Layout, Fills, Covered
    <3>3. r # blob /\ r \notin trimmed
      BY <3>1, <3>2, <1>1, <1>6
    <3>. QED BY <3>2, <3>3 DEF Covered
  <2>. QED BY <2>1, <2>2 DEF Fills
<1>10. Apart(V \cup G)
  BY DEF Layout, Apart
<1>11. Shape(G, cut)
  BY <1>8 DEF Layout, Shape
<1>12. G \subseteq Run /\ V \subseteq Run /\ V \cap G = {}
  BY DEF Layout
<1>. QED BY <1>6, <1>9, <1>10, <1>11, <1>12 DEF Layout

\* Freeing a run inside the file, merged with its free neighbours.
LEMMA MergeLayout ==
  ASSUME NEW F, NEW U, NEW total, Layout(F, U, total),
         NEW blob \in U, End(blob) # total, InOneSegment(blob)
  PROVE  LET right == RightNeighbor(F, blob)
             left  == LeftNeighbor(F, blob)
             whole == Merge(blob, right, left)
         IN  /\ Layout((F \ (right \cup left)) \cup {whole}, U \ {blob}, total)
             /\ whole \in Run /\ whole \notin F \ (right \cup left)
             /\ right \subseteq F /\ left \subseteq F /\ right \cap left = {}
<1>. DEFINE right == RightNeighbor(F, blob)
            left  == LeftNeighbor(F, blob)
            whole == Merge(blob, right, left)
<1>1. /\ total \in Nat \ {0} /\ F \subseteq Run /\ U \subseteq Run
      /\ \A r \in U \cup F : r.start \in Nat /\ r.size \in Nat \ {0}
      /\ blob \notin F
  BY DEF Layout, Run
<1>2. \A r, s \in U \cup F : r # s => ~ Overlap(r, s)
  BY DEF Layout, Apart
<1>3. right \subseteq F /\ left \subseteq F
  BY DEF RightNeighbor, LeftNeighbor
<1>4. \A r, s \in F : (r.start = s.start \/ End(r) = End(s)) => r = s
  <2>. SUFFICES ASSUME NEW r \in F, NEW s \in F,
                       r.start = s.start \/ End(r) = End(s), r # s
                PROVE  FALSE
    OBVIOUS
  <2>1. ~ Overlap(r, s)
    BY <1>2
  <2>. QED BY <2>1, <1>1 DEF Overlap, End
<1>5. right = {} \/ \E r \in F : right = {r}
  BY <1>4 DEF RightNeighbor
<1>6. left = {} \/ \E l \in F : left = {l}
  BY <1>4 DEF LeftNeighbor
<1>7. right \cap left = {}
  <2>. SUFFICES ASSUME NEW r \in right, r \in left PROVE FALSE
    OBVIOUS
  <2>. QED BY <1>1 DEF RightNeighbor, LeftNeighbor, End
<1>. DEFINE first == whole.start
            end == End(whole)
\* The merged run is the blob and its neighbours, end to end.
<1>8. /\ whole \in Run
      /\ first \in Nat /\ end \in Nat /\ first =< blob.start /\ End(blob) =< end
      /\ right = {} => end = End(blob)
      /\ \A r \in right : r.start = End(blob) /\ end = End(r)
      /\ left = {} => first = blob.start
      /\ \A l \in left : End(l) = blob.start /\ first = l.start
  <2>. DEFINE f == IF left = {} THEN blob.start ELSE (CHOOSE s \in left : TRUE).start
              e == IF right = {} THEN End(blob) ELSE End(CHOOSE s \in right : TRUE)
  <2>1. whole = [start |-> f, size |-> e - f]
    BY DEF Merge
  <2>2. /\ left = {} => f = blob.start
        /\ \A l \in left : End(l) = blob.start /\ f = l.start
    <3>1. CASE left = {}
      BY <3>1
    <3>2. CASE \E l \in F : left = {l}
      <4>1. PICK l \in F : left = {l}
        BY <3>2
      <4>. QED BY <4>1 DEF LeftNeighbor, left
    <3>. QED BY <3>1, <3>2, <1>6
  <2>3. /\ right = {} => e = End(blob)
        /\ \A r \in right : r.start = End(blob) /\ e = End(r)
    <3>1. CASE right = {}
      BY <3>1
    <3>2. CASE \E r \in F : right = {r}
      <4>1. PICK r \in F : right = {r}
        BY <3>2
      <4>. QED BY <4>1 DEF RightNeighbor, right
    <3>. QED BY <3>1, <3>2, <1>5
  <2>. HIDE DEF f, e
  <2>4. f \in Nat /\ f =< blob.start
    <3>1. \A l \in left : l.start \in Nat /\ l.size \in Nat \ {0}
      BY <1>1, <1>3
    <3>. QED BY <3>1, <2>2, <1>1, <1>6 DEF End
  <2>5. e \in Nat /\ End(blob) =< e
    <3>1. \A r \in right : r.start \in Nat /\ r.size \in Nat \ {0}
      BY <1>1, <1>3
    <3>. QED BY <3>1, <2>3, <1>1, <1>5 DEF End
  <2>6. f < e /\ blob.start < End(blob)
    BY <2>4, <2>5, <1>1 DEF End
  <2>7. whole \in Run /\ whole.start = f /\ End(whole) = e
    BY <2>1, <2>4, <2>5, <2>6 DEF Run, End
  <2>. QED BY <2>2, <2>3, <2>4, <2>5, <2>7
<1>. HIDE DEF right, left, whole
<1>. DEFINE K == F \ (right \cup left)
            G == K \cup {whole}
            V == U \ {blob}
<1>. HIDE DEF first, end
<1>9. ASSUME NEW r \in V \cup K
      PROVE  ~ Overlap(r, whole) /\ ~ Overlap(whole, r)
  \* r overlaps none of the pieces, and there is no gap between them.
  <2>1. r.start \in Nat /\ r.size \in Nat \ {0} /\ r # blob
    BY <1>1
  <2>2. ~ Overlap(r, blob)
    BY <1>2, <2>1
  <2>3. \A s \in right \cup left : ~ Overlap(r, s)
    BY <1>2, <1>3 DEF Layout
  <2>4. ~ (r.start < end /\ first < End(r))
    <3>1. right = {} \/ (r.start < end => r.start < End(blob) \/ End(blob) >= End(r))
      <4>. SUFFICES ASSUME NEW s \in right, r.start < end
                    PROVE  r.start < End(blob) \/ End(blob) >= End(r)
        BY <1>5
      <4>. QED BY <2>1, <2>3, <1>1, <1>3, <1>8 DEF Overlap, End
    <3>2. left = {} \/ (first < End(r) => blob.start < End(r) \/ r.start >= blob.start)
      <4>. SUFFICES ASSUME NEW s \in left, first < End(r)
                    PROVE  blob.start < End(r) \/ r.start >= blob.start
        BY <1>6
      <4>. QED BY <2>1, <2>3, <1>1, <1>3, <1>8 DEF Overlap, End
    <3>. QED BY <3>1, <3>2, <2>1, <2>2, <1>1, <1>8 DEF Overlap, End
  <2>. QED BY <2>4 DEF Overlap, first, end
<1>10. whole \notin V \cup K
  <2>1. Overlap(whole, whole)
    BY <1>8 DEF Overlap, Run, End
  <2>. QED BY <2>1, <1>9
<1>11. G \subseteq Run /\ V \subseteq Run /\ V \cap G = {}
  BY <1>1, <1>8, <1>10 DEF Layout
<1>12. Apart(V \cup G)
  BY <1>2, <1>9 DEF Apart
<1>13. Fills(V \cup G, total)
  <2>1. \A r \in U \cup F : End(r) =< total
    BY DEF Layout, Fills
  <2>2. end =< total
    BY <2>1, <1>3, <1>5, <1>8
  <2>3. ASSUME NEW p \in 0 .. total - 1
        PROVE  Covered(V \cup G, p)
    <3>1. PICK r \in U \cup F : r.start =< p /\ p < End(r)
      BY DEF Layout, Fills, Covered
    <3>2. CASE r \in V \cup K
      BY <3>1, <3>2 DEF Covered
    <3>3. CASE r \in {blob} \cup right \cup left
      <4>1. r.start \in Nat /\ r.size \in Nat \ {0} /\ End(r) \in Nat
        BY <1>1 DEF End
      <4>2. first =< p /\ p < end
        <5>1. CASE r = blob
          BY <5>1, <3>1, <4>1, <1>8
        <5>2. CASE r \in right
          BY <5>2, <3>1, <4>1, <1>1, <1>8 DEF End
        <5>3. CASE r \in left
          BY <5>3, <3>1, <4>1, <1>1, <1>8 DEF End
        <5>. QED BY <5>1, <5>2, <5>3, <3>3
      <4>. QED BY <4>2 DEF Covered, first, end
    <3>. QED BY <3>2, <3>3
  <2>4. \A r \in V \cup G : End(r) =< total
    BY <2>1, <2>2 DEF end
  <2>. QED BY <2>3, <2>4 DEF Fills
<1>14. InOneSegment(whole)
  <2>1. \A r \in F : InOneSegment(r)
    BY DEF Layout, Shape
  <2>2. ASSUME NEW p \in first + 1 .. end - 1
        PROVE  ~ isFirstPageOfSegment(p)
    <3>1. p \in Int /\ first < p /\ p < end
      BY <1>8
    <3>2. CASE blob.start < p /\ p < End(blob)
      BY <3>1, <3>2, <1>1 DEF InOneSegment, End
    <3>3. CASE p = blob.start
      <4>1. PICK l \in left : TRUE
        BY <3>1, <3>3, <1>8
      <4>. QED BY <4>1, <3>3 DEF LeftNeighbor, left
    <3>4. CASE p < blob.start
      <4>1. PICK l \in left : TRUE
        BY <3>1, <3>4, <1>8
      <4>2. p \in l.start + 1 .. End(l) - 1
        BY <3>1, <3>4, <4>1, <1>1, <1>3, <1>8 DEF End
      <4>. QED BY <4>2, <2>1, <1>3 DEF InOneSegment
    <3>5. CASE p = End(blob)
      <4>1. PICK r \in right : TRUE
        BY <3>1, <3>5, <1>8
      <4>. QED BY <4>1, <3>5 DEF RightNeighbor, right
    <3>6. CASE p > End(blob)
      <4>1. PICK r \in right : TRUE
        BY <3>1, <3>6, <1>8
      <4>2. p \in r.start + 1 .. End(r) - 1
        BY <3>1, <3>6, <4>1, <1>1, <1>3, <1>8 DEF End
      <4>. QED BY <4>2, <2>1, <1>3 DEF InOneSegment
    <3>. QED BY <3>1, <3>2, <3>3, <3>4, <3>5, <3>6, <1>1 DEF End
  <2>. QED BY <2>2 DEF InOneSegment, first, end
<1>15. Shape(G, total)
  <2>1. end < total
    <3>1. \A r \in F : End(r) < total
      BY DEF Layout, Shape
    <3>2. End(blob) < total
      BY <1>1 DEF Layout, Fills, End
    <3>. QED BY <3>1, <3>2, <1>3, <1>5, <1>8
  <2>2. \A r \in G : End(r) < total /\ InOneSegment(r)
    BY <2>1, <1>14 DEF Layout, Shape, end
  <2>3. ASSUME NEW r \in G, NEW s \in G, End(r) = s.start
        PROVE  isFirstPageOfSegment(s.start)
    <3>1. CASE r \in F /\ s \in F
      BY <2>3, <3>1 DEF Layout, Shape
    <3>2. CASE r \in K /\ s = whole
      <4>1. End(r) = first
        BY <2>3, <3>2 DEF first
      <4>2. CASE left = {}
        <5>1. End(r) = blob.start /\ r \notin left
          BY <4>1, <4>2, <1>8
        <5>2. isFirstPageOfSegment(blob.start)
          BY <5>1, <3>2 DEF LeftNeighbor, left
        <5>. QED BY <5>1, <5>2, <2>3
      <4>3. CASE left # {}
        <5>1. PICK l \in left : TRUE
          BY <4>3
        <5>2. End(r) = l.start /\ l \in F /\ r \in F
          BY <4>1, <5>1, <3>2, <1>3, <1>8
        <5>3. isFirstPageOfSegment(l.start)
          BY <5>2 DEF Layout, Shape
        <5>. QED BY <5>2, <5>3, <2>3
      <4>. QED BY <4>2, <4>3
    <3>3. CASE r = whole /\ s \in K
      <4>1. s.start = end
        BY <2>3, <3>3 DEF end
      <4>2. CASE right = {}
        <5>1. s.start = End(blob) /\ s \notin right
          BY <4>1, <4>2, <1>8
        <5>. QED BY <5>1, <3>3 DEF RightNeighbor, right
      <4>3. CASE right # {}
        <5>1. PICK q \in right : TRUE
          BY <4>3
        <5>2. End(q) = s.start /\ q \in F /\ s \in F
          BY <4>1, <5>1, <3>3, <1>3, <1>8
        <5>. QED BY <5>2 DEF Layout, Shape
      <4>. QED BY <4>2, <4>3
    <3>4. CASE r = whole /\ s = whole
      BY <2>3, <3>4, <1>8 DEF Run, End
    <3>. QED BY <3>1, <3>2, <3>3, <3>4
  <2>. QED BY <2>2, <2>3 DEF Shape
<1>16. whole \notin K
  BY <1>10
<1>. QED BY <1>1, <1>3, <1>5, <1>6, <1>7, <1>8, <1>11, <1>12, <1>13, <1>15, <1>16 DEF Layout, right, left, whole

-----------------------------------------------------------------------------
(* The two operations on a space *)

\* allocPages gives out pages that nobody uses, in one segment, and keeps the
\* trees, the counters and the layout of the file sound.
THEOREM AllocSound ==
  ASSUME NEW sp, NEW U, Sound(sp, U), NEW n \in 1 .. SegmentPages,
         NEW alloc, alloc = AllocPages(sp, n),
         NEW blob, blob = [start |-> alloc.first, size |-> n]
  PROVE  /\ Sound(alloc.space, U \cup {blob})
         /\ blob \in Run /\ blob \notin U
         /\ InOneSegment(blob)
         /\ \A r \in U : ~ Overlap(r, blob)
<1>. DEFINE F == sp.freeByStart
<1>1. /\ sp \in Space /\ sp.freeBySize = F /\ IsFiniteSet(F)
      /\ sp.freeRanges = Cardinality(F) /\ Layout(F, U, sp.totalPages)
      /\ F \subseteq Run /\ sp.totalPages \in Nat \ {0}
  BY DEF Sound, Layout
<1>2. n \in Nat \ {0} /\ n =< SegmentPages
  BY SegmentPagesAssumption
<1>3. CASE Fitting(sp, n) # {}
  <2>. DEFINE fit  == BestFit(sp, n)
              rest == [start |-> fit.start + n, size |-> fit.size - n]
              keep == IF fit.size = n THEN {} ELSE {rest}
              G    == (F \ {fit}) \cup keep
  <2>1. fit \in F /\ fit.size >= n
    BY <1>1, <1>2, <1>3, BestFitFits DEF Fitting
  <2>2. fit \in Run /\ fit.size \in Nat
    BY <1>1, <2>1 DEF Run
  <2>3. alloc = AllocFitting(sp, n)
    BY <1>3 DEF AllocPages
  <2>4. /\ alloc.first = fit.start
        /\ alloc.space = [sp EXCEPT
                  !.freeRanges  = IF fit.size = n THEN @ - 1 ELSE @,
                  !.freeByStart = (@ \ {fit}) \cup keep,
                  !.freeBySize  = (@ \ {fit}) \cup keep]
    BY <2>3 DEF AllocFitting
  <2>. HIDE DEF fit
  <2>5. /\ alloc.space.totalPages = sp.totalPages
        /\ alloc.space.freeByStart = G
        /\ alloc.space.freeBySize = G
        /\ alloc.space.freeRanges =
             IF fit.size = n THEN sp.freeRanges - 1 ELSE sp.freeRanges
        /\ alloc.space = [totalPages  |-> alloc.space.totalPages,
                          freeRanges  |-> alloc.space.freeRanges,
                          freeByStart |-> alloc.space.freeByStart,
                          freeBySize  |-> alloc.space.freeBySize]
    BY <1>1, <2>4 DEF Space
  <2>6. /\ Layout(G, U \cup {blob}, sp.totalPages)
        /\ blob \in Run /\ blob \notin U
        /\ InOneSegment(blob)
        /\ \A r \in U : ~ Overlap(r, blob)
        /\ fit.size # n => rest \notin F
    <3>1. n =< fit.size /\ blob = Front(fit, n)
      BY <2>1, <2>2, <2>4, <1>2 DEF Front
    <3>2. rest = Rest(fit, n) /\ keep = Keep(fit, n)
      BY DEF Rest, Keep
    <3>. HIDE DEF keep, rest
    <3>3. Layout(F, U, sp.totalPages) /\ fit \in F
      BY <1>1, <2>1
    <3>. HIDE DEF F
    <3>4. /\ Layout((F \ {fit}) \cup Keep(fit, n), U \cup {Front(fit, n)}, sp.totalPages)
          /\ Front(fit, n) \in Run /\ Front(fit, n) \notin U
          /\ InOneSegment(Front(fit, n))
          /\ \A r \in U : ~ Overlap(r, Front(fit, n))
          /\ fit.size # n => Rest(fit, n) \notin F
      BY <3>1, <3>3, <1>2, SplitLayout
    <3>. QED BY <3>1, <3>2, <3>4
  <2>7. IsFiniteSet(G) /\ alloc.space.freeRanges = Cardinality(G)
    <3>1. /\ IsFiniteSet(F \ {fit})
          /\ Cardinality(F \ {fit}) = Cardinality(F) - 1
          /\ Cardinality(F) \in Nat
      BY <1>1, <2>1, FS_RemoveElement, FS_CardinalityType
    <3>2. CASE fit.size = n
      BY <3>1, <3>2, <1>1, <2>5
    <3>3. CASE fit.size # n
      <4>1. rest \notin F \ {fit} /\ G = (F \ {fit}) \cup {rest}
        BY <3>3, <2>6
      <4>. HIDE DEF rest, G
      <4>2. IsFiniteSet(G) /\ Cardinality(G) = Cardinality(F \ {fit}) + 1
        BY <4>1, <3>1, FS_AddElement
      <4>. QED BY <4>2, <3>1, <3>3, <1>1, <2>5
    <3>. QED BY <3>2, <3>3
  <2>8. alloc.space \in Space
    <3>1. G \subseteq Run
      BY <2>6 DEF Layout
    <3>. HIDE DEF G
    <3>2. alloc.space.freeRanges \in Int
      BY <2>5, <1>1 DEF Space
    <3>. QED BY <3>1, <3>2, <2>5, <1>1 DEF Space
  <2>. QED BY <2>5, <2>6, <2>7, <2>8 DEF Sound
<1>4. CASE Fitting(sp, n) = {} /\ Remaining(sp) < n
  <2>. DEFINE tail == [start |-> sp.totalPages, size |-> Remaining(sp)]
              G    == F \cup {tail}
  <2>1. /\ alloc.first = End(tail)
        /\ alloc.space = [totalPages  |-> End(tail) + n,
                          freeRanges  |-> sp.freeRanges + 1,
                          freeByStart |-> G,
                          freeBySize  |-> G]
    BY <1>1, <1>4 DEF AllocPages, AllocVirgin
  <2>2. /\ Layout(G, U \cup {blob}, End(tail) + n)
        /\ blob \in Run /\ blob \notin U
        /\ \A r \in U : ~ Overlap(r, blob)
        /\ tail \in Run /\ tail \notin F
    <3>1. blob = [start |-> End(tail), size |-> n]
      BY <2>1
    <3>2. tail = Tail(sp.totalPages)
      BY DEF Tail, Remaining
    <3>. HIDE DEF tail
    <3>3. Layout(F, U, sp.totalPages)
      BY <1>1
    <3>. HIDE DEF F
    <3>4. /\ Layout(F \cup {Tail(sp.totalPages)}, U \cup {blob}, End(Tail(sp.totalPages)) + n)
          /\ blob \in Run /\ blob \notin U
          /\ \A r \in U : ~ Overlap(r, blob)
          /\ Tail(sp.totalPages) \in Run /\ Tail(sp.totalPages) \notin F
      BY <3>1, <3>2, <3>3, <1>2, SkipLayout
    <3>. QED BY <3>2, <3>4
  <2>3. InOneSegment(blob)
    <3>. DEFINE a == blob.start
    <3>1. a \in Nat /\ a % SegmentPages = 0
      <4>. DEFINE t == sp.totalPages
      <4>1. a = t + (SegmentPages - (t % SegmentPages))
        BY <2>1 DEF End, Remaining
      <4>2. t \in Nat
        BY <1>1
      <4>. HIDE DEF a, t
      <4>3. /\ SegmentPages - (t % SegmentPages) \in 1 .. SegmentPages
            /\ (t + (SegmentPages - (t % SegmentPages))) % SegmentPages = 0
        BY <4>2, ModNext, SegmentPagesAssumption
      <4>4. a \in Nat
        BY <4>1, <4>2, <4>3
      <4>. QED BY <4>1, <4>3, <4>4
    <3>2. End(blob) = a + n
      BY DEF End
    <3>. HIDE DEF a
    <3>3. ASSUME NEW p \in a + 1 .. End(blob) - 1
          PROVE  ~ isFirstPageOfSegment(p)
      <4>. DEFINE k == p - a
      <4>1. k \in Int /\ 0 < k /\ k < SegmentPages - (a % SegmentPages) /\ a + k = p
        BY <3>1, <3>2, <1>2, SegmentPagesAssumption
      <4>. HIDE DEF k
      <4>2. (a + k) % SegmentPages # 0
        BY <4>1, <3>1, ModShift, SegmentPagesAssumption
      <4>. QED BY <4>1, <4>2 DEF isFirstPageOfSegment
    <3>. QED BY <3>3 DEF InOneSegment, a
  <2>4. IsFiniteSet(G) /\ Cardinality(G) = sp.freeRanges + 1
    <3>. HIDE DEF tail
    <3>. QED BY <1>1, <2>2, FS_AddElement
  <2>5. alloc.space \in Space
    <3>1. G \subseteq Run /\ End(tail) + n \in Nat \ {0}
      BY <2>2 DEF Layout
    <3>. HIDE DEF G, tail
    <3>. QED BY <3>1, <2>1, <1>1 DEF Space
  <2>. HIDE DEF G, tail
  <2>. QED BY <2>1, <2>2, <2>3, <2>4, <2>5 DEF Sound
<1>5. CASE Fitting(sp, n) = {} /\ ~ (Remaining(sp) < n)
  <2>1. /\ alloc.first = sp.totalPages
        /\ alloc.space = [sp EXCEPT !.totalPages = @ + n]
    BY <1>5 DEF AllocPages, AllocVirgin
  <2>2. /\ alloc.space.totalPages = sp.totalPages + n
        /\ alloc.space.freeByStart = F
        /\ alloc.space.freeBySize = F
        /\ alloc.space.freeRanges = sp.freeRanges
        /\ alloc.space \in Space
    BY <1>1, <1>2, <2>1 DEF Space
  <2>3. /\ Layout(F, U \cup {blob}, sp.totalPages + n)
        /\ blob \in Run /\ blob \notin U
        /\ \A r \in U : ~ Overlap(r, blob)
    BY <1>1, <1>2, <2>1, AppendLayout
  <2>4. InOneSegment(blob)
    <3>. DEFINE a == sp.totalPages
    <3>1. a \in Nat /\ n =< SegmentPages - (a % SegmentPages)
      <4>1. SegmentPages - (a % SegmentPages) \in 1 .. SegmentPages
        BY <1>1, ModNext, SegmentPagesAssumption
      <4>. QED BY <4>1, <1>1, <1>2, <1>5 DEF Remaining
    <3>2. blob.start = a /\ End(blob) = a + n
      BY <2>1 DEF End
    <3>. HIDE DEF a
    <3>3. ASSUME NEW p \in a + 1 .. End(blob) - 1
          PROVE  ~ isFirstPageOfSegment(p)
      <4>. DEFINE k == p - a
      <4>0. SegmentPages - (a % SegmentPages) \in Int
        BY <3>1, ModNext, SegmentPagesAssumption
      <4>1. k \in Int /\ 0 < k /\ k < SegmentPages - (a % SegmentPages) /\ a + k = p
        BY <3>1, <3>2, <1>2, <4>0
      <4>. HIDE DEF k
      <4>2. (a + k) % SegmentPages # 0
        BY <4>1, <3>1, ModShift, SegmentPagesAssumption
      <4>. QED BY <4>1, <4>2 DEF isFirstPageOfSegment
    <3>. QED BY <3>2, <3>3 DEF InOneSegment
  <2>. QED BY <1>1, <2>2, <2>3, <2>4 DEF Sound
<1>. QED BY <1>3, <1>4, <1>5

\* performFreePages turns a run in use into free space and nothing else.
THEOREM FreeSound ==
  ASSUME NEW sp, NEW U, Sound(sp, U), NEW blob \in U, InOneSegment(blob),
         NEW meta \in U, meta.start = 0, meta # blob
  PROVE  Sound(PerformFreePages(sp, blob), U \ {blob})
<1>. DEFINE F   == sp.freeByStart
            new == PerformFreePages(sp, blob)
<1>1. /\ sp \in Space /\ sp.freeBySize = F /\ IsFiniteSet(F)
      /\ sp.freeRanges = Cardinality(F) /\ Layout(F, U, sp.totalPages)
      /\ F \subseteq Run /\ sp.totalPages \in Nat \ {0}
      /\ Cardinality(F) \in Nat
  BY FS_CardinalityType DEF Sound, Layout
<1>2. CASE End(blob) = sp.totalPages
  <2>. DEFINE cut     == LastKept(F, blob.start) + 1
              trimmed == {r \in F : r.start >= cut}
              G       == F \ trimmed
  <2>1. new = [totalPages |-> cut,
               freeRanges |-> sp.freeRanges - Cardinality(trimmed),
               freeByStart |-> G, freeBySize |-> G]
    BY <1>1, <1>2 DEF PerformFreePages, FreeAtEnd
  <2>2. Layout(G, U \ {blob}, cut)
    BY <1>1, <1>2, TrimLayout
  <2>3. IsFiniteSet(G) /\ Cardinality(G) = Cardinality(F) - Cardinality(trimmed)
    <3>1. trimmed \subseteq F
      OBVIOUS
    <3>. HIDE DEF trimmed
    <3>2. IsFiniteSet(trimmed) /\ IsFiniteSet(G)
      BY <3>1, <1>1, FS_Subset
    <3>3. G \cup trimmed = F /\ G \cap trimmed = {}
      BY <3>1
    <3>4. Cardinality(G) \in Nat /\ Cardinality(trimmed) \in Nat
      BY <3>2, FS_CardinalityType
    <3>. HIDE DEF G, F
    <3>5. Cardinality(F) = Cardinality(G) + Cardinality(trimmed) - Cardinality({})
      BY <3>2, <3>3, FS_Union
    <3>. QED BY <3>2, <3>4, <3>5, FS_EmptySet
  <2>4. Cardinality(trimmed) \in Int
    <3>1. IsFiniteSet(trimmed)
      BY <1>1, FS_Subset
    <3>. HIDE DEF trimmed
    <3>. QED BY <3>1, FS_CardinalityType
  <2>5. new \in Space
    <3>1. G \subseteq Run /\ cut \in Nat \ {0}
      BY <2>2 DEF Layout
    <3>. HIDE DEF G, cut, trimmed
    <3>. QED BY <3>1, <2>1, <2>4, <1>1 DEF Space
  <2>. HIDE DEF G, cut, trimmed, new
  <2>6. /\ new.totalPages = cut /\ new.freeByStart = G /\ new.freeBySize = G
        /\ new.freeRanges = Cardinality(G)
    BY <2>1, <2>3, <1>1
  <2>. QED BY <2>2, <2>3, <2>5, <2>6 DEF Sound, new
<1>3. CASE End(blob) # sp.totalPages
  <2>. DEFINE right == RightNeighbor(F, blob)
              left  == LeftNeighbor(F, blob)
              whole == Merge(blob, right, left)
              K     == F \ (right \cup left)
              G     == K \cup {whole}
  <2>1. new = [sp EXCEPT
                 !.freeRanges  = @ - Cardinality(right) - Cardinality(left) + 1,
                 !.freeByStart = (@ \ (right \cup left)) \cup {whole},
                 !.freeBySize  = (@ \ (right \cup left)) \cup {whole}]
    BY <1>3 DEF PerformFreePages, FreeInside
  <2>2. /\ Layout(G, U \ {blob}, sp.totalPages)
        /\ whole \in Run /\ whole \notin K
        /\ right \subseteq F /\ left \subseteq F /\ right \cap left = {}
    <3>1. Layout(F, U, sp.totalPages)
      BY <1>1
    <3>. HIDE DEF F
    <3>. QED BY <3>1, <1>3, MergeLayout
  <2>. HIDE DEF right, left, whole
  <2>3. /\ IsFiniteSet(right) /\ IsFiniteSet(left) /\ IsFiniteSet(K)
        /\ Cardinality(right) \in Nat /\ Cardinality(left) \in Nat
        /\ Cardinality(K) \in Nat
    BY <1>1, <2>2, FS_Subset, FS_CardinalityType
  <2>4. Cardinality(right \cup left) = Cardinality(right) + Cardinality(left)
    <3>1. Cardinality(right \cup left) =
             Cardinality(right) + Cardinality(left) - Cardinality(right \cap left)
      BY <2>3, FS_Union
    <3>. QED BY <3>1, <2>2, <2>3, FS_EmptySet
  <2>5. Cardinality(F) = Cardinality(K) + Cardinality(right \cup left)
    <3>. DEFINE N == right \cup left
    <3>1. IsFiniteSet(N) /\ K \cup N = F /\ K \cap N = {}
      BY <2>2, <2>3, FS_Union
    <3>2. Cardinality(N) \in Nat
      BY <3>1, FS_CardinalityType
    <3>. HIDE DEF N, K, F
    <3>3. Cardinality(F) = Cardinality(K) + Cardinality(N) - Cardinality({})
      BY <3>1, <2>3, FS_Union
    <3>4. Cardinality(F) = Cardinality(K) + Cardinality(N)
      BY <3>2, <3>3, <2>3, FS_EmptySet
    <3>. QED BY <3>4 DEF N
  <2>6. IsFiniteSet(G) /\ Cardinality(G) = Cardinality(K) + 1
    <3>. HIDE DEF K
    <3>. QED BY <2>2, <2>3, FS_AddElement
  <2>7. /\ new.totalPages = sp.totalPages
        /\ new.freeByStart = G /\ new.freeBySize = G
        /\ new.freeRanges = sp.freeRanges - Cardinality(right) - Cardinality(left) + 1
        /\ new = [totalPages  |-> new.totalPages,
                  freeRanges  |-> new.freeRanges,
                  freeByStart |-> new.freeByStart,
                  freeBySize  |-> new.freeBySize]
    <3>. HIDE DEF new
    <3>. QED BY <1>1, <2>1 DEF Space
  <2>. HIDE DEF new, K
  <2>8. new.freeRanges = Cardinality(G)
    BY <1>1, <2>3, <2>4, <2>5, <2>6, <2>7
  <2>9. new \in Space
    <3>1. G \subseteq Run
      BY <2>2 DEF Layout
    <3>2. new.freeRanges \in Int
      BY <2>7, <2>3, <1>1 DEF Space
    <3>. HIDE DEF G
    <3>. QED BY <3>1, <3>2, <2>7, <1>1 DEF Space
  <2>. HIDE DEF G
  <2>. QED BY <2>2, <2>6, <2>7, <2>8, <2>9 DEF Sound, new
<1>. QED BY <1>2, <1>3

-----------------------------------------------------------------------------
(* The specification *)

\* The inductive invariant: the space is sound for the runs in use, and every
\* blob is a run of its own within one segment.
IInv ==
  /\ Sound(space, InUse)
  /\ live \subseteq Run /\ staged \subseteq Run
  /\ committing \in BOOLEAN
  /\ live \cap staged = {}
  /\ MetaRun \notin live \cup staged
  /\ \A blob \in live \cup staged : InOneSegment(blob)

\* The metadata pages at the start of the store are a run of pages.
LEMMA MetaRunType == MetaRun \in Run /\ MetaRun.start = 0 /\ End(MetaRun) = MetaPages
  BY MetaPagesAssumption DEF MetaRun, Run, End

\* The store that holds its metadata only satisfies the invariant.
LEMMA InitInv == Init => IInv
<1>. SUFFICES ASSUME Init PROVE IInv
  OBVIOUS
<1>1. InUse = {MetaRun} /\ space = FreshSpace(MetaPages)
  BY DEF Init, InUse
<1>. DEFINE F == {}
<1>2. Layout({}, {MetaRun}, MetaPages)
  <2>1. Apart({MetaRun} \cup {})
    BY DEF Apart
  <2>2. Fills({MetaRun} \cup {}, MetaPages)
    <3>1. \A r \in {MetaRun} \cup {} : End(r) =< MetaPages
      BY MetaRunType, MetaPagesAssumption
    <3>2. \A p \in 0 .. MetaPages - 1 : Covered({MetaRun} \cup {}, p)
      BY MetaRunType, MetaPagesAssumption DEF Covered
    <3>. QED BY <3>1, <3>2 DEF Fills
  <2>3. Shape({}, MetaPages)
    BY DEF Shape
  <2>. QED BY <2>1, <2>2, <2>3, MetaRunType, MetaPagesAssumption DEF Layout
<1>3. Sound(space, InUse)
  <2>1. /\ space.totalPages = MetaPages /\ space.freeRanges = 0
        /\ space.freeByStart = {} /\ space.freeBySize = {}
        /\ space \in Space
    BY <1>1, MetaPagesAssumption DEF FreshSpace, Space
  <2>2. IsFiniteSet({}) /\ Cardinality({}) = 0
    BY FS_EmptySet
  <2>. QED BY <2>1, <2>2, <1>1, <1>2 DEF Sound
<1>. QED BY <1>3 DEF Init, IInv

\* Every operation keeps the invariant.
LEMMA NextInv == IInv /\ [Next]_vars => IInv'
<1>. SUFFICES ASSUME IInv, [Next]_vars
              PROVE  IInv'
  OBVIOUS
<1>. USE DEF IInv
<1>1. CASE UNCHANGED vars
  BY <1>1 DEF vars, InUse
<1>2. ASSUME NEW n \in BlobSizes, Alloc(n)
      PROVE  IInv'
  <2>. DEFINE alloc == AllocPages(space, n)
              blob  == [start |-> alloc.first, size |-> n]
  <2>1. /\ space' = alloc.space /\ live' = live \cup {blob}
        /\ staged' = staged /\ committing' = committing
    BY <1>2 DEF Alloc
  <2>2. n \in 1 .. SegmentPages
    BY BlobSizesAssumption
  <2>3. /\ Sound(alloc.space, InUse \cup {blob})
        /\ blob \in Run /\ blob \notin InUse
        /\ InOneSegment(blob)
    BY <2>2, AllocSound
  <2>. HIDE DEF alloc, blob
  <2>4. InUse' = InUse \cup {blob} /\ MetaRun' = MetaRun
    BY <2>1 DEF InUse, MetaRun
  <2>5. blob \notin live \cup staged /\ blob # MetaRun
    BY <2>3 DEF InUse
  <2>. QED BY <2>1, <2>3, <2>4, <2>5
<1>3. ASSUME NEW blob \in live, FreePages(blob)
      PROVE  IInv'
  <2>1. /\ space' = space /\ live' = live \ {blob} /\ committing' = committing
        /\ staged' = staged \cup {blob}
    BY <1>3 DEF FreePages
  <2>2. InUse' = InUse /\ MetaRun' = MetaRun
    BY <2>1 DEF InUse, MetaRun
  <2>. QED BY <2>1, <2>2
<1>4. CASE Commit
  BY <1>4 DEF Commit, InUse, MetaRun
<1>5. ASSUME NEW blob \in staged, CommitFree(blob)
      PROVE  IInv'
  <2>1. /\ space' = PerformFreePages(space, blob)
        /\ staged' = staged \ {blob} /\ live' = live /\ committing' = committing
    BY <1>5 DEF CommitFree
  <2>2. blob \in InUse /\ MetaRun \in InUse /\ MetaRun # blob /\ InOneSegment(blob)
    BY DEF InUse
  <2>3. Sound(PerformFreePages(space, blob), InUse \ {blob})
    BY <2>2, MetaRunType, FreeSound
  <2>4. InUse' = InUse \ {blob} /\ MetaRun' = MetaRun
    BY <2>1, <2>2 DEF InUse, MetaRun
  <2>. QED BY <2>1, <2>3, <2>4
<1>6. CASE CommitDone
  BY <1>6 DEF CommitDone, InUse, MetaRun
<1>. QED BY <1>1, <1>2, <1>3, <1>4, <1>5, <1>6 DEF Next

\* The layout of the pages is an invariant of every sequence of operations.
THEOREM Invariance == Spec => []IInv
  BY InitInv, NextInv, PTL DEF Spec

\* What the runs check follows from the invariant.
LEMMA InvImplies ==
  IInv => /\ TypeOK /\ NoOverlap /\ OneOwner /\ NoLeak
          /\ Coalesced /\ NothingFreeAtEnd /\ WithinSegments
<1>. SUFFICES ASSUME IInv
              PROVE  /\ TypeOK /\ NoOverlap /\ OneOwner /\ NoLeak
                     /\ Coalesced /\ NothingFreeAtEnd /\ WithinSegments
  OBVIOUS
<1>. DEFINE F == space.freeByStart
<1>1. Sound(space, InUse) /\ Layout(F, InUse, space.totalPages)
  BY DEF IInv, Sound
<1>2. TypeOK
  BY <1>1 DEF IInv, Sound, TypeOK
<1>3. NoOverlap /\ NoLeak
  BY <1>1 DEF Layout, Apart, Fills, NoOverlap, NoLeak, Runs
<1>4. OneOwner
  BY <1>1 DEF IInv, Layout, OneOwner
<1>5. Coalesced /\ NothingFreeAtEnd
  BY <1>1 DEF Layout, Shape, Coalesced, NothingFreeAtEnd
<1>6. WithinSegments
  <2>1. \A r \in F : InOneSegment(r)
    BY <1>1 DEF Layout, Shape
  <2>. QED BY <2>1 DEF IInv, WithinSegments, Runs, InUse
<1>. QED BY <1>2, <1>3, <1>4, <1>5, <1>6

\* The trees, the header's count and the variables keep their types and agree.
THEOREM TypeCorrect == Spec => []TypeOK
  BY Invariance, InvImplies, PTL

\* No blob is ever given pages that another blob, the metadata or a free run
\* has, whatever is allocated, handed back and committed in whatever order.
THEOREM NeverOverlapping == Spec => []NoOverlap
  BY Invariance, InvImplies, PTL

\* A run is in use, staged or free, never two of them.
THEOREM AlwaysOneOwner == Spec => []OneOwner
  BY Invariance, InvImplies, PTL

\* Every page of the file is accounted for.
THEOREM NoPageLost == Spec => []NoLeak
  BY Invariance, InvImplies, PTL

\* Freeing merges neighbours in every order, and the assertion of allocPages
\* on the end of a free run (FreeStore_Transaction.cpp:123) holds.
THEOREM FreeSpaceShape == Spec => [](Coalesced /\ NothingFreeAtEnd)
  BY Invariance, InvImplies, PTL

\* No blob and no free run crosses the start of a segment.
THEOREM AlwaysWithinSegments == Spec => []WithinSegments
  BY Invariance, InvImplies, PTL

\* All of these at once: the pages of a store have one owner each and none is
\* lost, however long the store is used and whatever the sizes of its blobs.
THEOREM SpaceAlwaysKept == Spec => []SpaceKept
<1>1. IInv => SpaceKept
  BY InvImplies DEF SpaceKept
<1>. QED BY <1>1, Invariance, PTL

\* The allocator implements PageAllocator: an allocation takes a run of unused
\* pages in one segment, a turn of the commit loop releases one run, and the
\* other steps change nothing the caller of the allocator can rely on.
LEMMA StepImplements == IInv /\ [Next]_vars => [PageAllocator!Next]_InUse
<1>. SUFFICES ASSUME IInv, [Next]_vars
              PROVE  PageAllocator!Next \/ InUse' = InUse
  OBVIOUS
<1>1. CASE UNCHANGED vars
  BY <1>1 DEF vars, InUse, MetaRun
<1>2. ASSUME NEW n \in BlobSizes, Alloc(n)
      PROVE  PageAllocator!Allocate(n)
  <2>. DEFINE alloc == AllocPages(space, n)
              blob  == [start |-> alloc.first, size |-> n]
  <2>1. live' = live \cup {blob} /\ staged' = staged /\ End(blob) =< MaxPages
    BY <1>2 DEF Alloc
  <2>2. n \in 1 .. SegmentPages /\ n \in Nat
    BY BlobSizesAssumption, SegmentPagesAssumption
  <2>3. /\ blob \in Run /\ InOneSegment(blob)
        /\ \A r \in InUse : ~ Overlap(r, blob)
    BY <2>2, AllocSound DEF IInv
  <2>4. InUse' = InUse \cup {blob}
    BY <2>1 DEF InUse, MetaRun
  <2>. HIDE DEF alloc
  <2>5. alloc.first \in 0 .. MaxPages
    <3>1. alloc.first \in Nat /\ alloc.first + n =< MaxPages
      BY <2>1, <2>3 DEF Run, End
    <3>. QED BY <3>1, <2>2, MaxPagesAssumption
  <2>6. /\ PageAllocator!End(blob) = End(blob)
        /\ PageAllocator!InOneSegment(blob) <=> InOneSegment(blob)
        /\ \A r : PageAllocator!Overlap(r, blob) <=> Overlap(r, blob)
    BY DEF PageAllocator!End, PageAllocator!InOneSegment, PageAllocator!Overlap,
           PageAllocator!isFirstPageOfSegment,
           End, InOneSegment, Overlap, isFirstPageOfSegment
  <2>. QED BY <2>1, <2>3, <2>4, <2>5, <2>6 DEF PageAllocator!Allocate
<1>3. ASSUME NEW blob \in live, FreePages(blob)
      PROVE  InUse' = InUse
  BY <1>3 DEF FreePages, InUse, MetaRun
<1>4. CASE Commit
  BY <1>4 DEF Commit, InUse, MetaRun
<1>5. ASSUME NEW blob \in staged, CommitFree(blob)
      PROVE  blob \in InUse /\ PageAllocator!Release(blob)
  <2>1. staged' = staged \ {blob} /\ live' = live
    BY <1>5 DEF CommitFree
  <2>2. MetaRun # blob /\ blob \notin live
    BY DEF IInv
  <2>3. InUse' = InUse \ {blob}
    BY <2>1, <2>2 DEF InUse, MetaRun
  <2>. QED BY <2>2, <2>3 DEF PageAllocator!Release, PageAllocator!MetaRun, MetaRun, InUse
<1>6. CASE CommitDone
  BY <1>6 DEF CommitDone, InUse, MetaRun
<1>. QED BY <1>1, <1>2, <1>3, <1>4, <1>5, <1>6 DEF Next, PageAllocator!Next

\* The trees, the trimming and the coalescing implement the abstract allocator.
THEOREM Refinement == Spec => ImplementsPageAllocator
<1>1. Init => PageAllocator!Init
  BY DEF Init, InUse, PageAllocator!Init, PageAllocator!MetaRun, MetaRun
<1>. QED BY <1>1, Invariance, StepImplements, PTL
         DEF Spec, PageAllocator!Spec, ImplementsPageAllocator
=============================================================================
