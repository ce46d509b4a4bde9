------------------------- MODULE AddressSpaceProofs --------------------------
(***************************************************************************)
(* The lookup is exact and what is stored is read back, for any pages a    *)
(* loader may map, any size of address space and any bytes.                *)
(*                                                                         *)
(* The theorems are about LoaderSpec: the page mmap adds may overlap       *)
(* another, which the run of MmapIsAvailable shows.                        *)
(***************************************************************************)
EXTENDS AddressSpace, BasicFacts, TLAPS

-----------------------------------------------------------------------------
(* Lookup                                                                  *)

(* The page before upper_bound is the page with the greatest base that is  *)
(* not above the address.                                                  *)
LEMMA PageBelowIsGreatest ==
    ASSUME NEW p, IsMap(p), NEW x \in Nat, BasesUpTo(p, x) # {}
    PROVE  /\ PageBelow(p, x) \in DOMAIN p /\ PageBelow(p, x) \in Nat /\ PageBelow(p, x) <= x
           /\ \A b \in DOMAIN p : b <= x => b <= PageBelow(p, x)
<1> DEFINE S == BasesUpTo(p, x)
<1>1. S \in SUBSET Nat /\ S # {} /\ \A b \in S : b <= x
  BY DEF BasesUpTo, IsMap
<1> HIDE DEF S
<1>2. \E b \in S : \A c \in S : c <= b
  BY <1>1, GreatestNumber
<1>3. \E b \in S : \A c \in S : b >= c
  BY <1>1, <1>2
<1>4. Max(S) \in S /\ \A c \in S : Max(S) >= c
  BY <1>3 DEF Max
<1>5. PageBelow(p, x) = Max(S)
  BY DEF PageBelow, S
<1>6. \A b : b \in S <=> b \in DOMAIN p /\ b <= x
  BY DEF S, BasesUpTo
<1> QED
  BY <1>1, <1>4, <1>5, <1>6

(* A page that holds the address is the one the lookup finds.              *)
LEMMA PageBelowHolds ==
    ASSUME NEW p, IsMap(p), NEW x \in Nat, NEW b \in DOMAIN p, b <= x, x < b + Len(p[b])
    PROVE  BasesUpTo(p, x) # {} /\ PageBelow(p, x) = b
<1>1. BasesUpTo(p, x) # {}
  BY DEF BasesUpTo
<1> DEFINE m == PageBelow(p, x)
<1>2. m \in DOMAIN p /\ m \in Nat /\ m <= x /\ b <= m
  BY <1>1, PageBelowIsGreatest
<1> HIDE DEF m
<1>3. b \in Nat /\ Len(p[b]) \in Nat /\ (b < m => b + Len(p[b]) <= m)
  BY <1>2 DEF IsMap
<1>4. m = b
  BY <1>2, <1>3
<1> QED
  BY <1>1, <1>4 DEF m

(* An access that a page holds is let through.                             *)
LEMMA ReachedInPage ==
    ASSUME NEW p, IsMap(p), NEW x \in Nat, NEW n \in Nat \ {0}, NEW b \in DOMAIN p,
           b <= x, x + n <= b + Len(p[b])
    PROVE  Reached(p, x, n) /\ x + n < Space
<1>1. b \in Nat /\ Len(p[b]) \in Nat /\ b + Len(p[b]) < Space /\ Space \in Nat \ {0}
  BY AddressSpaceAssumption DEF IsMap
<1>2. x < b + Len(p[b]) /\ x + n < Space /\ x + n \in Nat
  BY <1>1
<1>3. BasesUpTo(p, x) # {} /\ PageBelow(p, x) = b
  BY <1>2, PageBelowHolds
<1>4. (x + n) % Space = x + n
  <2>1. \A k \in 0 .. Space - 1 : k % Space = k
    BY <1>1
  <2> QED
    BY <1>1, <1>2, <2>1
<1>5. Found(p, x, n)
  BY <1>3, <1>4 DEF Found
<1>6. x - b + n <= Len(p[b])
  BY <1>1
<1> QED
  BY <1>2, <1>3, <1>5, <1>6 DEF Reached

(* What an access that goes on says.                                       *)
LEMMA FoundPage ==
    ASSUME NEW p, IsMap(p), NEW x \in Nat, NEW n \in Nat \ {0}, Reached(p, x, n)
    PROVE  /\ PageBelow(p, x) \in DOMAIN p /\ PageBelow(p, x) \in Nat /\ PageBelow(p, x) <= x
           /\ Len(p[PageBelow(p, x)]) \in Nat
           /\ x + n <= PageBelow(p, x) + Len(p[PageBelow(p, x)])
           /\ \A k \in 0 .. n - 1 : PageBelow(p, x + k) = PageBelow(p, x) /\ Reached(p, x + k, 1)
<1> DEFINE m == PageBelow(p, x)
<1>1. /\ m \in DOMAIN p /\ m \in Nat /\ m <= x
      /\ m + Len(p[m]) >= x + n
  <2>1. m \in DOMAIN p /\ m \in Nat /\ m <= x
    BY PageBelowIsGreatest DEF Reached, Found
  <2>2. x - m + n <= Len(p[m]) /\ Len(p[m]) \in Nat
    BY <2>1 DEF Reached, IsMap
  <2> HIDE DEF m
  <2> QED
    BY <2>1, <2>2
<1>2. Len(p[m]) \in Nat
  BY <1>1 DEF IsMap
<1> HIDE DEF m
<1>3. ASSUME NEW k \in 0 .. n - 1
      PROVE  PageBelow(p, x + k) = m /\ Reached(p, x + k, 1)
  <2>1. x + k \in Nat /\ m <= x + k /\ x + k < m + Len(p[m])
    BY <1>1, <1>2
  <2>2. BasesUpTo(p, x + k) # {} /\ PageBelow(p, x + k) = m
    BY <1>1, <2>1, PageBelowHolds
  <2>3. m + Len(p[m]) >= x + k + 1
    BY <1>1, <1>2
  <2>4. Reached(p, x + k, 1)
    BY <1>1, <2>1, <2>2, <2>3, ReachedInPage
  <2> QED
    BY <2>2, <2>4
<1> QED
  BY <1>1, <1>2, <1>3 DEF m

(* Below the last address, the lookup lets through what is in a page.      *)
LEMMA FoundIsReached ==
    ASSUME NEW p, IsMap(p), NEW x \in Nat, NEW n \in Nat \ {0}, x + n < Space
    PROVE  Found(p, x, n) <=> Reached(p, x, n)
<1> SUFFICES ASSUME Found(p, x, n) PROVE Reached(p, x, n)
  BY DEF Reached
<1> DEFINE m == PageBelow(p, x)
<1>1. m \in DOMAIN p /\ m \in Nat /\ m <= x
  BY PageBelowIsGreatest DEF Found
<1>2. Len(p[m]) \in Nat
  BY <1>1 DEF IsMap
<1>3. (x + n) % Space = x + n
  <2>1. \A k \in 0 .. Space - 1 : k % Space = k
    BY AddressSpaceAssumption
  <2>2. x + n \in 0 .. Space - 1
    BY AddressSpaceAssumption
  <2> QED
    BY <2>1, <2>2
<1>4. m + Len(p[m]) >= x + n
  BY <1>3 DEF Found
<1> HIDE DEF m
<1>5. x - m + n <= Len(p[m])
  BY <1>1, <1>2, <1>4
<1> QED
  BY <1>5 DEF Reached, m

(* An access goes on when one page holds all of it, and only then.         *)
LEMMA MapLookupIsExact ==
    ASSUME NEW p, IsMap(p), NEW x \in Nat, NEW n \in Nat \ {0}
    PROVE  Reached(p, x, n) <=> \E b \in DOMAIN p : b <= x /\ x + n <= b + Len(p[b])
<1>1. ASSUME Reached(p, x, n)
      PROVE  \E b \in DOMAIN p : b <= x /\ x + n <= b + Len(p[b])
  BY <1>1, FoundPage
<1>2. ASSUME NEW b \in DOMAIN p, b <= x, x + n <= b + Len(p[b])
      PROVE  Reached(p, x, n)
  BY <1>2, ReachedInPage
<1> QED
  BY <1>1, <1>2
-----------------------------------------------------------------------------
(* Stores                                                                  *)

(* q has the pages of p, with other bytes in them.                         *)
SameShape(p, q) ==
    /\ IsMap(q) /\ DOMAIN q = DOMAIN p
    /\ \A b \in DOMAIN p : Len(q[b]) = Len(p[b])

LEMMA SameLookup ==
    ASSUME NEW p, NEW q, SameShape(p, q), NEW x
    PROVE  /\ PageBelow(q, x) = PageBelow(p, x) /\ BasesUpTo(q, x) = BasesUpTo(p, x)
BY DEF SameShape, PageBelow, BasesUpTo

LEMMA SameReached ==
    ASSUME NEW p, NEW q, IsMap(p), SameShape(p, q), NEW x \in Nat, NEW n
    PROVE  Reached(q, x, n) <=> Reached(p, x, n)
<1>1. PageBelow(q, x) = PageBelow(p, x) /\ BasesUpTo(q, x) = BasesUpTo(p, x)
  BY SameLookup
<1>2. BasesUpTo(p, x) # {} => PageBelow(p, x) \in DOMAIN p
  BY PageBelowIsGreatest
<1> QED
  BY <1>1, <1>2 DEF Reached, Found, SameShape

(* A page with a byte replaced.                                            *)
LEMMA PutByte ==
    ASSUME NEW p, IsMap(p), NEW m \in DOMAIN p, NEW j \in 1 .. Len(p[m]), NEW v \in Bytes
    PROVE  /\ SameShape(p, [p EXCEPT ![m][j] = v])
           /\ \A b \in DOMAIN p : \A k \in 1 .. Len(p[b]) :
                  [p EXCEPT ![m][j] = v][b][k] = IF b = m /\ k = j THEN v ELSE p[b][k]
<1> DEFINE s == [p[m] EXCEPT ![j] = v]
           q == [p EXCEPT ![m] = s]
<1>1. p[m] \in Seq(Bytes)
  BY DEF IsMap
<1>2. /\ s \in Seq(Bytes) /\ Len(s) = Len(p[m])
      /\ \A k \in 1 .. Len(p[m]) : s[k] = IF k = j THEN v ELSE p[m][k]
  BY <1>1
<1> HIDE DEF s
<1>3. p = [b \in DOMAIN p |-> p[b]]
  BY DEF IsMap
<1>4. /\ q = [b \in DOMAIN p |-> IF b = m THEN s ELSE p[b]]
      /\ DOMAIN q = DOMAIN p
      /\ \A b \in DOMAIN p : q[b] = IF b = m THEN s ELSE p[b]
  BY <1>3
<1> HIDE DEF q
<1>5. q = [b \in DOMAIN q |-> q[b]]
  BY <1>4
<1>6. \A b \in DOMAIN p : Len(q[b]) = Len(p[b])
  BY <1>2, <1>4
<1>7. \A b \in DOMAIN p : q[b] \in Seq(Bytes)
  BY <1>2, <1>4 DEF IsMap
<1>8. SameShape(p, q)
  BY <1>4, <1>5, <1>6, <1>7 DEF SameShape, IsMap
<1>9. \A b \in DOMAIN p : \A k \in 1 .. Len(p[b]) :
          q[b][k] = IF b = m /\ k = j THEN v ELSE p[b][k]
  BY <1>2, <1>4
<1> QED
  BY <1>8, <1>9 DEF q, s

LEMMA SameShapeTransitive ==
    ASSUME NEW p, NEW q, NEW r, SameShape(p, q), SameShape(q, r)
    PROVE  SameShape(p, r)
BY DEF SameShape

(* s_byte: the byte is read back and every other byte is as it was.        *)
LEMMA StoredByte ==
    ASSUME NEW p, IsMap(p), NEW x \in Nat, NEW v \in Bytes, Reached(p, x, 1)
    PROVE  /\ SameShape(p, s_byte(p, x, v))
           /\ g_byte(s_byte(p, x, v), x) = v
           /\ \A y \in Nat : Reached(p, y, 1) /\ y # x =>
                  g_byte(s_byte(p, x, v), y) = g_byte(p, y)
<1> DEFINE m == PageBelow(p, x)
           j == x - m + 1
           q == [p EXCEPT ![m][j] = v]
<1>1. /\ m \in DOMAIN p /\ m \in Nat /\ m <= x /\ Len(p[m]) \in Nat /\ x + 1 <= m + Len(p[m])
  BY FoundPage
<1>2. j \in 1 .. Len(p[m])
  BY <1>1
<1>3. s_byte(p, x, v) = q
  BY DEF s_byte
<1>4. /\ SameShape(p, q)
      /\ \A b \in DOMAIN p : \A k \in 1 .. Len(p[b]) :
             q[b][k] = IF b = m /\ k = j THEN v ELSE p[b][k]
  BY <1>1, <1>2, PutByte
<1> HIDE DEF q
<1>5. \A y : PageBelow(q, y) = PageBelow(p, y)
  BY <1>4, SameLookup
<1>6. g_byte(q, x) = v
  BY <1>1, <1>2, <1>4, <1>5 DEF g_byte
<1>7. ASSUME NEW y \in Nat, Reached(p, y, 1), y # x
      PROVE  g_byte(q, y) = g_byte(p, y)
  <2> DEFINE b == PageBelow(p, y)
             k == y - b + 1
  <2>1. /\ b \in DOMAIN p /\ b \in Nat /\ b <= y /\ Len(p[b]) \in Nat /\ y + 1 <= b + Len(p[b])
    BY <1>7, FoundPage
  <2>2. k \in 1 .. Len(p[b])
    BY <2>1
  <2>3. b = m => k # j
    BY <1>1, <1>7, <2>1
  <2>4. q[b][k] = p[b][k]
    <3> HIDE DEF b, k, m, j
    <3> QED
      BY <1>4, <2>1, <2>2, <2>3
  <2> QED
    BY <1>5, <2>4 DEF g_byte
<1> QED
  BY <1>3, <1>4, <1>6, <1>7

(* s_word puts two bytes into the page of the first.                       *)
LEMMA StoredWord ==
    ASSUME NEW p, IsMap(p), NEW x \in Nat, NEW lo \in Bytes, NEW hi \in Bytes, Reached(p, x, 2)
    PROVE  /\ SameShape(p, s_word(p, x, lo, hi))
           /\ g_sym(s_word(p, x, lo, hi), x, 2) = <<lo, hi>>
<1> DEFINE m == PageBelow(p, x)
           j == x - m + 1
           q == [p EXCEPT ![m][j] = lo]
           r == [q EXCEPT ![m][x - m + 2] = hi]
<1>1. /\ m \in DOMAIN p /\ m \in Nat /\ m <= x /\ Len(p[m]) \in Nat /\ x + 2 <= m + Len(p[m])
      /\ \A k \in 0 .. 1 : PageBelow(p, x + k) = m
  BY FoundPage
<1>2. j \in 1 .. Len(p[m]) /\ j + 1 \in 1 .. Len(p[m]) /\ x - m + 2 = j + 1 /\ j # j + 1
  BY <1>1
<1>3. s_word(p, x, lo, hi) = r
  BY DEF s_word
<1>4. /\ SameShape(p, q)
      /\ \A b \in DOMAIN p : \A k \in 1 .. Len(p[b]) :
             q[b][k] = IF b = m /\ k = j THEN lo ELSE p[b][k]
  <2>1. m \in DOMAIN p /\ j \in 1 .. Len(p[m])
    BY <1>1, <1>2
  <2> HIDE DEF m, j
  <2> QED
    BY <2>1, PutByte
<1> HIDE DEF q
<1>5. IsMap(q) /\ m \in DOMAIN q /\ Len(q[m]) = Len(p[m])
  BY <1>1, <1>4 DEF SameShape
<1>6. /\ SameShape(q, r)
      /\ \A b \in DOMAIN q : \A k \in 1 .. Len(q[b]) :
             r[b][k] = IF b = m /\ k = j + 1 THEN hi ELSE q[b][k]
  BY <1>2, <1>5, PutByte
<1> HIDE DEF r
<1>7. SameShape(p, r)
  BY <1>4, <1>6, SameShapeTransitive
<1>8. r[m][j] = lo /\ r[m][j + 1] = hi
  <2> HIDE DEF m, j
  <2> QED
    BY <1>1, <1>2, <1>4, <1>5, <1>6
<1>9. PageBelow(r, x) = m /\ PageBelow(r, x + 1) = m
  BY <1>1, <1>7, SameLookup
<1>10. g_byte(r, x) = lo /\ g_byte(r, x + 1) = hi
  <2>1. (x + 1) - m + 1 = j + 1
    BY <1>1
  <2> QED
    BY <1>8, <1>9, <2>1 DEF g_byte
<1>11. g_sym(r, x, 2) = <<lo, hi>>
  BY <1>10 DEF g_sym
<1> QED
  BY <1>3, <1>7, <1>11

(* s_sym32 puts four bytes, each into the page of its address.             *)
LEMMA StoredLong ==
    ASSUME NEW p, IsMap(p), NEW x \in Nat, NEW v \in [1 .. 4 -> Bytes], SymReached(p, x, 4)
    PROVE  /\ SameShape(p, s_sym32(p, x, v))
           /\ \A k \in 1 .. 4 : g_byte(s_sym32(p, x, v), x + k - 1) = v[k]
<1> DEFINE p3 == s_byte(p, x + 3, v[4])
           p2 == s_byte(p3, x + 2, v[3])
           p1 == s_byte(p2, x + 1, v[2])
           p0 == s_byte(p1, x, v[1])
<1>1. /\ Reached(p, x, 1) /\ Reached(p, x + 1, 1) /\ Reached(p, x + 2, 1) /\ Reached(p, x + 3, 1)
      /\ x + 1 \in Nat /\ x + 2 \in Nat /\ x + 3 \in Nat
      /\ v[1] \in Bytes /\ v[2] \in Bytes /\ v[3] \in Bytes /\ v[4] \in Bytes
  <2>1. \A k \in 0 .. 3 : Reached(p, x + k, 1)
    BY DEF SymReached
  <2>2. x + 0 = x
    OBVIOUS
  <2> QED
    BY <2>1, <2>2
<1>2. s_sym32(p, x, v) = p0
  BY DEF s_sym32
<1>3. SameShape(p, p3) /\ g_byte(p3, x + 3) = v[4]
  BY <1>1, StoredByte
<1> HIDE DEF p3
<1>4. IsMap(p3)
  BY <1>3 DEF SameShape
<1>5. Reached(p3, x, 1) /\ Reached(p3, x + 1, 1) /\ Reached(p3, x + 2, 1) /\ Reached(p3, x + 3, 1)
  BY <1>1, <1>3, SameReached
<1>6. SameShape(p3, p2) /\ g_byte(p2, x + 2) = v[3] /\ g_byte(p2, x + 3) = v[4]
  BY <1>1, <1>3, <1>4, <1>5, StoredByte
<1> HIDE DEF p2
<1>7. IsMap(p2)
  BY <1>6 DEF SameShape
<1>8. Reached(p2, x, 1) /\ Reached(p2, x + 1, 1) /\ Reached(p2, x + 2, 1) /\ Reached(p2, x + 3, 1)
  BY <1>1, <1>4, <1>5, <1>6, SameReached
<1>9. SameShape(p2, p1) /\ g_byte(p1, x + 1) = v[2] /\ g_byte(p1, x + 2) = v[3]
      /\ g_byte(p1, x + 3) = v[4]
  BY <1>1, <1>6, <1>7, <1>8, StoredByte
<1> HIDE DEF p1
<1>10. IsMap(p1)
  BY <1>9 DEF SameShape
<1>11. Reached(p1, x, 1) /\ Reached(p1, x + 1, 1) /\ Reached(p1, x + 2, 1) /\ Reached(p1, x + 3, 1)
  BY <1>1, <1>7, <1>8, <1>9, SameReached
<1>12. SameShape(p1, p0) /\ g_byte(p0, x) = v[1] /\ g_byte(p0, x + 1) = v[2]
       /\ g_byte(p0, x + 2) = v[3] /\ g_byte(p0, x + 3) = v[4]
  BY <1>1, <1>9, <1>10, <1>11, StoredByte
<1> HIDE DEF p0
<1>13. SameShape(p, p0)
  BY <1>3, <1>6, <1>9, <1>12, SameShapeTransitive
<1>14. ASSUME NEW k \in 1 .. 4 PROVE g_byte(p0, x + k - 1) = v[k]
  <2>1. k = 1 \/ k = 2 \/ k = 3 \/ k = 4
    OBVIOUS
  <2>2. x + 1 - 1 = x /\ x + 2 - 1 = x + 1 /\ x + 3 - 1 = x + 2 /\ x + 4 - 1 = x + 3
    OBVIOUS
  <2> QED
    BY <1>12, <2>1, <2>2
<1> QED
  BY <1>2, <1>13, <1>14

(* g_qword reads the same bytes in either of its two ways.                 *)
LEMMA QwordIsBytes ==
    ASSUME NEW p, IsMap(p), NEW x \in Nat
    PROVE  g_qword(p, x) = [k \in 1 .. 4 |-> g_byte(p, x + k - 1)]
<1>1. CASE Reached(p, x, 4)
  <2> DEFINE m == PageBelow(p, x)
  <2>1. \A k \in 0 .. 3 : PageBelow(p, x + k) = m
    <3>1. \A n \in Nat \ {0} : Reached(p, x, n) =>
              \A k \in 0 .. n - 1 : PageBelow(p, x + k) = m
      BY FoundPage
    <3>2. 4 \in Nat \ {0} /\ \A k \in 0 .. 3 : k \in 0 .. 4 - 1
      OBVIOUS
    <3> QED
      BY <1>1, <3>1, <3>2
  <2>2. m \in Nat
    BY <1>1, FoundPage
  <2> HIDE DEF m
  <2>3. ASSUME NEW k \in 1 .. 4 PROVE g_byte(p, x + k - 1) = p[m][x - m + k]
    <3>1. k - 1 \in 0 .. 3 /\ x + (k - 1) = x + k - 1
      OBVIOUS
    <3>2. PageBelow(p, x + k - 1) = m
      BY <2>1, <3>1
    <3>3. (x + k - 1) - m + 1 = x - m + k
      BY <2>2
    <3> QED
      BY <3>2, <3>3 DEF g_byte
  <2>4. g_qword(p, x) = [k \in 1 .. 4 |-> p[m][x - m + k]]
    BY <1>1 DEF g_qword, m
  <2> QED
    BY <2>3, <2>4
<1>2. CASE ~ Reached(p, x, 4)
  BY <1>2 DEF g_qword, g_sym
<1> QED
  BY <1>1, <1>2
-----------------------------------------------------------------------------
(* The invariant                                                           *)

LEMMA InitIInv == Init => IInv
BY AddressSpaceAssumption DEF Init, IInv, IsMap

(* A page that is disjoint from those there keeps the map one.             *)
LEMMA LoaderPageKeepsMap ==
    ASSUME NEW p, IsMap(p), NEW b \in Nat, NEW n \in Nat, Disjoint(p, b, n),
           b + n < Space
    PROVE  IsMap(SetPage(p, b, n))
<1> DEFINE q == SetPage(p, b, n)
<1>1. /\ q = [c \in DOMAIN p \cup {b} |-> IF c = b THEN Zeros(n) ELSE p[c]]
  BY DEF SetPage
<1>2. /\ DOMAIN q = DOMAIN p \cup {b} /\ q[b] = Zeros(n)
      /\ \A c \in DOMAIN p : c # b => q[c] = p[c]
  BY <1>1
<1>3. q = [c \in DOMAIN q |-> q[c]]
  BY <1>1
<1> HIDE DEF q
<1>4. Zeros(n) \in Seq(Bytes) /\ Len(Zeros(n)) = n
  BY AddressSpaceAssumption DEF Zeros
<1>5. /\ DOMAIN p \subseteq Nat
      /\ \A c \in DOMAIN p : p[c] \in Seq(Bytes) /\ Len(p[c]) \in Nat /\ c + Len(p[c]) < Space
      /\ \A c, d \in DOMAIN p : c < d => c + Len(p[c]) <= d
  BY DEF IsMap
<1>6. \A c \in DOMAIN q : q[c] \in Seq(Bytes) /\ c + Len(q[c]) < Space
  BY <1>2, <1>4, <1>5
<1>7. \A c \in DOMAIN p : b + n <= c \/ c + Len(p[c]) <= b
  BY DEF Disjoint
<1>8. ASSUME NEW c \in DOMAIN q, NEW d \in DOMAIN q, c < d
      PROVE  c + Len(q[c]) <= d
  <2>1. CASE c = b
    BY <1>2, <1>4, <1>5, <1>7, <1>8, <2>1
  <2>2. CASE c # b /\ d = b
    BY <1>2, <1>5, <1>7, <1>8, <2>2
  <2>3. CASE c # b /\ d # b
    BY <1>2, <1>5, <1>8, <2>3
  <2> QED
    BY <2>1, <2>2, <2>3
<1>9. DOMAIN q \subseteq Nat
  BY <1>2, <1>5
<1> QED
  BY <1>3, <1>6, <1>8, <1>9 DEF IsMap, q

LEMMA NextIInv == IInv /\ [LoaderNext]_vars => IInv'
<1> SUFFICES ASSUME IInv, [LoaderNext]_vars PROVE IInv'
  OBVIOUS
<1>1. IsMap(pages) /\ next_mmap \in Nat /\ Addresses \subseteq Nat
  BY AddressSpaceAssumption DEF IInv, Addresses
<1>2. ASSUME NEW x \in Addresses, NEW v \in Bytes, StoreByte(x, v) PROVE IInv'
  <2>1. SameShape(pages, s_byte(pages, x, v))
    BY <1>1, <1>2, StoredByte DEF StoreByte
  <2> QED
    BY <1>1, <1>2, <2>1 DEF StoreByte, SameShape, IInv
<1>3. ASSUME NEW x \in Addresses, NEW lo \in Bytes, NEW hi \in Bytes, StoreWord(x, lo, hi)
      PROVE  IInv'
  <2>1. SameShape(pages, s_word(pages, x, lo, hi))
    BY <1>1, <1>3, StoredWord DEF StoreWord
  <2> QED
    BY <1>1, <1>3, <2>1 DEF StoreWord, SameShape, IInv
<1>4. ASSUME NEW x \in Addresses, NEW v \in [1 .. 4 -> Bytes], StoreLong(x, v) PROVE IInv'
  <2>1. SameShape(pages, s_sym32(pages, x, v))
    BY <1>1, <1>4, StoredLong DEF StoreLong
  <2> QED
    BY <1>1, <1>4, <2>1 DEF StoreLong, SameShape, IInv
<1>5. ASSUME NEW p \in LoaderPages, LoaderPage(p.base, p.size) PROVE IInv'
  <2>1. p.base \in Nat /\ p.size \in Nat /\ p.base + p.size < Space
    BY AddressSpaceAssumption
  <2>2. IsMap(SetPage(pages, p.base, p.size))
    BY <1>1, <1>5, <2>1, LoaderPageKeepsMap DEF LoaderPage
  <2> QED
    BY <1>1, <1>5, <2>2 DEF LoaderPage, IInv
<1>6. CASE UNCHANGED vars
  BY <1>1, <1>6 DEF vars, IInv
<1> QED
  BY <1>2, <1>3, <1>4, <1>5, <1>6 DEF LoaderNext, Store

(* IInv is an inductive invariant of an address space without mmap.        *)
THEOREM InductiveInvariant == LoaderSpec => []IInv
BY InitIInv, NextIInv, PTL DEF LoaderSpec

(* The lookup finds a page for an access if and only if a page holds all   *)
(* of it (memory.cc:65).                                                   *)
THEOREM LookupFindsThePage == LoaderSpec => []LookupIsExact
<1>1. IInv => LookupIsExact
  <2> DEFINE held(x, n) == \E b \in DOMAIN pages : b <= x /\ x + n <= b + Len(pages[b])
  <2> SUFFICES ASSUME IInv, NEW x \in Addresses, NEW n \in 1 .. 4
               PROVE  /\ x + n < Space => (Found(pages, x, n) <=> held(x, n))
                      /\ Reached(pages, x, n) <=> held(x, n)
    BY DEF LookupIsExact
  <2>1. IsMap(pages) /\ x \in Nat /\ n \in Nat \ {0}
    BY AddressSpaceAssumption DEF IInv, Addresses
  <2>2. Reached(pages, x, n) <=> held(x, n)
    BY <2>1, MapLookupIsExact
  <2>3. x + n < Space => (Found(pages, x, n) <=> Reached(pages, x, n))
    BY <2>1, FoundIsReached
  <2> QED
    BY <2>2, <2>3
<1> QED
  BY <1>1, InductiveInvariant, PTL

(* The 16 bits stored into one page (memory.cc:225) are what a read byte   *)
(* by byte finds (memory.cc:126).                                          *)
THEOREM WordsAreReadBack == LoaderSpec => []WordReadsBack
<1>1. IInv => WordReadsBack
  <2> SUFFICES ASSUME IInv, NEW x \in Addresses, NEW lo \in Bytes, NEW hi \in Bytes,
                      Reached(pages, x, 2)
               PROVE  g_sym(s_word(pages, x, lo, hi), x, 2) = <<lo, hi>>
    BY DEF WordReadsBack
  <2>1. IsMap(pages) /\ x \in Nat
    BY AddressSpaceAssumption DEF IInv, Addresses
  <2> QED
    BY <2>1, StoredWord
<1> QED
  BY <1>1, InductiveInvariant, PTL

(* The 32 bits stored byte by byte (memory.cc:162) are what g_qword reads, *)
(* from one page or from two (memory.cc:201).                              *)
THEOREM LongsAreReadBack == LoaderSpec => []LongReadsBack
<1>1. IInv => LongReadsBack
  <2> SUFFICES ASSUME IInv, NEW x \in Addresses, NEW v \in [1 .. 4 -> Bytes],
                      SymReached(pages, x, 4)
               PROVE  g_qword(s_sym32(pages, x, v), x) = v
    BY DEF LongReadsBack
  <2>1. IsMap(pages) /\ x \in Nat
    BY AddressSpaceAssumption DEF IInv, Addresses
  <2> DEFINE q == s_sym32(pages, x, v)
  <2>2. SameShape(pages, q) /\ \A k \in 1 .. 4 : g_byte(q, x + k - 1) = v[k]
    BY <2>1, StoredLong
  <2> HIDE DEF q
  <2>3. g_qword(q, x) = [k \in 1 .. 4 |-> g_byte(q, x + k - 1)]
    BY <2>1, <2>2, QwordIsBytes DEF SameShape
  <2>4. g_qword(q, x) = v
    BY <2>2, <2>3
  <2> QED
    BY <2>4 DEF q
<1> QED
  BY <1>1, InductiveInvariant, PTL
=============================================================================
