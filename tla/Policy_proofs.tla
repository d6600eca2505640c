--------------------------- MODULE Policy_proofs ---------------------------
(***************************************************************************)
(* Proofs about what the gateway lets through: the query that jql_scope    *)
(* makes of a query (RequestPolicy), the tables that the walk of a         *)
(* statement finds (PgScope), and what allow_fields leave of a response    *)
(* (ResponseShape).                                                        *)
(*                                                                         *)
(* They walk along data: the scan along a query, the walk along the levels *)
(* of a statement, the shaping along the nesting of a value and along the  *)
(* fields.  Their functions are defined by recursion, and that they fit    *)
(* their defining equations is proved first; what they say is proved by    *)
(* induction for a set of positions (Induction).                           *)
(***************************************************************************)
EXTENDS RequestPolicy, PgScope, ResponseShape, SequenceTheorems, WellFoundedInduction, TLAPS

\* Induction along the positions 0..N, for a set of them.
LEMMA Induction ==
    ASSUME NEW N \in Nat, NEW S, 0 \in S,
           \A n \in 0..N : n < N /\ n \in S => n + 1 \in S
    PROVE  \A n \in 0..N : n \in S
<1> DEFINE T == (0..N) \ S
           R == OpToRel(<, Nat)
<1> SUFFICES ASSUME T # {} PROVE FALSE
  OBVIOUS
<1>0. \A k, m \in Nat : k < m => <<k, m>> \in R
  BY DEF OpToRel
<1>1. IsWellFoundedOn(R, Nat)
  BY NatLessThanWellFounded
<1>2. T \subseteq Nat
  OBVIOUS
<1>3. PICK m \in T : \A k \in T : ~(<<k, m>> \in R)
  <2> HIDE DEF R, T
  <2> QED
    BY <1>1, <1>2, WFMin, Zenon
<1>4. m \in 0..N /\ m # 0 /\ m - 1 \in 0..N /\ m - 1 < m
  OBVIOUS
<1>5. m - 1 \notin T
  <2> HIDE DEF R, T
  <2> QED
    BY <1>0, <1>3, <1>4, <1>2
<1> QED
  BY <1>4, <1>5

\* The scan of a text is defined at each of its positions.
LEMMA ScannedDef ==
    ASSUME NEW q, Len(q) \in Nat
    PROVE  Scanned(q) = [i \in 0..Len(q) |-> IF i = 0 THEN JqlStart ELSE Scan(Scanned(q)[i - 1], q[i])]
<1> DEFINE Fits(f, n) == f = [i \in 0..n |-> IF i = 0 THEN JqlStart ELSE Scan(f[i - 1], q[i])]
           S == {n \in 0..Len(q) : \E f : Fits(f, n)}
<1>1. 0 \in S
  <2> DEFINE f == [i \in 0..0 |-> JqlStart]
  <2>1. Fits(f, 0)
    OBVIOUS
  <2> HIDE DEF f
  <2> QED
    BY <2>1
<1>2. ASSUME NEW n \in 0..Len(q), n < Len(q), n \in S PROVE n + 1 \in S
  <2>1. PICK f : Fits(f, n)
    BY <1>2
  <2> DEFINE g == [i \in 0..(n + 1) |-> IF i <= n THEN f[i] ELSE Scan(f[n], q[n + 1])]
  <2>2. \A i \in 0..n : f[i] = IF i = 0 THEN JqlStart ELSE Scan(f[i - 1], q[i])
    <3> HIDE DEF S
    <3> QED
      BY <2>1
  <2>3. \A i \in 0..(n + 1) : g[i] = IF i = 0 THEN JqlStart ELSE Scan(g[i - 1], q[i])
    <3> HIDE DEF Fits
    <3> QED
      BY <2>2
  <2>4. Fits(g, n + 1)
    <3>1. g = [i \in 0..(n + 1) |-> g[i]]
      OBVIOUS
    <3> HIDE DEF g
    <3> QED
      BY <2>3, <3>1
  <2> HIDE DEF g, Fits
  <2> QED
    BY <1>2, <2>4
<1>3. Len(q) \in S
  <2> HIDE DEF S
  <2>1. \A n \in 0..Len(q) : n < Len(q) /\ n \in S => n + 1 \in S
    BY <1>2
  <2>2. \A n \in 0..Len(q) : n \in S
    BY <1>1, <2>1, Induction
  <2> QED
    BY <2>2
<1>4. \E f : Fits(f, Len(q))
  BY <1>3
<1> QED
  BY <1>4, Zenon DEF Scanned

-----------------------------------------------------------------------------
(* JQL.                                                                    *)

ScanState == [quote : {Nil, "dquote", "squote"}, skip : BOOLEAN,
              depth : Int, lowest : Int, at : Nat, order : Nat]

LEMMA ScanStep ==
    ASSUME NEW s \in ScanState, NEW token, NEW u, u = Scan(s, token)
    PROVE  /\ u \in ScanState
           /\ u.at = s.at + 1
           /\ u.lowest <= s.lowest
           /\ s.lowest <= s.depth => u.lowest <= u.depth
           /\ (s.skip => s.quote # Nil) => (u.skip => u.quote # Nil)
           /\ \/ u.order = s.order
              \/ /\ u.order = s.at + 1 /\ token = "orderby"
                 /\ s.depth = 0 /\ s.quote = Nil /\ ~s.skip
<1> DEFINE t == [s EXCEPT !.at = @ + 1]
<1>1. /\ t \in ScanState /\ t.at = s.at + 1 /\ s.at \in Nat
      /\ t.quote = s.quote /\ t.skip = s.skip /\ t.depth = s.depth
      /\ t.lowest = s.lowest /\ t.order = s.order
      /\ s.depth \in Int /\ s.lowest \in Int
  BY DEF ScanState
<1>2. CASE s.skip
  <2>1. u = [t EXCEPT !.skip = FALSE]
    BY <1>2 DEF Scan
  <2> HIDE DEF t
  <2>2. /\ u \in ScanState /\ ~u.skip /\ u.at = t.at /\ u.lowest = t.lowest
        /\ u.depth = t.depth /\ u.order = t.order
    BY <1>1, <2>1 DEF ScanState
  <2> QED
    BY <1>1, <2>2
<1>3. CASE ~s.skip /\ s.quote # Nil
  <2>1. u = [t EXCEPT !.quote = IF token = @ THEN Nil ELSE @, !.skip = token = "backslash"]
    BY <1>3 DEF Scan
  <2>2. token = "backslash" => token # t.quote
    BY <1>1, QueryAssumption DEF ScanState, JqlToken
  <2> HIDE DEF t
  <2>3. /\ u \in ScanState /\ u.at = t.at /\ u.lowest = t.lowest
        /\ u.depth = t.depth /\ u.order = t.order
        /\ u.skip => token = "backslash"
        /\ token # t.quote => u.quote = t.quote
    BY <1>1, <2>1 DEF ScanState
  <2> QED
    BY <1>1, <1>3, <2>2, <2>3
<1>4. CASE ~s.skip /\ s.quote = Nil
  <2>1. CASE token \in {"dquote", "squote"}
    <3>1. u = [t EXCEPT !.quote = token]
      BY <1>4, <2>1 DEF Scan
    <3> HIDE DEF t
    <3>2. /\ u \in ScanState /\ u.at = t.at /\ u.lowest = t.lowest
          /\ u.depth = t.depth /\ u.order = t.order /\ u.skip = t.skip
      BY <1>1, <2>1, <3>1 DEF ScanState
    <3> QED
      BY <1>1, <1>4, <3>2
  <2>2. CASE token = "open"
    <3>1. u = [t EXCEPT !.depth = @ + 1]
      BY <1>4, <2>2 DEF Scan
    <3> HIDE DEF t
    <3>2. /\ u \in ScanState /\ u.at = t.at /\ u.lowest = t.lowest
          /\ u.depth = t.depth + 1 /\ u.order = t.order /\ u.skip = t.skip
      BY <1>1, <3>1 DEF ScanState
    <3> QED
      BY <1>1, <1>4, <3>2
  <2>3. CASE token = "close"
    <3> DEFINE low == IF s.depth - 1 < t.lowest THEN s.depth - 1 ELSE t.lowest
    <3>1. u = [t EXCEPT !.depth = @ - 1, !.lowest = low]
      BY <1>4, <2>3 DEF Scan
    <3> HIDE DEF t
    <3>2. low \in Int /\ low <= t.lowest /\ low <= t.depth - 1
      BY <1>1
    <3> HIDE DEF low
    <3>3. /\ u.at = t.at /\ u.lowest = low /\ u.quote = t.quote
          /\ u.depth = t.depth - 1 /\ u.order = t.order /\ u.skip = t.skip
      BY <1>1, <3>1, <3>2 DEF ScanState
    <3>4. u \in ScanState
      <4>1. u = [quote |-> t.quote, skip |-> t.skip, depth |-> t.depth - 1,
                 lowest |-> low, at |-> t.at, order |-> t.order]
        BY <1>1, <3>1 DEF ScanState
      <4>2. /\ t.quote \in {Nil, "dquote", "squote"} /\ t.skip \in BOOLEAN
            /\ t.depth - 1 \in Int /\ t.at \in Nat /\ t.order \in Nat
        BY <1>1 DEF ScanState
      <4> QED
        BY <3>2, <4>1, <4>2 DEF ScanState
    <3> QED
      BY <1>1, <1>4, <3>2, <3>3, <3>4
  <2>4. CASE token = "orderby" /\ s.depth = 0 /\ s.order = 0
    <3>1. u = [t EXCEPT !.order = t.at]
      BY <1>4, <2>4 DEF Scan
    <3> HIDE DEF t
    <3>2. /\ u \in ScanState /\ u.at = t.at /\ u.lowest = t.lowest
          /\ u.depth = t.depth /\ u.order = t.at /\ u.skip = t.skip
      BY <1>1, <3>1 DEF ScanState
    <3> QED
      BY <1>1, <1>4, <2>4, <3>2
  <2>5. CASE token \notin {"dquote", "squote", "open", "close"} /\ ~(token = "orderby" /\ s.depth = 0 /\ s.order = 0)
    <3>1. u = t
      BY <1>4, <2>5 DEF Scan
    <3> HIDE DEF t
    <3> QED
      BY <1>1, <1>4, <3>1
  <2> QED
    BY <2>1, <2>2, <2>3, <2>4, <2>5
<1> QED
  BY <1>2, <1>3, <1>4

\* What holds before and behind every token of a text.
Scans(q, i) ==
    LET s == Scanned(q)[i] IN
    /\ s \in ScanState /\ s.at = i
    /\ s.lowest <= s.depth /\ s.lowest <= 0
    /\ s.skip => s.quote # Nil
    /\ s.order \in 0..i
    /\ s.order # 0 => /\ q[s.order] = "orderby"
                      /\ Scanned(q)[s.order - 1].depth = 0
                      /\ Scanned(q)[s.order - 1].quote = Nil
                      /\ ~Scanned(q)[s.order - 1].skip

LEMMA ScannedStep ==
    ASSUME NEW q, Len(q) \in Nat, NEW i \in 0..Len(q), i < Len(q)
    PROVE  Scanned(q)[i + 1] = Scan(Scanned(q)[i], q[i + 1])
<1>1. i + 1 \in 0..Len(q) /\ i + 1 # 0 /\ (i + 1) - 1 = i
  OBVIOUS
<1> QED
  BY <1>1, ScannedDef

LEMMA ScannedFirst ==
    ASSUME NEW q, Len(q) \in Nat
    PROVE  Scanned(q)[0] = JqlStart
BY ScannedDef

LEMMA EveryPlaceScans ==
    ASSUME NEW q, Len(q) \in Nat
    PROVE  \A i \in 0..Len(q) : Scans(q, i)
<1> DEFINE S == {i \in 0..Len(q) : Scans(q, i)}
<1>1. 0 \in S
  <2> DEFINE s == Scanned(q)[0]
  <2>1. s = [quote |-> Nil, skip |-> FALSE, depth |-> 0, lowest |-> 0, at |-> 0, order |-> 0]
    BY ScannedFirst DEF JqlStart
  <2> HIDE DEF s
  <2>2. s \in ScanState /\ ~s.skip /\ s.depth = 0 /\ s.lowest = 0 /\ s.at = 0 /\ s.order = 0
    BY <2>1 DEF ScanState
  <2>3. Scans(q, 0)
    BY <2>2 DEF Scans, s
  <2> QED
    BY <2>3
<1>2. ASSUME NEW i \in 0..Len(q), i < Len(q), i \in S PROVE i + 1 \in S
  <2> DEFINE s == Scanned(q)[i]
             t == Scanned(q)[i + 1]
  <2>1. t = Scan(s, q[i + 1])
    BY <1>2, ScannedStep
  <2>2. Scans(q, i) /\ s \in ScanState /\ s.at = i /\ i \in Nat /\ (i + 1) - 1 = i
    BY <1>2 DEF Scans
  <2>3. /\ t \in ScanState /\ t.at = i + 1
        /\ t.lowest <= t.depth /\ t.lowest <= 0
        /\ t.skip => t.quote # Nil
    <3> HIDE DEF s, t
    <3>1. s.lowest <= s.depth /\ s.lowest <= 0 /\ (s.skip => s.quote # Nil)
      BY <2>2 DEF Scans, s
    <3> QED
      BY <2>1, <2>2, <3>1, ScanStep DEF ScanState
  <2>4. /\ t.order \in 0..(i + 1)
        /\ t.order # 0 => /\ q[t.order] = "orderby"
                          /\ Scanned(q)[t.order - 1].depth = 0
                          /\ Scanned(q)[t.order - 1].quote = Nil
                          /\ ~Scanned(q)[t.order - 1].skip
    <3>1. CASE t.order = s.order
      BY <2>2, <3>1 DEF Scans
    <3>2. CASE /\ t.order = s.at + 1 /\ q[i + 1] = "orderby"
               /\ s.depth = 0 /\ s.quote = Nil /\ ~s.skip
      BY <2>2, <3>2
    <3> QED
      <4> HIDE DEF s, t
      <4> QED
        BY <2>1, <2>2, <3>1, <3>2, ScanStep
  <2>5. Scans(q, i + 1)
    BY <2>3, <2>4 DEF Scans
  <2> QED
    BY <1>2, <2>5
<1> HIDE DEF S
<1>3. \A i \in 0..Len(q) : i < Len(q) /\ i \in S => i + 1 \in S
  BY <1>2
<1>4. \A i \in 0..Len(q) : i \in S
  BY <1>1, <1>3, Induction
<1> QED
  BY <1>4 DEF S

\* A text that never closes more parentheses than it has opened has, at each of
\* its places, no more closed than open.
LEMMA NeverBelow ==
    ASSUME NEW q, Len(q) \in Nat, Scanned(q)[Len(q)].lowest = 0
    PROVE  \A i \in 0..Len(q) : Scanned(q)[i].depth >= 0
<1> DEFINE n == Len(q)
           S == {k \in 0..n : Scanned(q)[n - k].lowest = 0}
<1>1. 0 \in S
  OBVIOUS
<1>2. ASSUME NEW k \in 0..n, k < n, k \in S PROVE k + 1 \in S
  <2> DEFINE i == n - (k + 1)
  <2>1. i \in 0..n /\ i < n /\ i + 1 = n - k /\ n - k \in 0..n
    BY <1>2
  <2>2. Scanned(q)[i + 1] = Scan(Scanned(q)[i], q[i + 1])
    BY <2>1, ScannedStep
  <2>3. Scans(q, i)
    BY <2>1, EveryPlaceScans
  <2>4. Scanned(q)[i + 1].lowest <= Scanned(q)[i].lowest
    BY <2>2, <2>3, ScanStep DEF Scans
  <2>5. Scanned(q)[i + 1].lowest = 0
    BY <1>2, <2>1
  <2>6. Scanned(q)[i].lowest \in Int /\ Scanned(q)[i].lowest <= 0
    BY <2>3 DEF Scans, ScanState
  <2>7. Scanned(q)[i].lowest = 0
    BY <2>4, <2>5, <2>6
  <2> QED
    BY <1>2, <2>7
<1>3. \A k \in 0..n : k \in S
  <2> HIDE DEF S
  <2>1. \A k \in 0..n : k < n /\ k \in S => k + 1 \in S
    BY <1>2
  <2> QED
    BY <1>1, <2>1, Induction
<1> SUFFICES ASSUME NEW i \in 0..n PROVE Scanned(q)[i].depth >= 0
  OBVIOUS
<1>4. n - i \in 0..n /\ n - (n - i) = i
  OBVIOUS
<1>5. Scanned(q)[i].lowest = 0
  BY <1>3, <1>4
<1>6. Scanned(q)[i].lowest <= Scanned(q)[i].depth /\ Scanned(q)[i].depth \in Int
  BY EveryPlaceScans DEF Scans, ScanState
<1> QED
  BY <1>5, <1>6

\* What is put in one pair of parentheses is scanned as before, a level deeper.
LEMMA Deeper ==
    ASSUME NEW s \in ScanState, NEW t \in ScanState, NEW token, NEW u, NEW v,
           s.quote = t.quote, s.skip = t.skip, t.depth = s.depth + 1,
           u = Scan(s, token), v = Scan(t, token)
    PROVE  u.quote = v.quote /\ u.skip = v.skip /\ v.depth = u.depth + 1
<1> DEFINE a == [s EXCEPT !.at = @ + 1]
           b == [t EXCEPT !.at = @ + 1]
<1>1. /\ a \in ScanState /\ a.quote = s.quote /\ a.skip = s.skip /\ a.depth = s.depth
      /\ b \in ScanState /\ b.quote = s.quote /\ b.skip = s.skip /\ b.depth = s.depth + 1
      /\ s.depth \in Int
  BY DEF ScanState
<1>2. CASE s.skip
  <2>1. u = [a EXCEPT !.skip = FALSE] /\ v = [b EXCEPT !.skip = FALSE]
    BY <1>2 DEF Scan
  <2> HIDE DEF a, b
  <2> QED
    BY <1>1, <2>1 DEF ScanState
<1>3. CASE ~s.skip /\ s.quote # Nil
  <2>1. /\ u = [a EXCEPT !.quote = IF token = @ THEN Nil ELSE @, !.skip = token = "backslash"]
        /\ v = [b EXCEPT !.quote = IF token = @ THEN Nil ELSE @, !.skip = token = "backslash"]
    BY <1>3 DEF Scan
  <2> HIDE DEF a, b
  <2> QED
    BY <1>1, <2>1 DEF ScanState
<1>4. CASE ~s.skip /\ s.quote = Nil
  <2>1. CASE token \in {"dquote", "squote"}
    <3>1. u = [a EXCEPT !.quote = token] /\ v = [b EXCEPT !.quote = token]
      BY <1>4, <2>1 DEF Scan
    <3> HIDE DEF a, b
    <3> QED
      BY <1>1, <3>1 DEF ScanState
  <2>2. CASE token = "open"
    <3>1. u = [a EXCEPT !.depth = @ + 1] /\ v = [b EXCEPT !.depth = @ + 1]
      BY <1>4, <2>2 DEF Scan
    <3> HIDE DEF a, b
    <3> QED
      BY <1>1, <3>1 DEF ScanState
  <2>3. CASE token = "close"
    <3>1. /\ u.quote = a.quote /\ u.skip = a.skip /\ u.depth = a.depth - 1
          /\ v.quote = b.quote /\ v.skip = b.skip /\ v.depth = b.depth - 1
      BY <1>1, <1>4, <2>3 DEF Scan, ScanState
    <3> HIDE DEF a, b
    <3> QED
      BY <1>1, <3>1
  <2>4. CASE token \notin {"dquote", "squote", "open", "close"}
    <3>1. /\ u.quote = a.quote /\ u.skip = a.skip /\ u.depth = a.depth
          /\ v.quote = b.quote /\ v.skip = b.skip /\ v.depth = b.depth
      BY <1>1, <1>4, <2>4 DEF Scan, ScanState
    <3> HIDE DEF a, b
    <3> QED
      BY <1>1, <3>1
  <2> QED
    BY <2>1, <2>2, <2>3, <2>4
<1> QED
  BY <1>2, <1>3, <1>4

-----------------------------------------------------------------------------

\* The query whose first Len(f) tokens f are put in parentheses and followed by
\* the scope and the clause o.
LEMMA Enclosed ==
    ASSUME NEW f \in Seq(JqlToken), NEW o \in Seq(JqlToken), NEW r,
           r = (<< "open" >> \o f \o << "close", "and", "scope" >>) \o o
    PROVE  LET k == Len(f) IN
           /\ Len(r) = k + 4 + Len(o) /\ Len(r) \in Nat /\ DOMAIN r = 1..Len(r)
           /\ r[1] = "open" /\ \A i \in 1..k : r[i + 1] = f[i]
           /\ r[k + 2] = "close" /\ r[k + 3] = "and" /\ r[k + 4] = "scope"
           /\ Len(o) > 0 => r[k + 5] = o[1]
<1> DEFINE k == Len(f)
           T == JqlToken \cup {"and", "scope"}
           a == << "open" >>
           c == << "close", "and", "scope" >>
<1>1. f \in Seq(T) /\ o \in Seq(T) /\ k \in Nat /\ Len(o) \in Nat
  BY SeqMonotonic, LenProperties
<1>2. a \in Seq(T) /\ c \in Seq(T) /\ Len(a) = 1 /\ Len(c) = 3
  BY DEF JqlToken
<1>3. a[1] = "open" /\ c[1] = "close" /\ c[2] = "and" /\ c[3] = "scope"
  OBVIOUS
<1> HIDE DEF T, a, c
<1>4. /\ a \o f \in Seq(T) /\ Len(a \o f) = k + 1
      /\ \A i \in 1..(k + 1) : (a \o f)[i] = IF i <= 1 THEN a[i] ELSE f[i - 1]
  <2>1. /\ a \o f \in Seq(T) /\ Len(a \o f) = Len(a) + Len(f)
        /\ \A i \in 1..(Len(a) + Len(f)) : (a \o f)[i] = IF i <= Len(a) THEN a[i] ELSE f[i - Len(a)]
    BY <1>1, <1>2, ConcatProperties, Zenon
  <2>2. Len(a) + Len(f) = k + 1
    BY <1>1, <1>2
  <2> HIDE DEF k
  <2> QED
    BY <1>2, <2>1, <2>2
<1> DEFINE b == a \o f
<1>5. /\ b[1] = "open" /\ \A i \in 1..k : b[i + 1] = f[i]
  <2>1. b[1] = "open"
    BY <1>1, <1>3, <1>4
  <2>2. ASSUME NEW i \in 1..k PROVE b[i + 1] = f[i]
    <3>1. i + 1 \in 1..(k + 1) /\ ~(i + 1 <= 1) /\ (i + 1) - 1 = i
      BY <1>1
    <3> QED
      BY <1>4, <3>1
  <2> QED
    BY <2>1, <2>2
<1>6. b \in Seq(T) /\ Len(b) = k + 1
  BY <1>4
<1> HIDE DEF b
<1> DEFINE d == b \o c
<1>7. /\ d \in Seq(T) /\ Len(d) = k + 4
      /\ \A i \in 1..(k + 4) : d[i] = IF i <= k + 1 THEN b[i] ELSE c[i - (k + 1)]
  <2>1. /\ b \o c \in Seq(T) /\ Len(b \o c) = Len(b) + Len(c)
        /\ \A i \in 1..(Len(b) + Len(c)) : (b \o c)[i] = IF i <= Len(b) THEN b[i] ELSE c[i - Len(b)]
    BY <1>2, <1>6, ConcatProperties, ZenonT(60)
  <2>2. Len(b) + Len(c) = k + 4
    BY <1>1, <1>2, <1>6
  <2> HIDE DEF k
  <2> QED
    BY <1>6, <2>1, <2>2
<1>8. /\ \A i \in 1..(k + 1) : d[i] = b[i]
      /\ d[k + 2] = c[1] /\ d[k + 3] = c[2] /\ d[k + 4] = c[3]
  <2>1. /\ k + 2 \in 1..(k + 4) /\ ~(k + 2 <= k + 1) /\ (k + 2) - (k + 1) = 1
        /\ k + 3 \in 1..(k + 4) /\ ~(k + 3 <= k + 1) /\ (k + 3) - (k + 1) = 2
        /\ k + 4 \in 1..(k + 4) /\ ~(k + 4 <= k + 1) /\ (k + 4) - (k + 1) = 3
        /\ \A i \in 1..(k + 1) : i \in 1..(k + 4) /\ i <= k + 1
    BY <1>1
  <2> QED
    BY <1>7, <2>1
<1> HIDE DEF d
<1>9. /\ r \in Seq(T) /\ Len(r) = k + 4 + Len(o)
      /\ \A i \in 1..(k + 4 + Len(o)) : r[i] = IF i <= k + 4 THEN d[i] ELSE o[i - (k + 4)]
  <2>1. /\ d \o o \in Seq(T) /\ Len(d \o o) = Len(d) + Len(o)
        /\ \A i \in 1..(Len(d) + Len(o)) : (d \o o)[i] = IF i <= Len(d) THEN d[i] ELSE o[i - Len(d)]
    BY <1>1, <1>7, ConcatProperties, Zenon
  <2>2. r = d \o o
    BY DEF a, b, c, d
  <2> HIDE DEF k
  <2> QED
    BY <1>7, <2>1, <2>2
<1>10. \A i \in 1..(k + 4) : r[i] = d[i]
  <2>1. \A i \in 1..(k + 4) : i \in 1..(k + 4 + Len(o)) /\ i <= k + 4
    BY <1>1
  <2> QED
    BY <1>9, <2>1
<1>11. Len(o) > 0 => r[k + 5] = o[1]
  <2>1. Len(o) > 0 => k + 5 \in 1..(k + 4 + Len(o)) /\ ~(k + 5 <= k + 4) /\ (k + 5) - (k + 4) = 1
    BY <1>1
  <2> QED
    BY <1>9, <2>1
<1>12. /\ 1 \in 1..(k + 1) /\ 1 \in 1..(k + 4)
       /\ k + 2 \in 1..(k + 4) /\ k + 3 \in 1..(k + 4) /\ k + 4 \in 1..(k + 4)
       /\ \A i \in 1..k : i + 1 \in 1..(k + 1) /\ i + 1 \in 1..(k + 4)
  BY <1>1
<1>13. Len(r) \in Nat /\ DOMAIN r = 1..Len(r)
  BY <1>9, LenProperties
<1> QED
  BY <1>3, <1>5, <1>8, <1>9, <1>10, <1>11, <1>12, <1>13

\* The filter of a query that is accepted ends where its parentheses and quotes
\* are closed, and never closes more than it opens.
LEMMA FilterCloses ==
    ASSUME NEW q \in Seq(JqlToken), JqlAccepted(q)
    PROVE  LET f == FilterOf(q)
               k == Len(f)
               o == OrderOf(q)
           IN  /\ f \in Seq(JqlToken) /\ o \in Seq(JqlToken) /\ k \in 0..Len(q)
               /\ \A i \in 1..k : f[i] = q[i]
               /\ Scanned(q)[k].depth = 0 /\ Scanned(q)[k].quote = Nil /\ ~Scanned(q)[k].skip
               /\ \A i \in 0..k : Scanned(q)[i].depth >= 0
               /\ Len(o) > 0 => o[1] = "orderby"
<1> DEFINE n == Len(q)
           b == OrderBegins(q)
<1>1. n \in Nat /\ \A i \in 1..n : q[i] \in JqlToken
  BY LenProperties, ElementOfSeq
<1>2. /\ Scanned(q)[n].quote = Nil /\ Scanned(q)[n].depth = 0 /\ Scanned(q)[n].lowest = 0
  BY DEF JqlAccepted, Balanced
<1>3. \A i \in 0..n : Scanned(q)[i].depth >= 0
  BY <1>1, <1>2, NeverBelow
<1>4. Scans(q, n)
  BY <1>1, EveryPlaceScans
<1>5. b \in 0..n /\ b = Scanned(q)[n].order
  BY <1>4 DEF Scans, OrderBegins
<1>6. CASE b = 0
  <2>1. FilterOf(q) = q /\ OrderOf(q) = << >>
    BY <1>6 DEF FilterOf, OrderOf
  <2>2. ~Scanned(q)[n].skip
    BY <1>2, <1>4 DEF Scans
  <2>3. << >> \in Seq(JqlToken) /\ Len(<< >>) = 0
    BY EmptySeq
  <2> QED
    BY <1>1, <1>2, <1>3, <2>1, <2>2, <2>3
<1>7. CASE b # 0
  <2> DEFINE f == FilterOf(q)
             o == OrderOf(q)
  <2>1. b \in 1..n /\ b - 1 \in 0..n /\ b - 1 \in Int /\ n \in Int /\ b \in Int
    BY <1>1, <1>5, <1>7
  <2>2. f = SubSeq(q, 1, b - 1) /\ o = SubSeq(q, b, n)
    BY <1>7 DEF FilterOf, OrderOf
  <2>3. f \in Seq(JqlToken) /\ Len(f) = b - 1 /\ \A i \in 1..(b - 1) : f[i] = q[i]
    <3>1. \A i \in 1..(b - 1) : q[i] \in JqlToken
      BY <1>1, <2>1
    <3>2. /\ SubSeq(q, 1, b - 1) \in Seq(JqlToken)
          /\ Len(SubSeq(q, 1, b - 1)) = IF 1 <= b - 1 THEN (b - 1) - 1 + 1 ELSE 0
          /\ \A i \in 1..((b - 1) - 1 + 1) : SubSeq(q, 1, b - 1)[i] = q[1 + i - 1]
      <4> HIDE DEF b
      <4> QED
        BY <2>1, <3>1, SubSeqProperties
    <3>3. (b - 1) - 1 + 1 = b - 1 /\ \A i \in 1..(b - 1) : 1 + i - 1 = i
      BY <2>1
    <3> HIDE DEF b
    <3> QED
      BY <2>1, <2>2, <3>2, <3>3
  <2>4. o \in Seq(JqlToken) /\ o[1] = q[b]
    <3>1. \A i \in b..n : q[i] \in JqlToken
      BY <1>1, <2>1
    <3>2. /\ SubSeq(q, b, n) \in Seq(JqlToken)
          /\ \A i \in 1..(n - b + 1) : SubSeq(q, b, n)[i] = q[b + i - 1]
      <4> HIDE DEF b, n
      <4> QED
        BY <2>1, <3>1, SubSeqProperties
    <3>3. 1 \in 1..(n - b + 1) /\ b + 1 - 1 = b
      BY <2>1, <1>1
    <3> HIDE DEF b, n
    <3> QED
      BY <2>2, <3>2, <3>3
  <2>5. /\ q[b] = "orderby" /\ Scanned(q)[b - 1].depth = 0
        /\ Scanned(q)[b - 1].quote = Nil /\ ~Scanned(q)[b - 1].skip
    BY <1>4, <1>5, <1>7 DEF Scans
  <2>6. \A i \in 0..(b - 1) : i \in 0..n
    BY <2>1, <1>1
  <2> HIDE DEF b, n, f, o
  <2>7. /\ f \in Seq(JqlToken) /\ o \in Seq(JqlToken) /\ Len(f) \in 0..n
        /\ \A i \in 1..Len(f) : f[i] = q[i]
        /\ Scanned(q)[Len(f)].depth = 0 /\ Scanned(q)[Len(f)].quote = Nil /\ ~Scanned(q)[Len(f)].skip
        /\ \A i \in 0..Len(f) : Scanned(q)[i].depth >= 0
        /\ Len(o) > 0 => o[1] = "orderby"
    BY <1>3, <2>1, <2>3, <2>4, <2>5, <2>6
  <2> QED
    BY <2>7 DEF f, o, n
<1> QED
  BY <1>6, <1>7

\* A token that opens nothing and closes nothing leaves the place as it is.
LEMMA WordKeeps ==
    ASSUME NEW s \in ScanState, ~s.skip, s.quote = Nil, NEW token \in {"and", "scope"}, NEW u, u = Scan(s, token)
    PROVE  u \in ScanState /\ ~u.skip /\ u.quote = Nil /\ u.depth = s.depth
BY DEF Scan, ScanState

LEMMA OpenDeepens ==
    ASSUME NEW s \in ScanState, ~s.skip, s.quote = Nil, NEW u, u = Scan(s, "open")
    PROVE  u.quote = Nil /\ u.skip = FALSE /\ u.depth = s.depth + 1
BY DEF Scan, ScanState

\* The theorem behind jql_scope: whatever query is accepted, the scope that is
\* added to it stands outside all its quotes and parentheses, with no more than
\* one parenthesis before it and the clause that sorts behind it
\* (JQLScopeConstraint).
THEOREM AcceptedQueryIsClosed ==
    ASSUME NEW q \in Seq(JqlToken), JqlAccepted(q)
    PROVE  ScopeOutermost(JqlScoped(q))
<1> DEFINE f == FilterOf(q)
           o == OrderOf(q)
           k == Len(f)
           r == JqlScoped(q)
           R(i) == Scanned(r)[i]
<1>1. /\ f \in Seq(JqlToken) /\ o \in Seq(JqlToken) /\ k \in 0..Len(q) /\ Len(q) \in Nat
      /\ \A i \in 1..k : f[i] = q[i]
      /\ Scanned(q)[k].depth = 0 /\ Scanned(q)[k].quote = Nil /\ ~Scanned(q)[k].skip
      /\ \A i \in 0..k : Scanned(q)[i].depth >= 0
      /\ Len(o) > 0 => o[1] = "orderby"
  BY FilterCloses, LenProperties
<1>2. JqlStart \in ScanState /\ ~JqlStart.skip /\ JqlStart.quote = Nil /\ JqlStart.depth = 0
  BY DEF JqlStart, ScanState
<1>3. Len(o) \in Nat
  BY <1>1, LenProperties
<1>4. CASE f = << >>
  <2> DEFINE T == JqlToken \cup {"scope"}
             a == << "scope" >>
  <2>1. r = a \o o
    BY <1>4 DEF JqlScoped
  <2>2. a \in Seq(T) /\ o \in Seq(T) /\ Len(a) = 1 /\ a[1] = "scope"
    BY <1>1, SeqMonotonic
  <2> HIDE DEF T, a
  <2>3. /\ a \o o \in Seq(T) /\ Len(a \o o) = Len(a) + Len(o)
        /\ \A i \in 1..(Len(a) + Len(o)) : (a \o o)[i] = IF i <= Len(a) THEN a[i] ELSE o[i - Len(a)]
    BY <2>2, ConcatProperties, Zenon
  <2> HIDE DEF r, o, f, k
  <2>4. /\ Len(r) = 1 + Len(o) /\ DOMAIN r = 1..Len(r) /\ Len(r) \in Nat
        /\ r[1] = "scope" /\ (Len(o) > 0 => r[2] = o[1])
    BY <1>3, <2>1, <2>2, <2>3, LenProperties
  <2>5. Scanned(r)[0] = JqlStart
    BY <2>4, ScannedFirst
  <2>6. 0 \in 0..Len(r) /\ 0 < Len(r) /\ 0 + 1 = 1
    BY <1>3, <2>4
  <2>7. Scanned(r)[1] = Scan(JqlStart, "scope")
    <3>1. Scanned(r)[0 + 1] = Scan(Scanned(r)[0], r[0 + 1])
      BY <2>4, <2>6, ScannedStep
    <3> QED
      BY <2>4, <2>5, <2>6, <3>1
  <2>8. Scanned(r)[1].quote = Nil /\ Scanned(r)[1].depth = 0
    BY <1>2, <2>7, WordKeeps
  <2>9. 1 \in DOMAIN r /\ (1 < Len(r) => r[1 + 1] = "orderby")
    BY <1>1, <1>3, <2>4
  <2>10. ScopeOutermost(r)
    BY <2>4, <2>8, <2>9 DEF ScopeOutermost
  <2> QED
    BY <2>10 DEF r
<1>5. CASE f # << >>
  <2>1. r = (<< "open" >> \o f \o << "close", "and", "scope" >>) \o o
    BY <1>5 DEF JqlScoped
  <2>2. /\ Len(r) = k + 4 + Len(o) /\ Len(r) \in Nat /\ DOMAIN r = 1..Len(r)
        /\ r[1] = "open" /\ \A i \in 1..k : r[i + 1] = f[i]
        /\ r[k + 2] = "close" /\ r[k + 3] = "and" /\ r[k + 4] = "scope"
        /\ Len(o) > 0 => r[k + 5] = o[1]
    BY <1>1, <2>1, Enclosed
  <2> HIDE DEF f, o, r, k
  <2>3. \A i \in 0..Len(r) : i < Len(r) => Scanned(r)[i + 1] = Scan(Scanned(r)[i], r[i + 1])
    BY <2>2, ScannedStep
  <2>4. \A i \in 0..Len(r) : Scanned(r)[i] \in ScanState
    BY <2>2, EveryPlaceScans DEF Scans
  <2> DEFINE Q(i) == Scanned(q)[i]
             S == {i \in 0..k : R(i + 1).quote = Q(i).quote /\ R(i + 1).skip = Q(i).skip
                                /\ R(i + 1).depth = Q(i).depth + 1}
  <2>5. \A i \in 0..k : i \in 0..Len(q) /\ Q(i) \in ScanState
    BY <1>1, EveryPlaceScans DEF Scans
  <2>6. 0 \in S
    <3>1. 0 \in 0..Len(r) /\ 0 < Len(r) /\ 0 + 1 = 1
      BY <1>1, <1>3, <2>2
    <3> DEFINE u == Scanned(r)[0 + 1]
    <3>2. u = Scan(Scanned(r)[0], r[0 + 1])
      BY <2>3, <3>1
    <3>3. u = Scan(JqlStart, "open")
      BY <2>2, <3>1, <3>2, ScannedFirst
    <3> HIDE DEF u
    <3>4. u.quote = Nil /\ u.skip = FALSE /\ u.depth = 0 + 1
      BY <1>2, <3>3, OpenDeepens
    <3>5. Q(0).quote = Nil /\ Q(0).skip = FALSE /\ Q(0).depth = 0
      BY <1>1, ScannedFirst DEF JqlStart
    <3>6. u.quote = Q(0).quote /\ u.skip = Q(0).skip /\ u.depth = Q(0).depth + 1
      BY <3>4, <3>5
    <3> QED
      BY <1>1, <3>6 DEF u
  <2>7. ASSUME NEW i \in 0..k, i < k, i \in S PROVE i + 1 \in S
    <3>1. /\ i + 1 \in 0..k /\ i + 1 \in 1..k
          /\ i \in 0..Len(q) /\ i < Len(q)
          /\ i + 1 \in 0..Len(r) /\ i + 1 < Len(r)
      BY <1>1, <1>3, <2>2, <2>7
    <3>2. Q(i + 1) = Scan(Q(i), q[i + 1])
      BY <1>1, <3>1, ScannedStep
    <3>3. r[(i + 1) + 1] = q[i + 1]
      BY <1>1, <2>2, <3>1
    <3>4. R((i + 1) + 1) = Scan(R(i + 1), q[i + 1])
      BY <2>3, <3>1, <3>3
    <3>5. Q(i) \in ScanState /\ R(i + 1) \in ScanState
      BY <2>4, <2>5, <3>1
    <3>6. R(i + 1).quote = Q(i).quote /\ R(i + 1).skip = Q(i).skip /\ R(i + 1).depth = Q(i).depth + 1
      BY <2>7
    <3> HIDE DEF Q, R
    <3>7. /\ Q(i + 1).quote = R((i + 1) + 1).quote /\ Q(i + 1).skip = R((i + 1) + 1).skip
          /\ R((i + 1) + 1).depth = Q(i + 1).depth + 1
      BY <3>2, <3>4, <3>5, <3>6, Deeper
    <3> QED
      BY <3>1, <3>7
  <2>8. \A i \in 0..k : R(i + 1).quote = Q(i).quote /\ R(i + 1).skip = Q(i).skip
                        /\ R(i + 1).depth = Q(i).depth + 1
    <3>1. k \in Nat
      BY <1>1
    <3>2. \A i \in 0..k : i \in S
      <4> HIDE DEF S
      <4>1. \A i \in 0..k : i < k /\ i \in S => i + 1 \in S
        BY <2>7
      <4> QED
        BY <2>6, <3>1, <4>1, Induction
    <3> QED
      BY <3>2
  <2>9. /\ k \in 0..k /\ k + 1 \in 0..Len(r) /\ k + 1 < Len(r) /\ (k + 1) + 1 = k + 2
        /\ k + 2 \in 0..Len(r) /\ k + 2 < Len(r) /\ (k + 2) + 1 = k + 3
        /\ k + 3 \in 0..Len(r) /\ k + 3 < Len(r) /\ (k + 3) + 1 = k + 4
    BY <1>1, <1>3, <2>2
  <2>10. R(k + 1).quote = Nil /\ ~R(k + 1).skip /\ R(k + 1).depth = 1
    BY <1>1, <2>8, <2>9
  <2>11. R(k + 2).quote = Nil /\ ~R(k + 2).skip /\ R(k + 2).depth = 0 /\ R(k + 2) \in ScanState
    <3> DEFINE s == R(k + 1)
               u == R(k + 2)
    <3>1. u = Scan(s, "close") /\ s \in ScanState /\ u \in ScanState
      BY <2>2, <2>3, <2>4, <2>9
    <3>2. s.quote = Nil /\ ~s.skip /\ s.depth = 1
      BY <2>10
    <3> HIDE DEF s, u
    <3>3. u.quote = Nil /\ ~u.skip /\ u.depth = 0
      BY <3>1, <3>2 DEF Scan, ScanState
    <3> QED
      BY <3>1, <3>3 DEF u
  <2>12. R(k + 3) = Scan(R(k + 2), "and") /\ R(k + 4) = Scan(R(k + 3), "scope")
    BY <2>2, <2>3, <2>9
  <2>13. R(k + 3) \in ScanState /\ R(k + 3).quote = Nil /\ ~R(k + 3).skip /\ R(k + 3).depth = 0
    BY <2>11, <2>12, WordKeeps
  <2>14. R(k + 4).quote = Nil /\ R(k + 4).depth = 0
    BY <2>12, <2>13, WordKeeps
  <2>15. \A i \in 1..(k + 1) : R(i).depth > 0
    <3>1. \A i \in 1..(k + 1) : i - 1 \in 0..k /\ (i - 1) + 1 = i
      BY <1>1
    <3>2. \A i \in 0..k : Q(i).depth >= 0 /\ Q(i).depth \in Int
      BY <1>1, <2>5 DEF ScanState
    <3> HIDE DEF Q, R
    <3> QED
      BY <2>8, <3>1, <3>2
  <2>16. /\ k + 4 \in DOMAIN r /\ (k + 4) - 1 = k + 3 /\ (k + 4) - 3 = k + 1
         /\ (k + 4 < Len(r) => r[(k + 4) + 1] = "orderby")
    BY <1>1, <1>3, <2>2
  <2>17. ScopeOutermost(r)
    BY <2>2, <2>14, <2>15, <2>16 DEF ScopeOutermost
  <2> QED
    BY <2>17 DEF r
<1> QED
  BY <1>4, <1>5

\* The same, of the queries that the runs check.
THEOREM QueriesAreClosed == QueriesClosed
BY AcceptedQueryIsClosed, QueryAssumption DEF QueriesClosed

-----------------------------------------------------------------------------
(* Postgres.                                                               *)

LEMMA LevelsNat == MaxWalkDepth + 1 \in Nat /\ Levels = 0..(MaxWalkDepth + 1)
BY PgAssumption DEF Levels

\* The walk and the places of a statement are defined at each level.
LEMMA VisitedDef ==
    ASSUME NEW statement
    PROVE  /\ Visited(statement)[0] = {[node |-> statement, scope |-> {}]}
           /\ \A d \in 0..MaxWalkDepth :
                 Visited(statement)[d + 1] = UNION {Under(v) : v \in Visited(statement)[d]}
<1> DEFINE N == MaxWalkDepth + 1
           First == {[node |-> statement, scope |-> {}]}
           Next(x) == UNION {Under(v) : v \in x}
           Fits(f, n) == f = [d \in 0..n |-> IF d = 0 THEN First ELSE Next(f[d - 1])]
           S == {n \in 0..N : \E f : Fits(f, n)}
<1>1. N \in Nat /\ Levels = 0..N
  BY LevelsNat
<1>2. 0 \in S
  <2> DEFINE f == [d \in 0..0 |-> First]
  <2> HIDE DEF First, Next
  <2>1. Fits(f, 0)
    OBVIOUS
  <2> HIDE DEF f
  <2> QED
    BY <1>1, <2>1
<1>3. ASSUME NEW n \in 0..N, n < N, n \in S PROVE n + 1 \in S
  <2>1. PICK f : Fits(f, n)
    BY <1>3
  <2> HIDE DEF First, Next
  <2> DEFINE g == [d \in 0..(n + 1) |-> IF d <= n THEN f[d] ELSE Next(f[n])]
  <2>2. \A d \in 0..n : f[d] = IF d = 0 THEN First ELSE Next(f[d - 1])
    <3> HIDE DEF S
    <3> QED
      BY <2>1
  <2>3. \A d \in 0..(n + 1) : g[d] = IF d = 0 THEN First ELSE Next(g[d - 1])
    <3> HIDE DEF Fits
    <3> QED
      BY <1>1, <2>2
  <2>4. Fits(g, n + 1)
    <3>1. g = [d \in 0..(n + 1) |-> g[d]]
      OBVIOUS
    <3> HIDE DEF g
    <3> QED
      BY <2>3, <3>1
  <2> HIDE DEF g, Fits
  <2> QED
    BY <1>1, <1>3, <2>4
<1>4. N \in S
  <2> HIDE DEF S, N
  <2>1. \A n \in 0..N : n < N /\ n \in S => n + 1 \in S
    BY <1>3
  <2>2. \A n \in 0..N : n \in S
    BY <1>1, <1>2, <2>1, Induction
  <2> QED
    BY <1>1, <2>2
<1>5. \E f : f = [d \in Levels |-> IF d = 0 THEN First ELSE Next(f[d - 1])]
  BY <1>1, <1>4
<1>6. Visited(statement) = [d \in Levels |-> IF d = 0 THEN First ELSE Next(Visited(statement)[d - 1])]
  BY <1>5, Zenon DEF Visited
<1> HIDE DEF First, Next, N
<1>7. 0 \in Levels /\ \A d \in 0..MaxWalkDepth : d + 1 \in Levels /\ d + 1 # 0 /\ (d + 1) - 1 = d
  BY <1>1, PgAssumption DEF N
<1>8. /\ Visited(statement)[0] = First
      /\ \A d \in 0..MaxWalkDepth : Visited(statement)[d + 1] = Next(Visited(statement)[d])
  BY <1>6, <1>7
<1> QED
  BY <1>8 DEF First, Next

LEMMA PlacesAtDef ==
    ASSUME NEW statement
    PROVE  /\ PlacesAt(statement)[0] = {[node |-> statement, above |-> << >>]}
           /\ \A d \in 0..MaxWalkDepth :
                 PlacesAt(statement)[d + 1] = UNION {{Below(p, s) : s \in Steps(p.node)} : p \in PlacesAt(statement)[d]}
<1> DEFINE N == MaxWalkDepth + 1
           First == {[node |-> statement, above |-> << >>]}
           Next(x) == UNION {{Below(p, s) : s \in Steps(p.node)} : p \in x}
           Fits(f, n) == f = [d \in 0..n |-> IF d = 0 THEN First ELSE Next(f[d - 1])]
           S == {n \in 0..N : \E f : Fits(f, n)}
<1>1. N \in Nat /\ Levels = 0..N
  BY LevelsNat
<1>2. 0 \in S
  <2> DEFINE f == [d \in 0..0 |-> First]
  <2> HIDE DEF First, Next
  <2>1. Fits(f, 0)
    OBVIOUS
  <2> HIDE DEF f
  <2> QED
    BY <1>1, <2>1
<1>3. ASSUME NEW n \in 0..N, n < N, n \in S PROVE n + 1 \in S
  <2>1. PICK f : Fits(f, n)
    BY <1>3
  <2> HIDE DEF First, Next
  <2> DEFINE g == [d \in 0..(n + 1) |-> IF d <= n THEN f[d] ELSE Next(f[n])]
  <2>2. \A d \in 0..n : f[d] = IF d = 0 THEN First ELSE Next(f[d - 1])
    <3> HIDE DEF S
    <3> QED
      BY <2>1
  <2>3. \A d \in 0..(n + 1) : g[d] = IF d = 0 THEN First ELSE Next(g[d - 1])
    <3> HIDE DEF Fits
    <3> QED
      BY <1>1, <2>2
  <2>4. Fits(g, n + 1)
    <3>1. g = [d \in 0..(n + 1) |-> g[d]]
      OBVIOUS
    <3> HIDE DEF g
    <3> QED
      BY <2>3, <3>1
  <2> HIDE DEF g, Fits
  <2> QED
    BY <1>1, <1>3, <2>4
<1>4. N \in S
  <2> HIDE DEF S, N
  <2>1. \A n \in 0..N : n < N /\ n \in S => n + 1 \in S
    BY <1>3
  <2>2. \A n \in 0..N : n \in S
    BY <1>1, <1>2, <2>1, Induction
  <2> QED
    BY <1>1, <2>2
<1>5. \E f : f = [d \in Levels |-> IF d = 0 THEN First ELSE Next(f[d - 1])]
  BY <1>1, <1>4
<1>6. PlacesAt(statement) = [d \in Levels |-> IF d = 0 THEN First ELSE Next(PlacesAt(statement)[d - 1])]
  BY <1>5, Zenon DEF PlacesAt
<1> HIDE DEF First, Next, N
<1>7. 0 \in Levels /\ \A d \in 0..MaxWalkDepth : d + 1 \in Levels /\ d + 1 # 0 /\ (d + 1) - 1 = d
  BY <1>1, PgAssumption DEF N
<1>8. /\ PlacesAt(statement)[0] = First
      /\ \A d \in 0..MaxWalkDepth : PlacesAt(statement)[d + 1] = Next(PlacesAt(statement)[d])
  BY <1>6, <1>7
<1> QED
  BY <1>8 DEF First, Next

\* The names of common table expressions that a step brings into scope, and
\* those in scope at a place.
StepScope(n, step) ==
    IF n.kind = "select"
    THEN NamesOf(n, {j \in DOMAIN n.with : step.part = "of" \/ n.recursive \/ j < step.at})
    ELSE {}

ScopeAt(p) == UNION {StepScope(p.above[k].node, p.above[k].step) : k \in DOMAIN p.above}

LEMMA ScopeIsOfCtes ==
    ASSUME NEW p
    PROVE  IsCte(p) <=> p.node.name \in ScopeAt(p)
<1> DEFINE N(k) == p.above[k].node
           T(k) == p.above[k].step
           In(k, j) == T(k).part = "of" \/ N(k).recursive \/ j < T(k).at
<1>1. \A k \in DOMAIN p.above :
        p.node.name \in StepScope(N(k), T(k))
        <=> N(k).kind = "select" /\ \E j \in DOMAIN N(k).with : N(k).with[j].name = p.node.name /\ In(k, j)
  BY DEF StepScope, NamesOf
<1>2. IsCte(p) <=> \E k \in DOMAIN p.above :
        N(k).kind = "select" /\ \E j \in DOMAIN N(k).with : N(k).with[j].name = p.node.name /\ In(k, j)
  BY DEF IsCte
<1>3. p.node.name \in ScopeAt(p) <=> \E k \in DOMAIN p.above : p.node.name \in StepScope(N(k), T(k))
  BY DEF ScopeAt
<1> HIDE DEF N, T, In
<1> QED
  BY <1>1, <1>2, <1>3

\* One step further, the names in scope are those that the step brings more.
LEMMA ScopeBelow ==
    ASSUME NEW p, NEW step, NEW U, p.above \in Seq(U)
    PROVE  /\ ScopeAt(Below(p, step)) = ScopeAt(p) \cup StepScope(p.node, step)
           /\ Below(p, step).node = Child(p.node, step)
           /\ \E W : Below(p, step).above \in Seq(W)
<1> DEFINE e == [node |-> p.node, step |-> step]
           W == U \cup {e}
           a == p.above
           b == Append(a, e)
<1>1. Below(p, step).node = Child(p.node, step) /\ Below(p, step).above = b
  BY DEF Below
<1>2. a \in Seq(W) /\ e \in W
  BY SeqMonotonic
<1>3. /\ b \in Seq(W) /\ Len(b) = Len(a) + 1
      /\ \A i \in 1..Len(a) : b[i] = a[i]
      /\ b[Len(a) + 1] = e
  <2> HIDE DEF W, e, a
  <2> QED
    BY <1>2, AppendProperties
<1>4. /\ DOMAIN a = 1..Len(a) /\ Len(a) \in Nat /\ DOMAIN b = 1..Len(b)
  <2> HIDE DEF W, e, a, b
  <2> QED
    BY <1>2, <1>3, LenProperties
<1>5. DOMAIN b = DOMAIN a \cup {Len(a) + 1}
  BY <1>3, <1>4
<1> DEFINE Sc(x) == StepScope(x.node, x.step)
<1>6. Sc(e) = StepScope(p.node, step)
  OBVIOUS
<1>7. ScopeAt(p) = UNION {Sc(a[k]) : k \in DOMAIN a}
      /\ ScopeAt(Below(p, step)) = UNION {Sc(b[k]) : k \in DOMAIN b}
  BY <1>1 DEF ScopeAt
<1> HIDE DEF W, e, a, b, Sc
<1>8. UNION {Sc(b[k]) : k \in DOMAIN b} = (UNION {Sc(a[k]) : k \in DOMAIN a}) \cup Sc(e)
  BY <1>3, <1>4, <1>5
<1> QED
  BY <1>1, <1>3, <1>6, <1>7, <1>8

\* The walk goes on from a node, unless it is a denied function, to what is
\* below it, with what each step brings into scope.
LEMMA UnderIsBelow ==
    ASSUME NEW n, NEW c, ~Denied(n)
    PROVE  Under([node |-> n, scope |-> c])
             = {[node |-> Child(n, s), scope |-> c \cup StepScope(n, s)] : s \in Steps(n)}
<1> DEFINE v == [node |-> n, scope |-> c]
           At(s) == [node |-> Child(n, s), scope |-> c \cup StepScope(n, s)]
           of == {[part |-> "of", at |-> i] : i \in DOMAIN n.of}
           with == {[part |-> "with", at |-> i] : i \in DOMAIN n.with}
<1>1. v.node = n /\ v.scope = c
  OBVIOUS
<1>2. CASE n.kind = "table"
  BY <1>1, <1>2 DEF Under, Steps
<1>3. CASE n.kind = "select"
  <2>1. Steps(n) = of \cup with
    BY <1>3 DEF Steps
  <2>2. \A i \in DOMAIN n.of : At([part |-> "of", at |-> i])
                                = [node |-> n.of[i], scope |-> c \cup NamesOf(n, DOMAIN n.with)]
    BY <1>3 DEF Child, StepScope
  <2>3. \A i \in DOMAIN n.with : At([part |-> "with", at |-> i])
                                  = [node |-> n.with[i].query, scope |-> VisibleIn(n, i, c)]
    BY <1>3 DEF Child, StepScope, VisibleIn
  <2>4. Under(v) = {[node |-> n.with[i].query, scope |-> VisibleIn(n, i, c)] : i \in DOMAIN n.with}
              \cup {[node |-> n.of[i], scope |-> c \cup NamesOf(n, DOMAIN n.with)] : i \in DOMAIN n.of}
    BY <1>1, <1>3 DEF Under
  <2>5. {At(s) : s \in Steps(n)}
          = {At([part |-> "with", at |-> i]) : i \in DOMAIN n.with}
            \cup {At([part |-> "of", at |-> i]) : i \in DOMAIN n.of}
    <3> HIDE DEF At
    <3> QED
      BY <2>1
  <2>6. {At([part |-> "of", at |-> i]) : i \in DOMAIN n.of}
          = {[node |-> n.of[i], scope |-> c \cup NamesOf(n, DOMAIN n.with)] : i \in DOMAIN n.of}
    <3> HIDE DEF At
    <3> QED
      BY <2>2
  <2>7. {At([part |-> "with", at |-> i]) : i \in DOMAIN n.with}
          = {[node |-> n.with[i].query, scope |-> VisibleIn(n, i, c)] : i \in DOMAIN n.with}
    <3> HIDE DEF At
    <3> QED
      BY <2>3
  <2> HIDE DEF At
  <2> QED
    BY <2>4, <2>5, <2>6, <2>7 DEF At
<1>4. CASE n.kind \notin {"table", "select"}
  <2>1. Steps(n) = of
    BY <1>4 DEF Steps
  <2>2. Under(v) = {[node |-> n.of[i], scope |-> c] : i \in DOMAIN n.of}
    BY <1>1, <1>4 DEF Under
  <2>3. \A i \in DOMAIN n.of : At([part |-> "of", at |-> i]) = [node |-> n.of[i], scope |-> c]
    BY <1>4 DEF Child, StepScope
  <2>4. {At(s) : s \in Steps(n)} = {At([part |-> "of", at |-> i]) : i \in DOMAIN n.of}
    <3> HIDE DEF At
    <3> QED
      BY <2>1
  <2>5. {At([part |-> "of", at |-> i]) : i \in DOMAIN n.of} = {[node |-> n.of[i], scope |-> c] : i \in DOMAIN n.of}
    <3> HIDE DEF At
    <3> QED
      BY <2>3
  <2> QED
    BY <2>2, <2>4, <2>5
<1> QED
  BY <1>2, <1>3, <1>4

\* What the walk has to know of a place.
Known(p) == [node |-> p.node, scope |-> ScopeAt(p)]

DeniedAt(statement, d) == \E p \in PlacesAt(statement)[d] : Denied(p.node)

\* A level of the walk, as long as no level above it holds a denied function, is
\* that level of the statement's places with the names in scope there.
LEMMA LevelKnown ==
    ASSUME NEW statement
    PROVE  \A d \in Levels :
              /\ \A p \in PlacesAt(statement)[d] : \E U : p.above \in Seq(U)
              /\ (\A e \in 0..(d - 1) : ~DeniedAt(statement, e))
                    => Visited(statement)[d] = {Known(p) : p \in PlacesAt(statement)[d]}
<1> DEFINE V(d) == Visited(statement)[d]
           P(d) == PlacesAt(statement)[d]
           Found(d) == V(d) = {Known(p) : p \in P(d)}
           Clear(d) == \A e \in 0..(d - 1) : ~DeniedAt(statement, e)
           Ways(d) == \A p \in P(d) : \E U : p.above \in Seq(U)
           N == MaxWalkDepth + 1
           S == {d \in 0..N : Ways(d) /\ (Clear(d) => Found(d))}
<1>1. N \in Nat /\ Levels = 0..N /\ MaxWalkDepth \in Nat
  BY LevelsNat, PgAssumption
<1>2. 0 \in S
  <2> DEFINE q == [node |-> statement, above |-> << >>]
  <2>1. P(0) = {q}
    BY PlacesAtDef
  <2>2. V(0) = {[node |-> statement, scope |-> {}]}
    BY VisitedDef
  <2>3. q.above = << >> /\ q.node = statement /\ q.above \in Seq({}) /\ DOMAIN q.above = {}
    BY EmptySeq
  <2>4. Known(q) = [node |-> statement, scope |-> {}]
    BY <2>3 DEF Known, ScopeAt
  <2> HIDE DEF q, P, V
  <2>5. Ways(0) /\ Found(0)
    BY <2>1, <2>2, <2>3, <2>4
  <2> HIDE DEF Ways, Found
  <2> QED
    BY <1>1, <2>5
<1>3. ASSUME NEW d \in 0..N, d < N, d \in S PROVE d + 1 \in S
  <2>1. d \in 0..MaxWalkDepth /\ d + 1 \in 0..N /\ d \in 0..((d + 1) - 1)
        /\ \A e \in 0..(d - 1) : e \in 0..((d + 1) - 1)
    BY <1>1, <1>3
  <2>2. V(d + 1) = UNION {Under(v) : v \in V(d)}
    BY <2>1, VisitedDef
  <2>3. P(d + 1) = UNION {{Below(p, s) : s \in Steps(p.node)} : p \in P(d)}
    BY <2>1, PlacesAtDef
  <2>4. \A p \in P(d) : \A s \in Steps(p.node) :
           /\ ScopeAt(Below(p, s)) = ScopeAt(p) \cup StepScope(p.node, s)
           /\ Below(p, s).node = Child(p.node, s)
           /\ \E W : Below(p, s).above \in Seq(W)
    BY <1>3, ScopeBelow
  <2>5. Ways(d + 1)
    <3> HIDE DEF P
    <3> QED
      BY <2>3, <2>4
  <2>6. ASSUME Clear(d + 1) PROVE Found(d + 1)
    <3>1. Clear(d) /\ \A p \in P(d) : ~Denied(p.node)
      BY <2>1, <2>6 DEF DeniedAt
    <3>2. Found(d)
      BY <1>3, <3>1
    <3>3. \A p \in P(d) : Under(Known(p)) = {Known(Below(p, s)) : s \in Steps(p.node)}
      <4> SUFFICES ASSUME NEW p \in P(d)
                   PROVE  Under(Known(p)) = {Known(Below(p, s)) : s \in Steps(p.node)}
        OBVIOUS
      <4>1. Under(Known(p)) = {[node |-> Child(p.node, s), scope |-> ScopeAt(p) \cup StepScope(p.node, s)]
                                  : s \in Steps(p.node)}
        BY <3>1, UnderIsBelow DEF Known
      <4>2. \A s \in Steps(p.node) :
               Known(Below(p, s)) = [node |-> Child(p.node, s), scope |-> ScopeAt(p) \cup StepScope(p.node, s)]
        BY <2>4 DEF Known
      <4> QED
        BY <4>1, <4>2
    <3> HIDE DEF P, V
    <3>4. V(d + 1) = UNION {Under(Known(p)) : p \in P(d)}
      BY <2>2, <3>2
    <3>5. V(d + 1) = UNION {{Known(Below(p, s)) : s \in Steps(p.node)} : p \in P(d)}
      BY <3>3, <3>4
    <3>6. {Known(q) : q \in P(d + 1)} = UNION {{Known(Below(p, s)) : s \in Steps(p.node)} : p \in P(d)}
      BY <2>3
    <3> QED
      BY <3>5, <3>6
  <2> HIDE DEF Ways, Clear, Found
  <2> QED
    BY <2>1, <2>5, <2>6
<1>4. \A d \in 0..N : d \in S
  <2> HIDE DEF S, N
  <2>1. \A d \in 0..N : d < N /\ d \in S => d + 1 \in S
    BY <1>3
  <2> QED
    BY <1>1, <1>2, <2>1, Induction
<1> QED
  BY <1>1, <1>4

\* The theorem behind pg_allowed_tables: the walk refuses a statement exactly for
\* a denied function or its depth, and finds the tables that the statement reads
\* and no other, whatever common table expressions it has (walkTables).
THEOREM WalkFindsWhatIsRead ==
    ASSUME NEW statement
    PROVE  LET found == Walk(statement) IN
           /\ found.err <=> CallsDenied(statement) \/ TooDeep(statement)
           /\ ~found.err => {Real(r) : r \in found.refs} = TablesRead(statement)
<1> DEFINE V(d) == Visited(statement)[d]
           P(d) == PlacesAt(statement)[d]
           M == MaxWalkDepth
           seen == UNION {V(d) : d \in 0..M}
           err == Walk(statement).err
           D == {d \in 0..M : DeniedAt(statement, d)}
<1>1. M \in Nat /\ M + 1 \in Nat /\ Levels = 0..(M + 1)
  BY LevelsNat, PgAssumption
<1>2. \A d \in 0..(M + 1) : (\A e \in 0..(d - 1) : ~DeniedAt(statement, e)) => V(d) = {Known(p) : p \in P(d)}
  BY <1>1, LevelKnown
<1>3. err <=> V(M + 1) # {} \/ \E v \in seen : Denied(v.node)
  BY DEF Walk
<1>4. Walk(statement).refs = {[schema |-> v.node.schema, name |-> v.node.name] : v \in {w \in seen : Refers(w)}}
  BY DEF Walk
<1>5. CallsDenied(statement) <=> \E d \in 0..(M + 1) : DeniedAt(statement, d)
  BY <1>1 DEF CallsDenied, Places, DeniedAt
<1>6. TooDeep(statement) <=> P(M + 1) # {}
  BY DEF TooDeep
<1>7. Places(statement) = UNION {P(d) : d \in 0..(M + 1)}
  BY <1>1 DEF Places
<1>8. \A p : Known(p).node = p.node /\ Known(p).scope = ScopeAt(p)
  BY DEF Known
<1>9. CASE D # {}
  <2>1. PICK d \in D : \A e \in D : d <= e
    <3> DEFINE R == OpToRel(<, Nat)
    <3>1. \A k, m \in Nat : k < m => << k, m >> \in R
      BY DEF OpToRel
    <3>2. IsWellFoundedOn(R, Nat)
      BY NatLessThanWellFounded
    <3>3. D \subseteq Nat
      OBVIOUS
    <3> HIDE DEF R, D
    <3>4. PICK d \in D : \A e \in D : ~(<< e, d >> \in R)
      BY <1>9, <3>2, <3>3, WFMin, Zenon
    <3>5. \A e \in D : ~(e < d)
      BY <3>1, <3>3, <3>4
    <3>6. \A e \in D : d <= e
      BY <3>3, <3>5
    <3> QED
      BY <3>6
  <2>2. d \in 0..M /\ d \in 0..(M + 1) /\ DeniedAt(statement, d)
    BY <1>1, <2>1
  <2>3. \A e \in 0..(d - 1) : ~DeniedAt(statement, e)
    <3>1. \A e \in 0..(d - 1) : e \in 0..M /\ ~(d <= e)
      BY <1>1, <2>2
    <3> QED
      BY <2>1, <3>1
  <2>4. V(d) = {Known(p) : p \in P(d)}
    BY <1>2, <2>2, <2>3
  <2>5. PICK p \in P(d) : Denied(p.node)
    BY <2>2 DEF DeniedAt
  <2>6. Known(p) \in seen /\ Denied(Known(p).node)
    <3> HIDE DEF V, P
    <3> QED
      BY <1>8, <2>2, <2>4, <2>5
  <2>7. err
    <3> HIDE DEF seen, err
    <3> QED
      BY <1>3, <2>6
  <2>8. CallsDenied(statement)
    BY <1>5, <2>2
  <2> QED
    BY <2>7, <2>8
<1>10. CASE D = {}
  <2>1. \A d \in 0..M : ~DeniedAt(statement, d)
    BY <1>10
  <2>2. \A d \in 0..(M + 1) : V(d) = {Known(p) : p \in P(d)}
    <3>1. \A d \in 0..(M + 1) : \A e \in 0..(d - 1) : e \in 0..M
      BY <1>1
    <3> QED
      BY <1>2, <2>1, <3>1
  <2>3. \A d \in 0..M : d \in 0..(M + 1)
    BY <1>1
  <2>4. seen = {Known(p) : p \in UNION {P(d) : d \in 0..M}}
    <3> HIDE DEF V, P
    <3> QED
      BY <2>2, <2>3
  <2>5. \A v \in seen : ~Denied(v.node)
    <3>1. \A d \in 0..M : \A p \in P(d) : ~Denied(p.node)
      BY <2>1 DEF DeniedAt
    <3> HIDE DEF seen, P
    <3> QED
      BY <1>8, <2>4, <3>1
  <2>6. M + 1 \in 0..(M + 1)
    BY <1>1
  <2>7. V(M + 1) # {} <=> P(M + 1) # {}
    BY <2>2, <2>6
  <2>8. CallsDenied(statement) => TooDeep(statement)
    <3>1. \A d \in 0..(M + 1) : d \in 0..M \/ d = M + 1
      BY <1>1
    <3> QED
      BY <1>5, <1>6, <2>1, <3>1 DEF DeniedAt
  <2>9. err <=> CallsDenied(statement) \/ TooDeep(statement)
    <3> HIDE DEF V, P, seen, err
    <3> QED
      BY <1>3, <1>6, <2>5, <2>7, <2>8
  <2>10. ASSUME ~err PROVE {Real(r) : r \in Walk(statement).refs} = TablesRead(statement)
    <3>1. P(M + 1) = {}
      BY <1>6, <2>9, <2>10
    <3>2. Places(statement) = UNION {P(d) : d \in 0..M}
      <4>1. \A d \in 0..(M + 1) : d \in 0..M \/ d = M + 1
        BY <1>1
      <4> HIDE DEF P
      <4> QED
        BY <1>7, <2>3, <3>1, <4>1
    <3> DEFINE Q == Places(statement)
               Reads(p) == p.node.kind = "table" /\ ~(p.node.schema = "" /\ IsCte(p))
               Named(n) == [schema |-> n.schema, name |-> n.name]
    <3>3. \A p : Refers(Known(p)) <=> Reads(p)
      BY <1>8, ScopeIsOfCtes DEF Refers
    <3>4. \A n : Real(Named(n)) = Real(n)
      BY DEF Real
    <3>5. seen = {Known(p) : p \in Q}
      BY <2>4, <3>2
    <3>6. Walk(statement).refs = {Named(v.node) : v \in {w \in seen : Refers(w)}}
      BY <1>4
    <3>7. TablesRead(statement) = {Real(p.node) : p \in {q \in Q : Reads(q)}}
      BY DEF TablesRead
    <3> HIDE DEF Q, Reads, Named, seen, V, P, err
    <3>8. Walk(statement).refs = {Named(p.node) : p \in {q \in Q : Reads(q)}}
      BY <1>8, <3>3, <3>5, <3>6
    <3> QED
      BY <3>4, <3>7, <3>8
  <2> QED
    BY <2>9, <2>10
<1> QED
  BY <1>9, <1>10

\* The same, of the statements that the runs check.
THEOREM StatementsResolved == ReferencesFound
BY WalkFindsWhatIsRead DEF ReferencesFound

LEMMA EntryCovers ==
    ASSUME NEW e \in Entry, NEW r, EntryAllows(e, r)
    PROVE  Covers(e, Real(r))
<1>1. e.schema = "*" => e.name = "*"
  BY PgAssumption
<1> QED
  BY <1>1 DEF EntryAllows, Covers, Real

\* No entry of the list admits a table that it does not stand for (tableAllowed).
THEOREM EntriesAdmitTheirOwn == EntriesCover
BY EntryCovers DEF EntriesCover

-----------------------------------------------------------------------------
(* Shaping.  What is defined for each depth of nesting is defined at all of *)
(* them; that a projection has the texts below its path, and a merger the   *)
(* texts of both, holds at a level if it holds one level below, as long as  *)
(* what is merged are parts of one value.                                  *)

\* The values are defined at every depth ...
LEMMA JsonDef ==
    Json = [d \in Depth |-> Flat \cup Nested(IF d = 0 THEN {} ELSE Json[d - 1])]
<1> DEFINE Level(d, within) == Flat \cup Nested(within)
           Fits(f, n) == f = [d \in 0..n |-> Level(d, IF d = 0 THEN {} ELSE f[d - 1])]
           S == {n \in Depth : \E f : Fits(f, n)}
<1> HIDE DEF Level
<1>1. MaxNesting \in Nat /\ Depth = 0..MaxNesting
  BY ShapeAssumption DEF Depth
<1>2. 0 \in S
  <2> DEFINE f == [d \in 0..0 |-> Level(0, {})]
  <2>1. Fits(f, 0)
    OBVIOUS
  <2> HIDE DEF f
  <2> QED
    BY <1>1, <2>1
<1>3. ASSUME NEW n \in Depth, n < MaxNesting, n \in S PROVE n + 1 \in S
  <2>1. PICK f : Fits(f, n)
    BY <1>3
  <2> DEFINE g == [d \in 0..(n + 1) |-> IF d <= n THEN f[d] ELSE Level(n + 1, f[n])]
  <2>2. \A d \in 0..n : f[d] = Level(d, IF d = 0 THEN {} ELSE f[d - 1])
    <3> HIDE DEF S
    <3> QED
      BY <2>1
  <2>3. \A d \in 0..(n + 1) : g[d] = Level(d, IF d = 0 THEN {} ELSE g[d - 1])
    <3> HIDE DEF Fits, S
    <3> QED
      BY <1>1, <2>2
  <2>4. Fits(g, n + 1)
    <3>1. g = [d \in 0..(n + 1) |-> g[d]]
      OBVIOUS
    <3> HIDE DEF g, S
    <3> QED
      BY <2>3, <3>1
  <2> HIDE DEF g, Fits
  <2> QED
    BY <1>1, <1>3, <2>4
<1>4. MaxNesting \in S
  <2> HIDE DEF S
  <2>1. \A n \in 0..MaxNesting : n < MaxNesting /\ n \in S => n + 1 \in S
    BY <1>1, <1>3
  <2>2. \A n \in 0..MaxNesting : n \in S
    BY <1>1, <1>2, <2>1, Induction
  <2> QED
    BY <1>1, <2>2
<1>5. \E f : Fits(f, MaxNesting)
  BY <1>4
<1>6. \E f : f = [d \in Depth |-> Flat \cup Nested(IF d = 0 THEN {} ELSE f[d - 1])]
  BY <1>1, <1>5 DEF Level
<1> QED
  BY <1>6, Zenon DEF Json

\* ... and so are the projections ...
LEMMA ProjectedDef ==
    Projected = [d \in Depth |-> [v \in Json[d] |-> [path \in Path |-> ProjectWithin(IF d = 0 THEN << >> ELSE Projected[d - 1], v, path)]]]
<1> DEFINE Level(d, within) == [v \in Json[d] |-> [path \in Path |-> ProjectWithin(within, v, path)]]
           Fits(f, n) == f = [d \in 0..n |-> Level(d, IF d = 0 THEN << >> ELSE f[d - 1])]
           S == {n \in Depth : \E f : Fits(f, n)}
<1> HIDE DEF Level
<1>1. MaxNesting \in Nat /\ Depth = 0..MaxNesting
  BY ShapeAssumption DEF Depth
<1>2. 0 \in S
  <2> DEFINE f == [d \in 0..0 |-> Level(0, << >>)]
  <2>1. Fits(f, 0)
    OBVIOUS
  <2> HIDE DEF f
  <2> QED
    BY <1>1, <2>1
<1>3. ASSUME NEW n \in Depth, n < MaxNesting, n \in S PROVE n + 1 \in S
  <2>1. PICK f : Fits(f, n)
    BY <1>3
  <2> DEFINE g == [d \in 0..(n + 1) |-> IF d <= n THEN f[d] ELSE Level(n + 1, f[n])]
  <2>2. \A d \in 0..n : f[d] = Level(d, IF d = 0 THEN << >> ELSE f[d - 1])
    <3> HIDE DEF S
    <3> QED
      BY <2>1
  <2>3. \A d \in 0..(n + 1) : g[d] = Level(d, IF d = 0 THEN << >> ELSE g[d - 1])
    <3> HIDE DEF Fits, S
    <3> QED
      BY <1>1, <2>2
  <2>4. Fits(g, n + 1)
    <3>1. g = [d \in 0..(n + 1) |-> g[d]]
      OBVIOUS
    <3> HIDE DEF g, S
    <3> QED
      BY <2>3, <3>1
  <2> HIDE DEF g, Fits
  <2> QED
    BY <1>1, <1>3, <2>4
<1>4. MaxNesting \in S
  <2> HIDE DEF S
  <2>1. \A n \in 0..MaxNesting : n < MaxNesting /\ n \in S => n + 1 \in S
    BY <1>1, <1>3
  <2>2. \A n \in 0..MaxNesting : n \in S
    BY <1>1, <1>2, <2>1, Induction
  <2> QED
    BY <1>1, <2>2
<1>5. \E f : Fits(f, MaxNesting)
  BY <1>4
<1>6. \E f : f = [d \in Depth |-> [v \in Json[d] |-> [path \in Path |-> ProjectWithin(IF d = 0 THEN << >> ELSE f[d - 1], v, path)]]]
  BY <1>1, <1>5 DEF Level
<1> QED
  BY <1>6, Zenon DEF Projected

\* ... the merged values ...
LEMMA MergedDef ==
    Merged = [d \in Depth |-> [a \in Json[d] |-> [b \in Json[d] |-> MergeWithin(IF d = 0 THEN << >> ELSE Merged[d - 1], a, b)]]]
<1> DEFINE Level(d, within) == [a \in Json[d] |-> [b \in Json[d] |-> MergeWithin(within, a, b)]]
           Fits(f, n) == f = [d \in 0..n |-> Level(d, IF d = 0 THEN << >> ELSE f[d - 1])]
           S == {n \in Depth : \E f : Fits(f, n)}
<1> HIDE DEF Level
<1>1. MaxNesting \in Nat /\ Depth = 0..MaxNesting
  BY ShapeAssumption DEF Depth
<1>2. 0 \in S
  <2> DEFINE f == [d \in 0..0 |-> Level(0, << >>)]
  <2>1. Fits(f, 0)
    OBVIOUS
  <2> HIDE DEF f
  <2> QED
    BY <1>1, <2>1
<1>3. ASSUME NEW n \in Depth, n < MaxNesting, n \in S PROVE n + 1 \in S
  <2>1. PICK f : Fits(f, n)
    BY <1>3
  <2> DEFINE g == [d \in 0..(n + 1) |-> IF d <= n THEN f[d] ELSE Level(n + 1, f[n])]
  <2>2. \A d \in 0..n : f[d] = Level(d, IF d = 0 THEN << >> ELSE f[d - 1])
    <3> HIDE DEF S
    <3> QED
      BY <2>1
  <2>3. \A d \in 0..(n + 1) : g[d] = Level(d, IF d = 0 THEN << >> ELSE g[d - 1])
    <3> HIDE DEF Fits, S
    <3> QED
      BY <1>1, <2>2
  <2>4. Fits(g, n + 1)
    <3>1. g = [d \in 0..(n + 1) |-> g[d]]
      OBVIOUS
    <3> HIDE DEF g, S
    <3> QED
      BY <2>3, <3>1
  <2> HIDE DEF g, Fits
  <2> QED
    BY <1>1, <1>3, <2>4
<1>4. MaxNesting \in S
  <2> HIDE DEF S
  <2>1. \A n \in 0..MaxNesting : n < MaxNesting /\ n \in S => n + 1 \in S
    BY <1>1, <1>3
  <2>2. \A n \in 0..MaxNesting : n \in S
    BY <1>1, <1>2, <2>1, Induction
  <2> QED
    BY <1>1, <2>2
<1>5. \E f : Fits(f, MaxNesting)
  BY <1>4
<1>6. \E f : f = [d \in Depth |-> [a \in Json[d] |-> [b \in Json[d] |-> MergeWithin(IF d = 0 THEN << >> ELSE f[d - 1], a, b)]]]
  BY <1>1, <1>5 DEF Level
<1> QED
  BY <1>6, Zenon DEF Merged

\* ... and the texts.
LEMMA LeavesOfDef ==
    LeavesOf = [d \in Depth |-> [v \in Json[d] |-> LeavesWithin(IF d = 0 THEN << >> ELSE LeavesOf[d - 1], v)]]
<1> DEFINE Level(d, within) == [v \in Json[d] |-> LeavesWithin(within, v)]
           Fits(f, n) == f = [d \in 0..n |-> Level(d, IF d = 0 THEN << >> ELSE f[d - 1])]
           S == {n \in Depth : \E f : Fits(f, n)}
<1> HIDE DEF Level
<1>1. MaxNesting \in Nat /\ Depth = 0..MaxNesting
  BY ShapeAssumption DEF Depth
<1>2. 0 \in S
  <2> DEFINE f == [d \in 0..0 |-> Level(0, << >>)]
  <2>1. Fits(f, 0)
    OBVIOUS
  <2> HIDE DEF f
  <2> QED
    BY <1>1, <2>1
<1>3. ASSUME NEW n \in Depth, n < MaxNesting, n \in S PROVE n + 1 \in S
  <2>1. PICK f : Fits(f, n)
    BY <1>3
  <2> DEFINE g == [d \in 0..(n + 1) |-> IF d <= n THEN f[d] ELSE Level(n + 1, f[n])]
  <2>2. \A d \in 0..n : f[d] = Level(d, IF d = 0 THEN << >> ELSE f[d - 1])
    <3> HIDE DEF S
    <3> QED
      BY <2>1
  <2>3. \A d \in 0..(n + 1) : g[d] = Level(d, IF d = 0 THEN << >> ELSE g[d - 1])
    <3> HIDE DEF Fits, S
    <3> QED
      BY <1>1, <2>2
  <2>4. Fits(g, n + 1)
    <3>1. g = [d \in 0..(n + 1) |-> g[d]]
      OBVIOUS
    <3> HIDE DEF g, S
    <3> QED
      BY <2>3, <3>1
  <2> HIDE DEF g, Fits
  <2> QED
    BY <1>1, <1>3, <2>4
<1>4. MaxNesting \in S
  <2> HIDE DEF S
  <2>1. \A n \in 0..MaxNesting : n < MaxNesting /\ n \in S => n + 1 \in S
    BY <1>1, <1>3
  <2>2. \A n \in 0..MaxNesting : n \in S
    BY <1>1, <1>2, <2>1, Induction
  <2> QED
    BY <1>1, <2>2
<1>5. \E f : Fits(f, MaxNesting)
  BY <1>4
<1>6. \E f : f = [d \in Depth |-> [v \in Json[d] |-> LeavesWithin(IF d = 0 THEN << >> ELSE f[d - 1], v)]]
  BY <1>1, <1>5 DEF Level
<1> QED
  BY <1>6, Zenon DEF LeavesOf

-----------------------------------------------------------------------------
(* A level of values: what a value is made of.                             *)

Members(d) == IF d = 0 THEN {} ELSE Json[d - 1]

LEMMA JsonLevel ==
    ASSUME NEW d \in Depth
    PROVE  Json[d] = Flat \cup Nested(Members(d))
BY JsonDef, Zenon DEF Members

\* The values of a level, by their kind.
LEMMA ValueKinds ==
    ASSUME NEW V, NEW v \in Flat \cup Nested(V)
    PROVE  /\ v.kind \in {"null", "text", "obj", "arr"}
           /\ v.kind = "null" <=> v = Null
           /\ v.kind = "text" => v.is \in Scalar /\ v = [kind |-> "text", is |-> v.is]
           /\ v.kind = "obj" => /\ v.of \in [FieldName -> V \cup {Nil}]
                                /\ v = [kind |-> "obj", of |-> v.of]
           /\ v.kind = "arr" => v.of \in Seq(V) /\ v = Arr(v.of)
<1>1. CASE v = Null
  BY <1>1 DEF Null
<1>2. CASE v \in [kind : {"text"}, is : Scalar]
  BY <1>2 DEF Null
<1>3. CASE v \in [kind : {"obj"}, of : [FieldName -> V \cup {Nil}]]
  BY <1>3 DEF Null
<1>4. CASE v \in [kind : {"arr"}, of : Seq(V)]
  BY <1>4 DEF Null, Arr
<1> QED
  BY <1>1, <1>2, <1>3, <1>4 DEF Flat, Nested

LEMMA ObjectMade ==
    ASSUME NEW V, NEW f \in [FieldName -> V \cup {Nil}]
    PROVE  /\ Obj(f) = [kind |-> "obj", of |-> f] /\ Obj(f) \in Flat \cup Nested(V)
           /\ Obj(f).kind = "obj" /\ Obj(f).of = f
<1>1. [k \in FieldName |-> IF k \in DOMAIN f THEN f[k] ELSE Nil] = f
  OBVIOUS
<1>2. Obj(f) = [kind |-> "obj", of |-> f]
  BY <1>1 DEF Obj
<1> QED
  BY <1>2 DEF Nested

LEMMA ArrayMade ==
    ASSUME NEW V, NEW s \in Seq(V)
    PROVE  Arr(s) \in Flat \cup Nested(V) /\ Arr(s).kind = "arr" /\ Arr(s).of = s
BY DEF Arr, Nested

-----------------------------------------------------------------------------
(* Texts and where they stand.                                             *)

Spot == [key : FieldName \cup {"[]"}, index : Nat]
Leaf == [at : Seq(Spot), is : Scalar]

\* A text as it stands one level up.
Put(s, l) == [at |-> <<s>> \o l.at, is |-> l.is]

BelowOf(texts, path) == {l \in texts : AtOrBelow(l.at, path)}

LEMMA PutLeaf ==
    ASSUME NEW s \in Spot, NEW l \in Leaf
    PROVE  Put(s, l) \in Leaf
BY DEF Put, Leaf

\* A text one level up is below a path if it stands where that begins, and was
\* below the rest of it.
LEMMA PutBelow ==
    ASSUME NEW s \in Spot, NEW l \in Leaf, NEW path \in Path, path # << >>
    PROVE  /\ Tail(path) \in Path /\ Head(path) \in FieldName \cup {"[]"}
           /\ AtOrBelow(Put(s, l).at, path) <=> s.key = Head(path) /\ AtOrBelow(l.at, Tail(path))
<1> DEFINE at == l.at
           up == <<s>> \o at
           rest == Tail(path)
<1>1. /\ at \in Seq(Spot) /\ up \in Seq(Spot) /\ Len(up) = Len(at) + 1 /\ Len(at) \in Nat
      /\ up[1] = s /\ \A i \in 1..Len(at) : up[i + 1] = at[i]
  BY DEF Leaf
<1>2. /\ path \in Seq(FieldName \cup {"[]"}) /\ Len(path) \in Nat /\ Len(path) >= 1
      /\ rest \in Path /\ Len(rest) = Len(path) - 1 /\ Head(path) = path[1]
      /\ path[1] \in FieldName \cup {"[]"}
      /\ \A i \in 1..Len(rest) : rest[i] = path[i + 1]
  BY EmptySeq, HeadTailProperties DEF Path
<1>3. DOMAIN path = 1..Len(path) /\ DOMAIN rest = 1..Len(rest)
  BY <1>2, LenProperties DEF Path
<1> HIDE DEF at, up, rest
<1>4. AtOrBelow(up, path) <=> s.key = path[1] /\ AtOrBelow(at, rest)
  <2>1. ASSUME AtOrBelow(up, path) PROVE s.key = path[1] /\ AtOrBelow(at, rest)
    <3>1. s.key = path[1] /\ Len(rest) <= Len(at)
      <4>1. Len(path) <= Len(up) /\ \A i \in DOMAIN path : up[i].key = path[i]
        BY <2>1 DEF AtOrBelow
      <4>2. up[1].key = path[1]
        BY <1>2, <1>3, <4>1
      <4> QED
        BY <1>1, <1>2, <4>1, <4>2
    <3>2. ASSUME NEW i \in DOMAIN rest PROVE at[i].key = rest[i]
      <4>1. i + 1 \in DOMAIN path /\ i \in 1..Len(at)
        BY <1>2, <1>3, <3>1
      <4>2. up[i + 1].key = path[i + 1]
        BY <2>1, <4>1 DEF AtOrBelow
      <4> QED
        BY <1>1, <1>2, <1>3, <4>1, <4>2
    <3> QED
      BY <3>1, <3>2 DEF AtOrBelow
  <2>2. ASSUME s.key = path[1], AtOrBelow(at, rest) PROVE AtOrBelow(up, path)
    <3>1. Len(path) <= Len(up)
      BY <1>1, <1>2, <2>2 DEF AtOrBelow
    <3>2. ASSUME NEW i \in DOMAIN path PROVE up[i].key = path[i]
      <4>1. CASE i = 1
        BY <1>1, <2>2, <4>1
      <4>2. CASE i # 1
        <5>1. i - 1 \in DOMAIN rest /\ i - 1 \in 1..Len(at) /\ (i - 1) + 1 = i
          BY <1>1, <1>2, <1>3, <2>2, <4>2 DEF AtOrBelow
        <5>2. at[i - 1].key = rest[i - 1]
          BY <2>2, <5>1 DEF AtOrBelow
        <5> QED
          BY <1>1, <1>2, <1>3, <5>1, <5>2
      <4> QED
        BY <4>1, <4>2
    <3> QED
      BY <3>1, <3>2 DEF AtOrBelow
  <2> QED
    BY <2>1, <2>2
<1>5. Put(s, l).at = up
  BY DEF Put, up, at
<1> QED
  BY <1>2, <1>4, <1>5 DEF rest, at

LEMMA AllBelowNothing ==
    ASSUME NEW at \in Seq(Spot), NEW path \in Path
    PROVE  /\ AtOrBelow(at, << >>)
           /\ AtOrBelow(<< >>, path) <=> path = << >>
<1>1. Len(path) \in Nat /\ (Len(path) = 0 <=> path = << >>) /\ Len(at) \in Nat /\ Len(<< >>) = 0
  BY EmptySeq, LenProperties DEF Path
<1> QED
  BY <1>1 DEF AtOrBelow

\* The texts of a value, from those of its members.
LEMMA LeavesByKind ==
    ASSUME NEW V, Nil \notin V, NEW L, NEW v \in Flat \cup Nested(V), \A w \in V : L[w] \subseteq Leaf
    PROVE  /\ LeavesWithin(L, v) \subseteq Leaf
           /\ v = Null => LeavesWithin(L, v) = {}
           /\ v.kind = "text" => LeavesWithin(L, v) = {[at |-> << >>, is |-> v.is]}
           /\ v.kind = "obj" =>
                 \A x : x \in LeavesWithin(L, v) <=>
                        \E k \in FieldName : v.of[k] # Nil /\ \E l \in L[v.of[k]] : x = Put(Place("obj", k), l)
           /\ v.kind = "arr" =>
                 \A x : x \in LeavesWithin(L, v) <=>
                        \E i \in DOMAIN v.of : \E l \in L[v.of[i]] : x = Put(Place("arr", i), l)
<1> USE ValueKinds
<1>1. CASE v = Null
  BY <1>1 DEF LeavesWithin, Null
<1>2. CASE v.kind = "text"
  <2>1. LeavesWithin(L, v) = {[at |-> << >>, is |-> v.is]} /\ v.is \in Scalar /\ v # Null
    BY <1>2 DEF LeavesWithin
  <2> QED
    BY <1>2, <2>1 DEF Leaf
<1>3. CASE v.kind = "obj"
  <2>1. v.of \in [FieldName -> V \cup {Nil}] /\ v # Null
    BY <1>3
  <2>2. LeavesWithin(L, v) = UNION {{Put(Place("obj", k), l) : l \in L[v.of[k]]} :
                                        k \in {i \in DOMAIN v.of : v.of[i] # Nil}}
    BY <1>3 DEF LeavesWithin, Put
  <2>3. \A x : x \in LeavesWithin(L, v) <=>
               \E k \in FieldName : v.of[k] # Nil /\ \E l \in L[v.of[k]] : x = Put(Place("obj", k), l)
    BY <2>1, <2>2
  <2>4. ASSUME NEW x \in LeavesWithin(L, v) PROVE x \in Leaf
    <3>1. PICK k \in FieldName : v.of[k] # Nil /\ \E l \in L[v.of[k]] : x = Put(Place("obj", k), l)
      BY <2>3
    <3>2. v.of[k] \in V /\ Place("obj", k) \in Spot
      BY <2>1, <3>1 DEF Place, Spot
    <3> QED
      BY <3>1, <3>2, PutLeaf
  <2> QED
    BY <1>3, <2>1, <2>3, <2>4
<1>4. CASE v.kind = "arr"
  <2>1. v.of \in Seq(V) /\ v # Null /\ DOMAIN v.of = 1..Len(v.of) /\ \A i \in DOMAIN v.of : v.of[i] \in V
    BY <1>4, LenProperties, ElementOfSeq
  <2>2. LeavesWithin(L, v) = UNION {{Put(Place("arr", k), l) : l \in L[v.of[k]]} :
                                        k \in {i \in DOMAIN v.of : v.of[i] # Nil}}
    BY <1>4 DEF LeavesWithin, Put
  <2>3. \A x : x \in LeavesWithin(L, v) <=>
               \E i \in DOMAIN v.of : \E l \in L[v.of[i]] : x = Put(Place("arr", i), l)
    BY <2>1, <2>2
  <2>4. ASSUME NEW x \in LeavesWithin(L, v) PROVE x \in Leaf
    <3>1. PICK i \in DOMAIN v.of : \E l \in L[v.of[i]] : x = Put(Place("arr", i), l)
      BY <2>3
    <3>2. v.of[i] \in V /\ Place("arr", i) \in Spot
      BY <2>1 DEF Place, Spot
    <3> QED
      BY <3>1, <3>2, PutLeaf
  <2> QED
    BY <1>4, <2>1, <2>3, <2>4
<1> QED
  BY <1>1, <1>2, <1>3, <1>4

-----------------------------------------------------------------------------
(* Parts: what is left of a value when some of its keys, and the contents  *)
(* of some elements of its arrays, are left out.                           *)

\* R[w] are the parts of a value w one level below.
IsPart(R, p, v) ==
    \/ p = Null
    \/ p.kind = "text" /\ p = v
    \/ /\ p.kind = "obj" /\ v.kind = "obj"
       /\ \A k \in FieldName : p.of[k] # Nil => v.of[k] # Nil /\ p.of[k] \in R[v.of[k]]
    \/ /\ p.kind = "arr" /\ v.kind = "arr" /\ DOMAIN p.of = DOMAIN v.of
       /\ \A i \in DOMAIN p.of : p.of[i] \in R[v.of[i]]

\* What is known of the values one level below: their texts are leaves, a null
\* has none, and it is a part of any value, as the value itself is.
KnownBelow(V, L, R) ==
    /\ Nil \notin V
    /\ V # {} => Null \in V /\ L[Null] = {}
    /\ \A w \in V : L[w] \subseteq Leaf /\ R[w] \subseteq V /\ {w, Null} \subseteq R[w]

LEMMA PartOfItself ==
    ASSUME NEW V, NEW L, NEW R, KnownBelow(V, L, R), NEW v \in Flat \cup Nested(V)
    PROVE  IsPart(R, v, v)
<1>1. CASE v.kind = "obj"
  <2>1. v.of \in [FieldName -> V \cup {Nil}]
    BY <1>1, ValueKinds
  <2>2. \A k \in FieldName : v.of[k] # Nil => v.of[k] \in V
    BY <2>1
  <2> QED
    BY <1>1, <2>2 DEF IsPart, KnownBelow
<1>2. CASE v.kind = "arr"
  <2>1. v.of \in Seq(V)
    BY <1>2, ValueKinds
  <2>2. \A i \in DOMAIN v.of : v.of[i] \in V
    BY <2>1, LenProperties, ElementOfSeq
  <2> QED
    BY <1>2, <2>2 DEF IsPart, KnownBelow
<1> QED
  BY <1>1, <1>2, ValueKinds DEF IsPart

\* What a projection should be: found unless nothing is at the path, a part of
\* the value with the texts that are below the path.
RightlyFound(V, L, R, v, path, f) ==
    IF f = Nil THEN BelowOf(LeavesWithin(L, v), path) = {}
    ELSE /\ f \in Flat \cup Nested(V) /\ IsPart(R, f, v)
         /\ LeavesWithin(L, f) = BelowOf(LeavesWithin(L, v), path)
         /\ v.kind = "obj" => f.kind = "obj"

LEMMA ProjectLevel ==
    ASSUME NEW V, NEW L, NEW R, NEW P, KnownBelow(V, L, R), "[]" \notin FieldName,
           Nil \notin Flat \cup Nested(V),
           \A w \in V, p \in Path :
              IF P[w][p] = Nil THEN BelowOf(L[w], p) = {}
              ELSE /\ P[w][p] \in V /\ P[w][p] \in R[w]
                   /\ L[P[w][p]] = BelowOf(L[w], p),
           NEW v \in Flat \cup Nested(V), NEW path \in Path
    PROVE  RightlyFound(V, L, R, v, path, ProjectWithin(P, v, path))
<1> DEFINE f == ProjectWithin(P, v, path)
           h == Head(path)
           rest == Tail(path)
<1>0. \A w \in V : L[w] \subseteq Leaf
  BY DEF KnownBelow
<1>1. CASE path = << >>
  <2>1. f = v /\ v # Nil
    BY <1>1 DEF ProjectWithin
  <2>2. LeavesWithin(L, v) \subseteq Leaf
    BY <1>0, LeavesByKind DEF KnownBelow
  <2>3. \A l \in LeavesWithin(L, v) : AtOrBelow(l.at, path)
    BY <1>1, <2>2, AllBelowNothing DEF Leaf
  <2>4. LeavesWithin(L, v) = BelowOf(LeavesWithin(L, v), path)
    BY <2>3 DEF BelowOf
  <2>5. IsPart(R, v, v)
    BY PartOfItself
  <2> QED
    BY <2>1, <2>4, <2>5 DEF RightlyFound
<1>2. CASE path # << >> /\ v = Null
  <2>1. f = Null /\ Null.kind # "obj"
    BY <1>2 DEF ProjectWithin, Null
  <2>2. LeavesWithin(L, v) = {}
    BY <1>0, <1>2, LeavesByKind DEF KnownBelow
  <2>3. v # Nil
    OBVIOUS
  <2> QED
    BY <1>2, <2>1, <2>2, <2>3 DEF RightlyFound, BelowOf, IsPart
<1>3. CASE path # << >> /\ v.kind = "text"
  <2>1. v # Null /\ v.kind # "arr" /\ v.kind # "obj"
    BY <1>3, ValueKinds
  <2>2. f = Nil
    BY <1>3, <2>1 DEF ProjectWithin
  <2>3. LeavesWithin(L, v) = {[at |-> << >>, is |-> v.is]}
    BY <1>0, <1>3, LeavesByKind DEF KnownBelow
  <2>4. ~ AtOrBelow(<< >>, path)
    BY <1>3, AllBelowNothing, << >> \in Seq(Spot), EmptySeq
  <2> QED
    BY <2>2, <2>3, <2>4 DEF RightlyFound, BelowOf
<1>4. CASE path # << >> /\ v.kind = "obj"
  <2>1. /\ v.of \in [FieldName -> V \cup {Nil}] /\ v # Null
        /\ rest \in Path /\ h \in FieldName \cup {"[]"}
    BY <1>4, ValueKinds, HeadTailProperties DEF Path
  <2>2. \A x : x \in LeavesWithin(L, v) <=>
               \E k \in FieldName : v.of[k] # Nil /\ \E l \in L[v.of[k]] : x = Put(Place("obj", k), l)
    BY <1>0, <1>4, LeavesByKind DEF KnownBelow
  <2>3. \A k \in FieldName : \A l : v.of[k] # Nil /\ l \in L[v.of[k]] =>
            (AtOrBelow(Put(Place("obj", k), l).at, path) <=> k = h /\ AtOrBelow(l.at, rest))
    <3> SUFFICES ASSUME NEW k \in FieldName, NEW l, v.of[k] # Nil, l \in L[v.of[k]]
                 PROVE  AtOrBelow(Put(Place("obj", k), l).at, path) <=> k = h /\ AtOrBelow(l.at, rest)
      OBVIOUS
    <3>1. l \in Leaf /\ Place("obj", k) \in Spot /\ Place("obj", k).key = k
      BY <1>0, <2>1 DEF Place, Spot
    <3> HIDE DEF h, rest
    <3> QED
      BY <1>4, <3>1, PutBelow DEF h, rest
  <2>4. CASE h = "[]"
    <3>1. f = Nil
      BY <1>4, <2>1, <2>4 DEF ProjectWithin
    <3>2. BelowOf(LeavesWithin(L, v), path) = {}
      BY <2>2, <2>3, <2>4 DEF BelowOf
    <3> QED
      BY <3>1, <3>2 DEF RightlyFound
  <2>5. CASE h # "[]" /\ v.of[h] = Nil
    <3>1. f = Nil
      BY <1>4, <2>1, <2>5 DEF ProjectWithin
    <3>2. BelowOf(LeavesWithin(L, v), path) = {}
      BY <2>2, <2>3, <2>5 DEF BelowOf
    <3> QED
      BY <3>1, <3>2 DEF RightlyFound
  <2>6. CASE h # "[]" /\ v.of[h] # Nil
    <3> DEFINE g == P[v.of[h]][rest]
               o == [k \in FieldName |-> IF k = h THEN g ELSE Nil]
    <3>1. h \in FieldName /\ v.of[h] \in V
      BY <2>1, <2>6
    <3>2. f = IF g = Nil THEN Nil ELSE Obj([k \in {h} |-> g])
      BY <1>4, <2>1, <2>6 DEF ProjectWithin
    <3>3. Obj([k \in {h} |-> g]) = Obj(o)
      <4>1. \A k \in FieldName : (IF k \in DOMAIN [j \in {h} |-> g] THEN [j \in {h} |-> g][k] ELSE Nil)
                                  = IF k \in DOMAIN o THEN o[k] ELSE Nil
        OBVIOUS
      <4> QED
        BY <4>1 DEF Obj
    <3>4. IF g = Nil THEN BelowOf(L[v.of[h]], rest) = {}
          ELSE g \in V /\ g \in R[v.of[h]] /\ L[g] = BelowOf(L[v.of[h]], rest)
      BY <2>1, <3>1
    <3>5. \A x : x \in BelowOf(LeavesWithin(L, v), path) <=>
                 \E l \in BelowOf(L[v.of[h]], rest) : x = Put(Place("obj", h), l)
      BY <2>2, <2>3, <2>6, <3>1 DEF BelowOf
    <3>6. CASE g = Nil
      BY <3>2, <3>4, <3>5, <3>6 DEF RightlyFound
    <3>7. CASE g # Nil
      <4>1. o \in [FieldName -> V \cup {Nil}]
        BY <3>4, <3>7
      <4>2. f = Obj(o) /\ f.kind = "obj" /\ f.of = o /\ f \in Flat \cup Nested(V)
        BY <3>2, <3>3, <3>7, <4>1, ObjectMade, SMTT(30)
      <4>3. \A x : x \in LeavesWithin(L, f) <=>
                   \E k \in FieldName : o[k] # Nil /\ \E l \in L[o[k]] : x = Put(Place("obj", k), l)
        <5> HIDE DEF o, f, g
        <5> QED
          BY <1>0, <4>2, LeavesByKind DEF KnownBelow
      <4>4. o[h] = g /\ \A k \in FieldName : o[k] # Nil => k = h
        BY <3>1
      <4>5. \A x : x \in LeavesWithin(L, f) <=> \E l \in L[g] : x = Put(Place("obj", h), l)
        <5> HIDE DEF o, f, g
        <5> QED
          BY <3>1, <3>7, <4>3, <4>4
      <4>6. LeavesWithin(L, f) = BelowOf(LeavesWithin(L, v), path)
        <5>1. \A x : x \in LeavesWithin(L, f) <=> x \in BelowOf(LeavesWithin(L, v), path)
          <6> HIDE DEF o, f, g
          <6> QED
            BY <3>4, <3>5, <3>7, <4>5
        <5>2. \A x \in BelowOf(LeavesWithin(L, v), path) : x \in LeavesWithin(L, v)
          BY DEF BelowOf
        <5> HIDE DEF o, f, g
        <5> QED
          BY <5>1, <5>2
      <4>7. IsPart(R, f, v)
        <5> HIDE DEF o, f, g
        <5> QED
          BY <1>4, <2>6, <3>4, <3>7, <4>2, <4>4 DEF IsPart
      <4>8. f # Nil
        BY <4>2
      <4> QED
        BY <4>2, <4>6, <4>7, <4>8 DEF RightlyFound
    <3> QED
      BY <3>6, <3>7
  <2> QED
    BY <2>4, <2>5, <2>6
<1>5. CASE path # << >> /\ v.kind = "arr"
  <2> DEFINE found == [i \in DOMAIN v.of |-> P[v.of[i]][rest]]
             s == [i \in DOMAIN v.of |-> IF found[i] = Nil THEN Null ELSE found[i]]
  <2>1. /\ v.of \in Seq(V) /\ v # Null /\ v.kind # "obj"
        /\ rest \in Path /\ h \in FieldName \cup {"[]"}
    BY <1>5, ValueKinds, HeadTailProperties DEF Path
  <2>2. \A x : x \in LeavesWithin(L, v) <=>
               \E i \in DOMAIN v.of : \E l \in L[v.of[i]] : x = Put(Place("arr", i), l)
    BY <1>0, <1>5, LeavesByKind DEF KnownBelow
  <2>3. /\ DOMAIN v.of = 1..Len(v.of) /\ Len(v.of) \in Nat
        /\ \A i \in DOMAIN v.of : v.of[i] \in V /\ i \in Nat
    BY <2>1, LenProperties, ElementOfSeq
  <2>4. \A i \in DOMAIN v.of : \A l : l \in L[v.of[i]] =>
            (AtOrBelow(Put(Place("arr", i), l).at, path) <=> h = "[]" /\ AtOrBelow(l.at, rest))
    <3> SUFFICES ASSUME NEW i \in DOMAIN v.of, NEW l, l \in L[v.of[i]]
                 PROVE  AtOrBelow(Put(Place("arr", i), l).at, path) <=> h = "[]" /\ AtOrBelow(l.at, rest)
      OBVIOUS
    <3>1. l \in Leaf /\ Place("arr", i) \in Spot /\ Place("arr", i).key = "[]"
      BY <1>0, <2>3 DEF Place, Spot
    <3> HIDE DEF h, rest
    <3> QED
      BY <1>5, <3>1, PutBelow DEF h, rest
  <2>5. CASE h # "[]"
    <3>1. f = Nil
      BY <1>5, <2>1, <2>5 DEF ProjectWithin
    <3>2. BelowOf(LeavesWithin(L, v), path) = {}
      BY <2>2, <2>4, <2>5 DEF BelowOf
    <3> QED
      BY <3>1, <3>2 DEF RightlyFound
  <2>6. CASE h = "[]"
    <3>1. \A i \in DOMAIN v.of :
             IF found[i] = Nil THEN BelowOf(L[v.of[i]], rest) = {}
             ELSE found[i] \in V /\ found[i] \in R[v.of[i]] /\ L[found[i]] = BelowOf(L[v.of[i]], rest)
      BY <2>1, <2>3
    <3>2. \A x : x \in BelowOf(LeavesWithin(L, v), path) <=>
                 \E i \in DOMAIN v.of : \E l \in BelowOf(L[v.of[i]], rest) : x = Put(Place("arr", i), l)
      BY <2>2, <2>4, <2>6 DEF BelowOf
    <3>3. f = IF v.of # << >> /\ \A i \in DOMAIN found : found[i] = Nil THEN Nil
              ELSE Arr([i \in DOMAIN found |-> IF found[i] = Nil THEN Null ELSE found[i]])
      BY <1>5, <2>1, <2>6 DEF ProjectWithin
    <3>4. DOMAIN found = DOMAIN v.of
      OBVIOUS
    <3>5. f = IF v.of # << >> /\ \A i \in DOMAIN v.of : found[i] = Nil THEN Nil ELSE Arr(s)
      <4> HIDE DEF found
      <4> QED
        BY <3>3, <3>4
    <3> HIDE DEF f, found, rest
    <3>6. \A i \in DOMAIN v.of : s[i] \in V /\ s[i] \in R[v.of[i]] /\ L[s[i]] = BelowOf(L[v.of[i]], rest)
      BY <2>3, <3>1 DEF KnownBelow
    <3>9. DOMAIN s = DOMAIN v.of /\ s \in Seq(V)
      <4>1. s = [i \in 1..Len(v.of) |-> s[i]]
        BY <2>3
      <4> HIDE DEF s
      <4>2. s \in [1..Len(v.of) -> V]
        BY <2>3, <3>6, <4>1
      <4>3. s \in Seq(V)
        BY <2>3, <4>2, SeqDef
      <4> QED
        BY <2>3, <4>2, <4>3
    <3>7. CASE f = Nil
      <4>1. \A i \in DOMAIN v.of : found[i] = Nil
        <5>1. Arr(s) # Nil
          BY <3>9, ArrayMade
        <5> QED
          BY <3>5, <3>7, <5>1
      <4> QED
        BY <3>1, <3>2, <3>7, <4>1 DEF RightlyFound, f
    <3>8. CASE f # Nil
      <4>1. f = Arr(s)
        BY <3>5, <3>8
      <4>3. f \in Flat \cup Nested(V) /\ f.kind = "arr" /\ f.of = s
        BY <3>9, <4>1, ArrayMade
      <4>4. \A x : x \in LeavesWithin(L, f) <=>
                   \E i \in DOMAIN s : \E l \in L[s[i]] : x = Put(Place("arr", i), l)
        <5> HIDE DEF s
        <5> QED
          BY <1>0, <4>3, LeavesByKind DEF KnownBelow
      <4> HIDE DEF s
      <4>5. LeavesWithin(L, f) = BelowOf(LeavesWithin(L, v), path)
        <5>1. \A x : x \in LeavesWithin(L, f) <=> x \in BelowOf(LeavesWithin(L, v), path)
          BY <3>2, <3>6, <3>9, <4>4
        <5> QED
          BY <5>1
      <4>6. IsPart(R, f, v)
        BY <1>5, <3>6, <3>9, <4>3 DEF IsPart
      <4> QED
        BY <1>5, <3>8, <4>3, <4>5, <4>6 DEF RightlyFound, f
    <3> QED
      BY <3>7, <3>8
  <2> QED
    BY <2>5, <2>6
<1> QED
  BY <1>1, <1>2, <1>3, <1>4, <1>5, ValueKinds

\* What the merger of two parts of a value should be: a part of it with the
\* texts of both.
United(V, L, R, v, a, b, m) ==
    /\ m \in Flat \cup Nested(V) /\ IsPart(R, m, v)
    /\ LeavesWithin(L, m) = LeavesWithin(L, a) \cup LeavesWithin(L, b)
    /\ a.kind = "obj" /\ b.kind = "obj" => m.kind = "obj"

LEMMA MergeLevel ==
    ASSUME NEW V, NEW L, NEW R, NEW M, KnownBelow(V, L, R),
           \A w \in V : \A x, y \in R[w] : M[x][y] \in R[w] /\ L[M[x][y]] = L[x] \cup L[y],
           NEW v \in Flat \cup Nested(V),
           NEW a \in Flat \cup Nested(V), IsPart(R, a, v),
           NEW b \in Flat \cup Nested(V), IsPart(R, b, v)
    PROVE  United(V, L, R, v, a, b, MergeWithin(M, a, b))
<1> DEFINE m == MergeWithin(M, a, b)
<1>0. Nil \notin V /\ \A w \in V : L[w] \subseteq Leaf
  BY DEF KnownBelow
<1>1. CASE a = Null \/ b = Null
  <2>1. Null.kind = "null"
    BY DEF Null
  <2>2. m = IF b = Null THEN a ELSE b
    BY <1>1, <2>1 DEF MergeWithin
  <2>3. LeavesWithin(L, Null) = {}
    <3>1. Null \in Flat \cup Nested(V)
      BY DEF Flat
    <3> QED
      BY <1>0, <3>1, LeavesByKind
  <2>4. m = a \/ m = b
    BY <2>2
  <2>5. m \in Flat \cup Nested(V) /\ IsPart(R, m, v)
    <3> HIDE DEF m
    <3> QED
      BY <2>4
  <2>6. LeavesWithin(L, m) = LeavesWithin(L, a) \cup LeavesWithin(L, b)
    <3> HIDE DEF m
    <3> QED
      BY <1>1, <2>2, <2>3
  <2>7. ~ (a.kind = "obj" /\ b.kind = "obj")
    BY <1>1, <2>1
  <2> QED
    BY <2>5, <2>6, <2>7 DEF United
<1>2. CASE a # Null /\ a = b /\ a.kind = "text"
  <2>1. m = b
    BY <1>2 DEF MergeWithin
  <2>2. LeavesWithin(L, m) = LeavesWithin(L, a) \cup LeavesWithin(L, b)
    BY <1>2, <2>1
  <2>3. m \in Flat \cup Nested(V) /\ IsPart(R, m, v)
    BY <2>1
  <2> QED
    BY <1>2, <2>2, <2>3 DEF United
<1>3. CASE a.kind = "obj" /\ b.kind = "obj"
  <2> DEFINE f == [k \in FieldName |-> IF b.of[k] = Nil THEN a.of[k]
                                       ELSE IF a.of[k] = Nil THEN b.of[k] ELSE M[a.of[k]][b.of[k]]]
  <2>1. m = Obj(f)
    BY <1>3 DEF MergeWithin
  <2>2. /\ a.of \in [FieldName -> V \cup {Nil}] /\ b.of \in [FieldName -> V \cup {Nil}]
        /\ a # Null /\ b # Null
    BY <1>3, ValueKinds
  <2>3. v.kind = "obj"
    BY <1>3, <2>2 DEF IsPart
  <2>4. v.of \in [FieldName -> V \cup {Nil}]
    BY <2>3, ValueKinds
  <2>5. \A k \in FieldName : /\ a.of[k] # Nil => v.of[k] \in V /\ a.of[k] \in R[v.of[k]]
                             /\ b.of[k] # Nil => v.of[k] \in V /\ b.of[k] \in R[v.of[k]]
    BY <1>3, <2>2, <2>4 DEF IsPart
  <2>6. \A k \in FieldName :
           /\ f[k] = Nil <=> a.of[k] = Nil /\ b.of[k] = Nil
           /\ f[k] # Nil => f[k] \in V /\ v.of[k] # Nil /\ f[k] \in R[v.of[k]]
           /\ \A l : f[k] # Nil /\ l \in L[f[k]] <=> \/ a.of[k] # Nil /\ l \in L[a.of[k]]
                                                     \/ b.of[k] # Nil /\ l \in L[b.of[k]]
    <3> SUFFICES ASSUME NEW k \in FieldName
                 PROVE  /\ f[k] = Nil <=> a.of[k] = Nil /\ b.of[k] = Nil
                        /\ f[k] # Nil => f[k] \in V /\ v.of[k] # Nil /\ f[k] \in R[v.of[k]]
                        /\ \A l : f[k] # Nil /\ l \in L[f[k]] <=> \/ a.of[k] # Nil /\ l \in L[a.of[k]]
                                                                  \/ b.of[k] # Nil /\ l \in L[b.of[k]]
      OBVIOUS
    <3>1. f[k] = IF b.of[k] = Nil THEN a.of[k]
                 ELSE IF a.of[k] = Nil THEN b.of[k] ELSE M[a.of[k]][b.of[k]]
      OBVIOUS
    <3> HIDE DEF f
    <3>2. CASE a.of[k] = Nil \/ b.of[k] = Nil
      BY <1>0, <2>2, <2>5, <3>1, <3>2
    <3>3. CASE a.of[k] # Nil /\ b.of[k] # Nil
      <4>1. f[k] = M[a.of[k]][b.of[k]] /\ v.of[k] \in V /\ a.of[k] \in R[v.of[k]] /\ b.of[k] \in R[v.of[k]]
        BY <2>5, <3>1, <3>3
      <4> DEFINE w == v.of[k]
                 x == a.of[k]
                 y == b.of[k]
      <4>5. w \in V /\ x \in R[w] /\ y \in R[w]
        BY <4>1
      <4>6. f[k] = M[x][y]
        BY <4>1
      <4> HIDE DEF w, x, y
      <4>8. \A p, q \in R[w] : M[p][q] \in R[w] /\ L[M[p][q]] = L[p] \cup L[q]
        BY <4>5
      <4>7. M[x][y] \in R[w] /\ L[M[x][y]] = L[x] \cup L[y]
        BY <4>5, <4>8
      <4>2. f[k] \in R[v.of[k]] /\ L[f[k]] = L[a.of[k]] \cup L[b.of[k]]
        BY <4>6, <4>7 DEF w, x, y
      <4>3. f[k] \in V
        BY <4>1, <4>2 DEF KnownBelow
      <4> QED
        BY <1>0, <2>5, <3>3, <4>1, <4>2, <4>3
    <3> QED
      BY <3>2, <3>3
  <2>7. f \in [FieldName -> V \cup {Nil}]
    <3>1. f = [k \in FieldName |-> f[k]]
      OBVIOUS
    <3>2. \A k \in FieldName : f[k] \in V \cup {Nil}
      BY <2>6
    <3> HIDE DEF f
    <3> QED
      BY <3>1, <3>2
  <2> HIDE DEF f, m
  <2>8. m.kind = "obj" /\ m.of = f /\ m \in Flat \cup Nested(V)
    BY <2>1, <2>7, ObjectMade
  <2>9. IsPart(R, m, v)
    BY <2>3, <2>6, <2>8 DEF IsPart
  <2>10. \A x : x \in LeavesWithin(L, m) <=>
                \E k \in FieldName : f[k] # Nil /\ \E l \in L[f[k]] : x = Put(Place("obj", k), l)
    BY <1>0, <2>8, LeavesByKind
  <2>11. \A x : x \in LeavesWithin(L, a) <=>
                \E k \in FieldName : a.of[k] # Nil /\ \E l \in L[a.of[k]] : x = Put(Place("obj", k), l)
    BY <1>0, <1>3, LeavesByKind
  <2>12. \A x : x \in LeavesWithin(L, b) <=>
                \E k \in FieldName : b.of[k] # Nil /\ \E l \in L[b.of[k]] : x = Put(Place("obj", k), l)
    BY <1>0, <1>3, LeavesByKind
  <2>13. \A x : x \in LeavesWithin(L, m) <=> x \in LeavesWithin(L, a) \cup LeavesWithin(L, b)
    <3>1. ASSUME NEW x, x \in LeavesWithin(L, m) PROVE x \in LeavesWithin(L, a) \cup LeavesWithin(L, b)
      <4>1. PICK k \in FieldName : f[k] # Nil /\ \E l \in L[f[k]] : x = Put(Place("obj", k), l)
        BY <2>10, <3>1
      <4>2. PICK l \in L[f[k]] : x = Put(Place("obj", k), l)
        BY <4>1
      <4>3. (a.of[k] # Nil /\ l \in L[a.of[k]]) \/ (b.of[k] # Nil /\ l \in L[b.of[k]])
        BY <2>6, <4>1
      <4> QED
        BY <2>11, <2>12, <4>2, <4>3
    <3>2. ASSUME NEW x, x \in LeavesWithin(L, a) PROVE x \in LeavesWithin(L, m)
      <4>1. PICK k \in FieldName : a.of[k] # Nil /\ \E l \in L[a.of[k]] : x = Put(Place("obj", k), l)
        BY <2>11, <3>2
      <4>2. PICK l \in L[a.of[k]] : x = Put(Place("obj", k), l)
        BY <4>1
      <4>3. f[k] # Nil /\ l \in L[f[k]]
        BY <2>6, <4>1
      <4> QED
        BY <2>10, <4>2, <4>3
    <3>3. ASSUME NEW x, x \in LeavesWithin(L, b) PROVE x \in LeavesWithin(L, m)
      <4>1. PICK k \in FieldName : b.of[k] # Nil /\ \E l \in L[b.of[k]] : x = Put(Place("obj", k), l)
        BY <2>12, <3>3
      <4>2. PICK l \in L[b.of[k]] : x = Put(Place("obj", k), l)
        BY <4>1
      <4>3. f[k] # Nil /\ l \in L[f[k]]
        BY <2>6, <4>1
      <4> QED
        BY <2>10, <4>2, <4>3
    <3> QED
      BY <3>1, <3>2, <3>3
  <2> QED
    BY <2>8, <2>9, <2>13 DEF United, m
<1>4. CASE a.kind = "arr" /\ b.kind = "arr"
  <2> DEFINE s == [i \in DOMAIN a.of \cup DOMAIN b.of |->
                      IF i \notin DOMAIN b.of THEN a.of[i]
                      ELSE IF i \notin DOMAIN a.of \/ a.of[i] = Null THEN b.of[i]
                      ELSE IF b.of[i] = Null THEN a.of[i] ELSE M[a.of[i]][b.of[i]]]
  <2>1. m = Arr(s)
    BY <1>4 DEF MergeWithin
  <2>2. a.of \in Seq(V) /\ b.of \in Seq(V) /\ a # Null /\ b # Null
    BY <1>4, ValueKinds
  <2>3. v.kind = "arr" /\ DOMAIN a.of = DOMAIN v.of /\ DOMAIN b.of = DOMAIN v.of
    BY <1>4, <2>2 DEF IsPart
  <2>4. v.of \in Seq(V)
    BY <2>3, ValueKinds
  <2>5. /\ DOMAIN v.of = 1..Len(v.of) /\ Len(v.of) \in Nat
        /\ \A i \in DOMAIN v.of : v.of[i] \in V
    BY <2>4, LenProperties, ElementOfSeq
  <2>6. \A i \in DOMAIN v.of : a.of[i] \in R[v.of[i]] /\ b.of[i] \in R[v.of[i]]
    BY <1>4, <2>2, <2>3 DEF IsPart
  <2>7. \A i \in DOMAIN v.of :
           s[i] = IF a.of[i] = Null THEN b.of[i]
                  ELSE IF b.of[i] = Null THEN a.of[i] ELSE M[a.of[i]][b.of[i]]
    BY <2>3
  <2>8. s = [i \in 1..Len(v.of) |-> s[i]]
    BY <2>3, <2>5
  <2> HIDE DEF s, m
  <2>9. \A i \in DOMAIN v.of :
           s[i] \in V /\ s[i] \in R[v.of[i]] /\ L[s[i]] = L[a.of[i]] \cup L[b.of[i]]
    <3> SUFFICES ASSUME NEW i \in DOMAIN v.of
                 PROVE  s[i] \in V /\ s[i] \in R[v.of[i]] /\ L[s[i]] = L[a.of[i]] \cup L[b.of[i]]
      OBVIOUS
    <3>1. /\ v.of[i] \in V /\ a.of[i] \in R[v.of[i]] /\ b.of[i] \in R[v.of[i]]
          /\ R[v.of[i]] \subseteq V /\ L[Null] = {}
      BY <2>5, <2>6 DEF KnownBelow
    <3> DEFINE w == v.of[i]
               x == a.of[i]
               y == b.of[i]
    <3>2. s[i] \in R[w] /\ L[s[i]] = L[x] \cup L[y]
      <4>1. w \in V /\ x \in R[w] /\ y \in R[w] /\ L[Null] = {}
        BY <3>1
      <4>2. s[i] = IF x = Null THEN y ELSE IF y = Null THEN x ELSE M[x][y]
        BY <2>7
      <4> HIDE DEF w, x, y
      <4>3. M[x][y] \in R[w] /\ L[M[x][y]] = L[x] \cup L[y]
        BY <4>1, ZenonT(60)
      <4> QED
        BY <4>1, <4>2, <4>3
    <3> QED
      BY <3>1, <3>2
  <2>10. s \in Seq(V) /\ DOMAIN s = DOMAIN v.of
    <3>1. s \in [1..Len(v.of) -> V]
      BY <2>5, <2>8, <2>9
    <3> QED
      BY <2>5, <3>1, SeqDef
  <2>11. m.kind = "arr" /\ m.of = s /\ m \in Flat \cup Nested(V)
    BY <2>1, <2>10, ArrayMade
  <2>12. IsPart(R, m, v)
    BY <2>3, <2>9, <2>10, <2>11 DEF IsPart
  <2>13. \A x : x \in LeavesWithin(L, m) <=>
                \E i \in DOMAIN v.of : \E l \in L[s[i]] : x = Put(Place("arr", i), l)
    BY <1>0, <2>10, <2>11, LeavesByKind
  <2>14. \A x : x \in LeavesWithin(L, a) <=>
                \E i \in DOMAIN v.of : \E l \in L[a.of[i]] : x = Put(Place("arr", i), l)
    BY <1>0, <1>4, <2>3, LeavesByKind
  <2>15. \A x : x \in LeavesWithin(L, b) <=>
                \E i \in DOMAIN v.of : \E l \in L[b.of[i]] : x = Put(Place("arr", i), l)
    BY <1>0, <1>4, <2>3, LeavesByKind
  <2>16. \A x : x \in LeavesWithin(L, m) <=> x \in LeavesWithin(L, a) \cup LeavesWithin(L, b)
    BY <2>9, <2>13, <2>14, <2>15
  <2> QED
    BY <1>4, <2>11, <2>12, <2>16 DEF United, m
<1> QED
  <2>1. a.kind = "text" => a = v
    BY ValueKinds DEF IsPart, Null
  <2>2. b.kind = "text" => b = v
    BY ValueKinds DEF IsPart, Null
  <2>3. a.kind = "obj" => v.kind = "obj"
    BY ValueKinds DEF IsPart
  <2>4. b.kind = "obj" => v.kind = "obj"
    BY ValueKinds DEF IsPart
  <2>5. a.kind = "arr" => v.kind = "arr"
    BY ValueKinds DEF IsPart
  <2>6. b.kind = "arr" => v.kind = "arr"
    BY ValueKinds DEF IsPart
  <2>7. a.kind \in {"null", "text", "obj", "arr"} /\ (a.kind = "null" <=> a = Null)
    BY ValueKinds
  <2>8. b.kind \in {"null", "text", "obj", "arr"} /\ (b.kind = "null" <=> b = Null)
    BY ValueKinds
  <2> HIDE DEF m
  <2> QED
    BY <1>1, <1>2, <1>3, <1>4, <2>1, <2>2, <2>3, <2>4, <2>5, <2>6, <2>7, <2>8 DEF m

-----------------------------------------------------------------------------
(* Every level: from what holds one level below.                           *)

LevelBelow(f, d) == IF d = 0 THEN << >> ELSE f[d - 1]

PartsWithin(d, R, v) == {p \in Json[d] : IsPart(R, p, v)}

\* The parts of every value of every level.
Parts[d \in Depth] ==
    [v \in Json[d] |-> PartsWithin(d, IF d = 0 THEN << >> ELSE Parts[d - 1], v)]

\* The parts are defined at every depth.
LEMMA PartsDef ==
    Parts = [d \in Depth |-> [v \in Json[d] |-> PartsWithin(d, IF d = 0 THEN << >> ELSE Parts[d - 1], v)]]
<1> DEFINE Level(d, within) == [v \in Json[d] |-> PartsWithin(d, within, v)]
           Fits(f, n) == f = [d \in 0..n |-> Level(d, IF d = 0 THEN << >> ELSE f[d - 1])]
           S == {n \in Depth : \E f : Fits(f, n)}
<1> HIDE DEF Level
<1>1. MaxNesting \in Nat /\ Depth = 0..MaxNesting
  BY ShapeAssumption DEF Depth
<1>2. 0 \in S
  <2> DEFINE f == [d \in 0..0 |-> Level(0, << >>)]
  <2>1. Fits(f, 0)
    OBVIOUS
  <2> HIDE DEF f
  <2> QED
    BY <1>1, <2>1
<1>3. ASSUME NEW n \in Depth, n < MaxNesting, n \in S PROVE n + 1 \in S
  <2>1. PICK f : Fits(f, n)
    BY <1>3
  <2> DEFINE g == [d \in 0..(n + 1) |-> IF d <= n THEN f[d] ELSE Level(n + 1, f[n])]
  <2>2. \A d \in 0..n : f[d] = Level(d, IF d = 0 THEN << >> ELSE f[d - 1])
    <3> HIDE DEF S
    <3> QED
      BY <2>1
  <2>3. \A d \in 0..(n + 1) : g[d] = Level(d, IF d = 0 THEN << >> ELSE g[d - 1])
    <3> HIDE DEF Fits, S
    <3> QED
      BY <1>1, <2>2
  <2>4. Fits(g, n + 1)
    <3>1. g = [d \in 0..(n + 1) |-> g[d]]
      OBVIOUS
    <3> HIDE DEF g, S
    <3> QED
      BY <2>3, <3>1
  <2> HIDE DEF g, Fits
  <2> QED
    BY <1>1, <1>3, <2>4
<1>4. MaxNesting \in S
  <2> HIDE DEF S
  <2>1. \A n \in 0..MaxNesting : n < MaxNesting /\ n \in S => n + 1 \in S
    BY <1>1, <1>3
  <2>2. \A n \in 0..MaxNesting : n \in S
    BY <1>1, <1>2, <2>1, Induction
  <2> QED
    BY <1>1, <2>2
<1>5. \E f : Fits(f, MaxNesting)
  BY <1>4
<1>6. \E f : f = [d \in Depth |-> [v \in Json[d] |-> PartsWithin(d, IF d = 0 THEN << >> ELSE f[d - 1], v)]]
  BY <1>1, <1>5 DEF Level
<1> QED
  BY <1>6, Zenon DEF Parts

LEMMA LeavesLevel ==
    ASSUME NEW d \in Depth, NEW v \in Json[d]
    PROVE  LeavesOf[d][v] = LeavesWithin(LevelBelow(LeavesOf, d), v)
<1>1. LeavesOf[d] = [w \in Json[d] |-> LeavesWithin(LevelBelow(LeavesOf, d), w)]
  BY LeavesOfDef, Zenon DEF LevelBelow
<1> QED
  BY <1>1, Zenon

LEMMA PartsLevel ==
    ASSUME NEW d \in Depth, NEW v \in Json[d]
    PROVE  /\ \A p : p \in Parts[d][v] <=> p \in Json[d] /\ IsPart(LevelBelow(Parts, d), p, v)
           /\ Parts[d][v] \subseteq Json[d]
<1>1. Parts[d][v] = PartsWithin(d, LevelBelow(Parts, d), v)
  <2>1. Parts[d] = [w \in Json[d] |-> PartsWithin(d, LevelBelow(Parts, d), w)]
    BY PartsDef, Zenon DEF LevelBelow
  <2> QED
    BY <2>1, Zenon
<1> QED
  BY <1>1 DEF PartsWithin

KnownAt(d) == KnownBelow(Members(d), LevelBelow(LeavesOf, d), LevelBelow(Parts, d))

LEMMA Depths ==
    /\ MaxNesting \in Nat /\ Depth = 0..MaxNesting /\ MaxNesting \in Depth /\ 0 \in Depth
    /\ \A d \in Depth : d < MaxNesting =>
          /\ d + 1 \in Depth /\ Members(d + 1) = Json[d]
          /\ \A f : LevelBelow(f, d + 1) = f[d]
<1>1. MaxNesting \in Nat
  BY ShapeAssumption
<1> QED
  BY <1>1 DEF Depth, Members, LevelBelow

\* What is known of the members of a value holds at every level.
LEMMA AllKnown == \A d \in Depth : KnownAt(d)
<1> DEFINE S == {d \in Depth : KnownAt(d)}
<1>1. 0 \in S
  BY Depths DEF KnownAt, KnownBelow, Members
<1>2. ASSUME NEW d \in Depth, d < MaxNesting, d \in S PROVE d + 1 \in S
  <2> DEFINE V == Members(d)
             L == LevelBelow(LeavesOf, d)
             R == LevelBelow(Parts, d)
  <2>1. KnownBelow(V, L, R)
    BY <1>2 DEF KnownAt
  <2>2. Json[d] = Flat \cup Nested(V) /\ Nil \notin Json[d]
    BY JsonLevel, ShapeAssumption
  <2>3. Nil \notin V /\ \A w \in V : L[w] \subseteq Leaf
    BY <2>1 DEF KnownBelow
  <2>4. Null \in Json[d]
    BY <2>2 DEF Flat
  <2> HIDE DEF V
  <2>5. \A w \in Json[d] : LeavesOf[d][w] \subseteq Leaf /\ (w = Null => LeavesOf[d][w] = {})
    <3> SUFFICES ASSUME NEW w \in Json[d]
                 PROVE  LeavesOf[d][w] \subseteq Leaf /\ (w = Null => LeavesOf[d][w] = {})
      OBVIOUS
    <3>1. LeavesOf[d][w] = LeavesWithin(L, w)
      BY LeavesLevel
    <3> HIDE DEF L
    <3> QED
      BY <2>2, <2>3, <3>1, LeavesByKind
  <2>6. \A w \in Json[d] : Parts[d][w] \subseteq Json[d] /\ {w, Null} \subseteq Parts[d][w]
    <3> SUFFICES ASSUME NEW w \in Json[d]
                 PROVE  Parts[d][w] \subseteq Json[d] /\ {w, Null} \subseteq Parts[d][w]
      OBVIOUS
    <3>1. \A p : p \in Parts[d][w] <=> p \in Json[d] /\ IsPart(R, p, w)
      BY PartsLevel
    <3> HIDE DEF L, R
    <3>2. IsPart(R, w, w)
      BY <2>1, <2>2, PartOfItself
    <3>3. IsPart(R, Null, w)
      BY DEF IsPart
    <3> QED
      BY <2>4, <3>1, <3>2, <3>3
  <2>7. KnownBelow(Json[d], LeavesOf[d], Parts[d])
    BY <2>2, <2>4, <2>5, <2>6 DEF KnownBelow
  <2> QED
    BY <1>2, <2>7, Depths DEF KnownAt
<1> HIDE DEF S
<1>3. \A d \in 0..MaxNesting : d < MaxNesting /\ d \in S => d + 1 \in S
  BY <1>2, Depths
<1>4. \A d \in 0..MaxNesting : d \in S
  BY <1>1, <1>3, Depths, Induction
<1> QED
  BY <1>4, Depths DEF S

\* The projections of a level are what they should be.
ProjectsAt(d) ==
    \A v \in Json[d], path \in Path :
        RightlyFound(Members(d), LevelBelow(LeavesOf, d), LevelBelow(Parts, d), v, path, Projected[d][v][path])

LEMMA ProjectedLevel ==
    ASSUME NEW d \in Depth, NEW v \in Json[d], NEW path \in Path
    PROVE  Projected[d][v][path] = ProjectWithin(LevelBelow(Projected, d), v, path)
<1>1. Projected[d] = [w \in Json[d] |-> [p \in Path |-> ProjectWithin(LevelBelow(Projected, d), w, p)]]
  BY ProjectedDef, Zenon DEF LevelBelow
<1>2. Projected[d][v] = [p \in Path |-> ProjectWithin(LevelBelow(Projected, d), v, p)]
  BY <1>1, Zenon
<1> QED
  BY <1>2, Zenon

\* ... in terms of the level itself.
LEMMA FoundAt ==
    ASSUME NEW d \in Depth, ProjectsAt(d), NEW v \in Json[d], NEW path \in Path,
           NEW f, f = Projected[d][v][path]
    PROVE  IF f = Nil THEN BelowOf(LeavesOf[d][v], path) = {}
           ELSE /\ f \in Json[d] /\ f \in Parts[d][v]
                /\ LeavesOf[d][f] = BelowOf(LeavesOf[d][v], path)
                /\ v.kind = "obj" => f.kind = "obj"
<1>1. RightlyFound(Members(d), LevelBelow(LeavesOf, d), LevelBelow(Parts, d), v, path, f)
  BY DEF ProjectsAt
<1>2. LeavesOf[d][v] = LeavesWithin(LevelBelow(LeavesOf, d), v)
  BY LeavesLevel
<1>3. CASE f = Nil
  BY <1>1, <1>2, <1>3 DEF RightlyFound
<1>4. CASE f # Nil
  <2>1. f \in Json[d]
    BY <1>1, <1>4, JsonLevel DEF RightlyFound
  <2>2. LeavesOf[d][f] = LeavesWithin(LevelBelow(LeavesOf, d), f)
    BY <2>1, LeavesLevel
  <2>3. f \in Parts[d][v]
    BY <1>1, <1>4, <2>1, PartsLevel DEF RightlyFound
  <2> QED
    BY <1>1, <1>2, <1>4, <2>1, <2>2, <2>3 DEF RightlyFound
<1> QED
  BY <1>3, <1>4

LEMMA AllProjected == \A d \in Depth : ProjectsAt(d)
<1> DEFINE S == {d \in Depth : ProjectsAt(d)}
<1>0. ASSUME NEW d \in Depth,
             \A w \in Members(d), p \in Path :
                 IF LevelBelow(Projected, d)[w][p] = Nil THEN BelowOf(LevelBelow(LeavesOf, d)[w], p) = {}
                 ELSE /\ LevelBelow(Projected, d)[w][p] \in Members(d)
                      /\ LevelBelow(Projected, d)[w][p] \in LevelBelow(Parts, d)[w]
                      /\ LevelBelow(LeavesOf, d)[LevelBelow(Projected, d)[w][p]] = BelowOf(LevelBelow(LeavesOf, d)[w], p)
      PROVE  d \in S
  <2> DEFINE V == Members(d)
             L == LevelBelow(LeavesOf, d)
             R == LevelBelow(Parts, d)
             P == LevelBelow(Projected, d)
  <2>1. KnownBelow(V, L, R)
    BY AllKnown DEF KnownAt
  <2>2. Json[d] = Flat \cup Nested(V) /\ Nil \notin Json[d] /\ "[]" \notin FieldName
    BY JsonLevel, ShapeAssumption
  <2>3. \A w \in V, p \in Path :
            IF P[w][p] = Nil THEN BelowOf(L[w], p) = {}
            ELSE P[w][p] \in V /\ P[w][p] \in R[w] /\ L[P[w][p]] = BelowOf(L[w], p)
    BY <1>0
  <2>4. \A v \in Json[d], path \in Path : Projected[d][v][path] = ProjectWithin(P, v, path)
    BY ProjectedLevel
  <2>5. ASSUME NEW v \in Json[d], NEW path \in Path
        PROVE  RightlyFound(V, L, R, v, path, Projected[d][v][path])
    <3>1. Projected[d][v][path] = ProjectWithin(P, v, path)
      BY <2>4
    <3>2. v \in Flat \cup Nested(V) /\ Nil \notin Flat \cup Nested(V)
      BY <2>2
    <3> HIDE DEF V, L, R, P
    <3>3. RightlyFound(V, L, R, v, path, ProjectWithin(P, v, path))
      BY <2>1, <2>2, <2>3, <3>2, ProjectLevel
    <3> QED
      BY <3>1, <3>3
  <2> QED
    BY <2>5 DEF ProjectsAt
<1>1. 0 \in S
  <2>1. Members(0) = {}
    BY DEF Members
  <2> QED
    BY <1>0, <2>1, Depths
<1>2. ASSUME NEW d \in Depth, d < MaxNesting, d \in S PROVE d + 1 \in S
  <2>1. /\ d + 1 \in Depth /\ Members(d + 1) = Json[d] /\ LevelBelow(Projected, d + 1) = Projected[d]
        /\ LevelBelow(LeavesOf, d + 1) = LeavesOf[d] /\ LevelBelow(Parts, d + 1) = Parts[d]
    BY <1>2, Depths
  <2>2. \A w \in Json[d], p \in Path :
            IF Projected[d][w][p] = Nil THEN BelowOf(LeavesOf[d][w], p) = {}
            ELSE /\ Projected[d][w][p] \in Json[d] /\ Projected[d][w][p] \in Parts[d][w]
                 /\ LeavesOf[d][Projected[d][w][p]] = BelowOf(LeavesOf[d][w], p)
    BY <1>2, FoundAt
  <2> HIDE DEF S
  <2> QED
    BY <1>0, <2>1, <2>2, ZenonT(60)
<1> HIDE DEF S
<1>3. \A d \in 0..MaxNesting : d < MaxNesting /\ d \in S => d + 1 \in S
  BY <1>2, Depths
<1>4. \A d \in 0..MaxNesting : d \in S
  BY <1>1, <1>3, Depths, Induction
<1> QED
  BY <1>4, Depths DEF S

\* The mergers of a level are what they should be.
MergesAt(d) ==
    \A v \in Json[d] : \A a, b \in Parts[d][v] :
        United(Members(d), LevelBelow(LeavesOf, d), LevelBelow(Parts, d), v, a, b, Merged[d][a][b])

LEMMA MergedLevel ==
    ASSUME NEW d \in Depth, NEW a \in Json[d], NEW b \in Json[d]
    PROVE  Merged[d][a][b] = MergeWithin(LevelBelow(Merged, d), a, b)
<1>1. Merged[d] = [x \in Json[d] |-> [y \in Json[d] |-> MergeWithin(LevelBelow(Merged, d), x, y)]]
  BY MergedDef, Zenon DEF LevelBelow
<1>2. Merged[d][a] = [y \in Json[d] |-> MergeWithin(LevelBelow(Merged, d), a, y)]
  BY <1>1, Zenon
<1> QED
  BY <1>2, Zenon

LEMMA UnitedAt ==
    ASSUME NEW d \in Depth, MergesAt(d), NEW v \in Json[d],
           NEW a \in Parts[d][v], NEW b \in Parts[d][v], NEW m, m = Merged[d][a][b]
    PROVE  /\ m \in Json[d] /\ m \in Parts[d][v]
           /\ LeavesOf[d][m] = LeavesOf[d][a] \cup LeavesOf[d][b]
           /\ a.kind = "obj" /\ b.kind = "obj" => m.kind = "obj"
<1>1. United(Members(d), LevelBelow(LeavesOf, d), LevelBelow(Parts, d), v, a, b, m)
  BY DEF MergesAt
<1>2. a \in Json[d] /\ b \in Json[d]
  BY PartsLevel
<1>3. m \in Json[d]
  BY <1>1, JsonLevel DEF United
<1>4. /\ LeavesOf[d][a] = LeavesWithin(LevelBelow(LeavesOf, d), a)
      /\ LeavesOf[d][b] = LeavesWithin(LevelBelow(LeavesOf, d), b)
      /\ LeavesOf[d][m] = LeavesWithin(LevelBelow(LeavesOf, d), m)
  BY <1>2, <1>3, LeavesLevel
<1>5. m \in Parts[d][v]
  BY <1>1, <1>3, PartsLevel DEF United
<1> QED
  BY <1>1, <1>3, <1>4, <1>5 DEF United

\* The mergers of the members of a value are.
Unites(V, L, R, M) ==
    \A w \in V : \A x, y \in R[w] : M[x][y] \in R[w] /\ L[M[x][y]] = L[x] \cup L[y]

LEMMA AllMerged == \A d \in Depth : MergesAt(d)
<1> DEFINE S == {d \in Depth : MergesAt(d)}
<1>0. ASSUME NEW d \in Depth,
             Unites(Members(d), LevelBelow(LeavesOf, d), LevelBelow(Parts, d), LevelBelow(Merged, d))
      PROVE  d \in S
  <2> DEFINE V == Members(d)
             L == LevelBelow(LeavesOf, d)
             R == LevelBelow(Parts, d)
             M == LevelBelow(Merged, d)
  <2>1. KnownBelow(V, L, R)
    BY AllKnown DEF KnownAt
  <2>2. Json[d] = Flat \cup Nested(V)
    BY JsonLevel
  <2>3. \A w \in V : \A x, y \in R[w] : M[x][y] \in R[w] /\ L[M[x][y]] = L[x] \cup L[y]
    BY <1>0 DEF Unites
  <2>4. ASSUME NEW v \in Json[d], NEW a \in Parts[d][v], NEW b \in Parts[d][v]
        PROVE  United(V, L, R, v, a, b, Merged[d][a][b])
    <3>1. a \in Json[d] /\ IsPart(R, a, v) /\ b \in Json[d] /\ IsPart(R, b, v)
      BY PartsLevel
    <3>2. Merged[d][a][b] = MergeWithin(M, a, b)
      BY <3>1, MergedLevel
    <3> HIDE DEF V, L, R, M
    <3>3. United(V, L, R, v, a, b, MergeWithin(M, a, b))
      BY <2>1, <2>2, <2>3, <3>1, MergeLevel
    <3> QED
      BY <3>2, <3>3
  <2> QED
    BY <2>4 DEF MergesAt
<1>1. 0 \in S
  <2>1. Unites(Members(0), LevelBelow(LeavesOf, 0), LevelBelow(Parts, 0), LevelBelow(Merged, 0))
    BY DEF Members, Unites
  <2> QED
    BY <1>0, <2>1, Depths
<1>2. ASSUME NEW d \in Depth, d < MaxNesting, d \in S PROVE d + 1 \in S
  <2>1. /\ d + 1 \in Depth /\ Members(d + 1) = Json[d] /\ LevelBelow(Merged, d + 1) = Merged[d]
        /\ LevelBelow(LeavesOf, d + 1) = LeavesOf[d] /\ LevelBelow(Parts, d + 1) = Parts[d]
    BY <1>2, Depths
  <2>2. Unites(Json[d], LeavesOf[d], Parts[d], Merged[d])
    <3> SUFFICES ASSUME NEW w \in Json[d], NEW x \in Parts[d][w], NEW y \in Parts[d][w]
                 PROVE  /\ Merged[d][x][y] \in Parts[d][w]
                        /\ LeavesOf[d][Merged[d][x][y]] = LeavesOf[d][x] \cup LeavesOf[d][y]
      BY DEF Unites
    <3> QED
      BY <1>2, UnitedAt
  <2>3. Unites(Members(d + 1), LevelBelow(LeavesOf, d + 1), LevelBelow(Parts, d + 1), LevelBelow(Merged, d + 1))
    BY <2>1, <2>2
  <2> HIDE DEF S
  <2> QED
    BY <1>0, <2>1, <2>3
<1> HIDE DEF S
<1>3. \A d \in 0..MaxNesting : d < MaxNesting /\ d \in S => d + 1 \in S
  BY <1>2, Depths
<1>4. \A d \in 0..MaxNesting : d \in S
  BY <1>1, <1>3, Depths, Induction
<1> QED
  BY <1>4, Depths DEF S

-----------------------------------------------------------------------------
(* Shape: the fields, one after the other.                                 *)

LEMMA GatheredDef ==
    ASSUME NEW data, NEW fields, Len(fields) \in Nat
    PROVE  Gathered(data, fields) =
               [n \in 0..Len(fields) |->
                   IF n = 0 THEN EmptyObject
                   ELSE WithField(data, fields[n], Gathered(data, fields)[n - 1])]
<1> DEFINE Fits(f, n) == f = [i \in 0..n |-> IF i = 0 THEN EmptyObject
                                             ELSE WithField(data, fields[i], f[i - 1])]
           S == {n \in 0..Len(fields) : \E f : Fits(f, n)}
<1>1. 0 \in S
  <2> DEFINE f == [i \in 0..0 |-> EmptyObject]
  <2>1. Fits(f, 0)
    OBVIOUS
  <2> HIDE DEF f
  <2> QED
    BY <2>1
<1>2. ASSUME NEW n \in 0..Len(fields), n < Len(fields), n \in S PROVE n + 1 \in S
  <2>1. PICK f : Fits(f, n)
    BY <1>2
  <2> DEFINE g == [i \in 0..(n + 1) |-> IF i <= n THEN f[i] ELSE WithField(data, fields[n + 1], f[n])]
  <2>2. \A i \in 0..n : f[i] = IF i = 0 THEN EmptyObject ELSE WithField(data, fields[i], f[i - 1])
    <3> HIDE DEF S
    <3> QED
      BY <2>1
  <2>3. \A i \in 0..(n + 1) : g[i] = IF i = 0 THEN EmptyObject ELSE WithField(data, fields[i], g[i - 1])
    <3> HIDE DEF Fits
    <3> QED
      BY <2>2
  <2>4. Fits(g, n + 1)
    <3>1. g = [i \in 0..(n + 1) |-> g[i]]
      OBVIOUS
    <3> HIDE DEF g
    <3> QED
      BY <2>3, <3>1
  <2> HIDE DEF g, Fits
  <2> QED
    BY <1>2, <2>4
<1>3. Len(fields) \in S
  <2> HIDE DEF S
  <2>1. \A n \in 0..Len(fields) : n < Len(fields) /\ n \in S => n + 1 \in S
    BY <1>2
  <2>2. \A n \in 0..Len(fields) : n \in S
    BY <1>1, <2>1, Induction
  <2> QED
    BY <2>2
<1>4. \E f : Fits(f, Len(fields))
  BY <1>3
<1> QED
  BY <1>4, Zenon DEF Gathered

\* What has been gathered: an object that is a part of the data, with the texts
\* at or below the first so many fields.
TakenSo(data, fields, n, taken) ==
    /\ taken \in Parts[MaxNesting][data] /\ taken.kind = "obj"
    /\ \A l : l \in Leaves(taken) <=>
              l \in Leaves(data) /\ \E i \in 1..n : AtOrBelow(l.at, fields[i])

LEMMA EmptyShows ==
    /\ EmptyObject \in Value /\ EmptyObject.kind = "obj" /\ Leaves(EmptyObject) = {}
    /\ \A k \in FieldName : EmptyObject.of[k] = Nil
<1> DEFINE d == MaxNesting
           V == Members(d)
           L == LevelBelow(LeavesOf, d)
           R == LevelBelow(Parts, d)
           none == [k \in FieldName |-> Nil]
<1>1. EmptyObject = Obj(none)
  <2>1. [k \in FieldName |-> IF k \in DOMAIN [i \in {} |-> Nil] THEN [i \in {} |-> Nil][k] ELSE Nil] = none
    OBVIOUS
  <2>2. [k \in FieldName |-> IF k \in DOMAIN none THEN none[k] ELSE Nil] = none
    OBVIOUS
  <2> QED
    BY <2>1, <2>2 DEF EmptyObject, Obj
<1>2. none \in [FieldName -> V \cup {Nil}] /\ \A k \in FieldName : none[k] = Nil
  OBVIOUS
<1>3. d \in Depth /\ KnownBelow(V, L, R)
  BY Depths, AllKnown DEF KnownAt
<1>4. Json[d] = Flat \cup Nested(V)
  BY <1>3, JsonLevel
<1> HIDE DEF V, L, R, none
<1>5. EmptyObject \in Json[d] /\ EmptyObject.kind = "obj" /\ EmptyObject.of = none
  BY <1>1, <1>2, <1>4, ObjectMade
<1>6. \A x : x \notin LeavesWithin(L, EmptyObject)
  <2>1. Nil \notin V /\ \A w \in V : L[w] \subseteq Leaf
    BY <1>3 DEF KnownBelow
  <2> QED
    BY <1>2, <1>4, <1>5, <2>1, LeavesByKind
<1>7. Leaves(EmptyObject) = LeavesWithin(L, EmptyObject)
  BY <1>3, <1>5, LeavesLevel DEF Leaves, L
<1> QED
  BY <1>2, <1>5, <1>6, <1>7 DEF Value

LEMMA NothingTaken ==
    ASSUME NEW data \in Value, data.kind = "obj", NEW fields
    PROVE  TakenSo(data, fields, 0, EmptyObject)
<1>1. MaxNesting \in Depth /\ data \in Json[MaxNesting] /\ EmptyObject \in Json[MaxNesting]
  BY Depths, EmptyShows DEF Value
<1>2. IsPart(LevelBelow(Parts, MaxNesting), EmptyObject, data)
  BY EmptyShows DEF IsPart
<1>3. EmptyObject \in Parts[MaxNesting][data]
  BY <1>1, <1>2, PartsLevel
<1> QED
  BY <1>3, EmptyShows DEF TakenSo

LEMMA OneMoreTaken ==
    ASSUME NEW data \in Value, data.kind = "obj", NEW fields \in Seq(Path),
           NEW n \in 1..Len(fields), NEW taken, TakenSo(data, fields, n - 1, taken)
    PROVE  TakenSo(data, fields, n, WithField(data, fields[n], taken))
<1> DEFINE d == MaxNesting
           found == Project(data, fields[n])
           after == WithField(data, fields[n], taken)
<1>1. d \in Depth /\ data \in Json[d] /\ ProjectsAt(d) /\ MergesAt(d)
  BY Depths, AllProjected, AllMerged DEF Value
<1>2. fields[n] \in Path /\ n \in Nat /\ \A i : i \in 1..n <=> i \in 1..(n - 1) \/ i = n
  BY LenProperties, ElementOfSeq
<1>3. found = Projected[d][data][fields[n]]
  BY DEF Project
<1>4. IF found = Nil THEN BelowOf(LeavesOf[d][data], fields[n]) = {}
      ELSE /\ found \in Parts[d][data] /\ found.kind = "obj"
           /\ LeavesOf[d][found] = BelowOf(LeavesOf[d][data], fields[n])
  <2> HIDE DEF found
  <2> QED
    BY <1>1, <1>2, <1>3, FoundAt
<1>5. after = IF found # Nil /\ found.kind = "obj" THEN Merge(taken, found) ELSE taken
  BY DEF WithField
<1> HIDE DEF found, after
<1>6. CASE found = Nil
  <2>1. after = taken
    BY <1>5, <1>6
  <2>2. \A l \in Leaves(data) : ~AtOrBelow(l.at, fields[n])
    BY <1>4, <1>6 DEF BelowOf, Leaves
  <2>3. taken \in Parts[MaxNesting][data] /\ taken.kind = "obj"
    BY DEF TakenSo
  <2>4. \A l : l \in Leaves(taken) <=>
               l \in Leaves(data) /\ \E i \in 1..n : AtOrBelow(l.at, fields[i])
    BY <1>2, <2>2 DEF TakenSo
  <2> QED
    BY <2>1, <2>3, <2>4 DEF TakenSo, after
<1>7. CASE found # Nil
  <2>1. after = Merged[d][taken][found]
    BY <1>4, <1>5, <1>7 DEF Merge
  <2>2. taken \in Parts[d][data] /\ taken.kind = "obj"
    BY DEF TakenSo
  <2>3. /\ after \in Parts[d][data] /\ after.kind = "obj"
        /\ LeavesOf[d][after] = LeavesOf[d][taken] \cup LeavesOf[d][found]
    BY <1>1, <1>4, <1>7, <2>1, <2>2, UnitedAt
  <2>4. \A l : l \in Leaves(after) <=> l \in Leaves(taken) \/ (l \in Leaves(data) /\ AtOrBelow(l.at, fields[n]))
    BY <1>4, <1>7, <2>3 DEF Leaves, BelowOf
  <2>5. \A l : l \in Leaves(after) <=>
               l \in Leaves(data) /\ \E i \in 1..n : AtOrBelow(l.at, fields[i])
    BY <1>2, <2>4 DEF TakenSo
  <2> QED
    BY <2>3, <2>5 DEF TakenSo, after
<1> QED
  BY <1>6, <1>7

LEMMA AllTaken ==
    ASSUME NEW data \in Value, data.kind = "obj", NEW fields \in Seq(Path)
    PROVE  TakenSo(data, fields, Len(fields), Shape(data, fields))
<1> DEFINE N == Len(fields)
           G == Gathered(data, fields)
           S == {n \in 0..N : TakenSo(data, fields, n, G[n])}
<1>1. N \in Nat /\ DOMAIN fields = 1..N
  BY LenProperties
<1>2. G = [n \in 0..N |-> IF n = 0 THEN EmptyObject ELSE WithField(data, fields[n], G[n - 1])]
  BY <1>1, GatheredDef
<1> HIDE DEF G
<1>3. G[0] = EmptyObject /\ \A n \in 1..N : G[n] = WithField(data, fields[n], G[n - 1])
  <2>1. \A n \in 0..N : G[n] = IF n = 0 THEN EmptyObject ELSE WithField(data, fields[n], G[n - 1])
    BY <1>2, Zenon
  <2> HIDE DEF N
  <2> QED
    BY <1>1, <2>1
<1>4. 0 \in S
  BY <1>1, <1>3, NothingTaken
<1>5. ASSUME NEW n \in 0..N, n < N, n \in S PROVE n + 1 \in S
  <2>1. n + 1 \in 1..N /\ (n + 1) - 1 = n
    BY <1>1, <1>5
  <2>2. TakenSo(data, fields, (n + 1) - 1, G[n])
    BY <1>5, <2>1
  <2>3. TakenSo(data, fields, n + 1, WithField(data, fields[n + 1], G[n]))
    BY <2>1, <2>2, OneMoreTaken
  <2>4. G[n + 1] = WithField(data, fields[n + 1], G[n])
    BY <1>3, <2>1
  <2> QED
    BY <1>1, <2>1, <2>3, <2>4
<1> HIDE DEF S
<1>6. \A n \in 0..N : n < N /\ n \in S => n + 1 \in S
  BY <1>5
<1>7. \A n \in 0..N : n \in S
  <2> HIDE DEF N
  <2> QED
    BY <1>1, <1>4, <1>6, Induction
<1>8. TakenSo(data, fields, N, G[N])
  BY <1>1, <1>7 DEF S
<1>9. Shape(data, fields) = G[N]
  BY DEF Shape, G
<1> QED
  BY <1>8, <1>9

\* What is left of an object is exactly what its fields allow, where it stood.
LEMMA OneShaped ==
    ASSUME NEW data \in Value, data.kind = "obj", NEW fields \in Seq(Path)
    PROVE  ShapedRight(data, fields)
<1>1. DOMAIN fields = 1..Len(fields)
  BY LenProperties
<1>2. \A l : l \in Leaves(Shape(data, fields)) <=>
            l \in Leaves(data) /\ \E i \in 1..Len(fields) : AtOrBelow(l.at, fields[i])
  BY AllTaken DEF TakenSo
<1> QED
  BY <1>1, <1>2 DEF ShapedRight

\* Every object that is compared is shaped right, by every list of fields.
THEOREM ObjectsAreShaped == ObjectsShaped
<1> SUFFICES ASSUME NEW o \in Original, NEW f \in FieldList PROVE ShapedRight(o, f)
  BY DEF ObjectsShaped
<1>1. o \in Value /\ o.kind = "obj" /\ f \in Seq(Path)
  BY ShapeAssumption
<1> QED
  BY <1>1, OneShaped

-----------------------------------------------------------------------------
(* What shaping leaves has no text but what the fields allow.              *)

\* A value is one of a deeper level too.
LEMMA LevelsGrow == \A d \in Depth : Members(d) \subseteq Json[d]
<1> DEFINE S == {d \in Depth : Members(d) \subseteq Json[d]}
<1>1. 0 \in S
  BY Depths DEF Members
<1>2. ASSUME NEW d \in Depth, d < MaxNesting, d \in S PROVE d + 1 \in S
  <2>1. d + 1 \in Depth /\ Members(d + 1) = Json[d] /\ Members(d) \subseteq Json[d]
    BY <1>2, Depths
  <2>2. Json[d] = Flat \cup Nested(Members(d)) /\ Json[d + 1] = Flat \cup Nested(Json[d])
    BY <2>1, JsonLevel
  <2>3. Nested(Members(d)) \subseteq Nested(Json[d])
    <3>1. [FieldName -> Members(d) \cup {Nil}] \subseteq [FieldName -> Json[d] \cup {Nil}]
      BY <2>1
    <3>2. \A s \in Seq(Members(d)) : s \in Seq(Json[d])
      BY <2>1, SeqMonotonic
    <3> QED
      BY <3>1, <3>2 DEF Nested
  <2> QED
    BY <2>1, <2>2, <2>3
<1> HIDE DEF S
<1>3. \A d \in 0..MaxNesting : d < MaxNesting /\ d \in S => d + 1 \in S
  BY <1>2, Depths
<1>4. \A d \in 0..MaxNesting : d \in S
  BY <1>1, <1>3, Depths, Induction
<1> QED
  BY <1>4, Depths DEF S

LEMMA ElementsAreValues ==
    ASSUME NEW v \in Value, v.kind = "arr"
    PROVE  v.of \in Seq(Value)
<1>1. MaxNesting \in Depth /\ v \in Flat \cup Nested(Members(MaxNesting))
  BY Depths, JsonLevel DEF Value
<1>2. v.of \in Seq(Members(MaxNesting))
  BY <1>1, ValueKinds
<1>3. Members(MaxNesting) \subseteq Value
  BY <1>1, LevelsGrow DEF Value
<1> QED
  BY <1>2, <1>3, SeqMonotonic

\* The objects that have no other texts.
Confined(fields) == {v \in Value : v.kind = "obj" /\ OnlyFields(v, fields)}

LEMMA ShapeIsWithin ==
    ASSUME NEW data \in Value, data.kind = "obj", NEW fields \in Seq(Path)
    PROVE  Shape(data, fields) \in Confined(fields)
<1>1. TakenSo(data, fields, Len(fields), Shape(data, fields))
  BY AllTaken
<1>2. Shape(data, fields) \in Value /\ Shape(data, fields).kind = "obj"
  <2>1. MaxNesting \in Depth /\ data \in Json[MaxNesting]
    BY Depths DEF Value
  <2> QED
    BY <1>1, <2>1, PartsLevel DEF TakenSo, Value
<1>3. OnlyFields(Shape(data, fields), fields)
  BY OneShaped DEF OnlyFields, ShapedRight
<1> QED
  BY <1>2, <1>3 DEF Confined

LEMMA ShapedAlongDef ==
    ASSUME NEW values, NEW fields, Len(values) \in Nat
    PROVE  ShapedAlong(values, fields) =
               [n \in 0..Len(values) |->
                   IF n = 0 THEN << >>
                   ELSE IF values[n].kind = "obj"
                        THEN Append(ShapedAlong(values, fields)[n - 1], Shape(values[n], fields))
                   ELSE ShapedAlong(values, fields)[n - 1]]
<1> DEFINE Level(n, before) == IF n = 0 THEN << >>
                               ELSE IF values[n].kind = "obj" THEN Append(before, Shape(values[n], fields))
                               ELSE before
           Fits(f, n) == f = [i \in 0..n |-> Level(i, f[i - 1])]
           S == {n \in 0..Len(values) : \E f : Fits(f, n)}
<1> HIDE DEF Level
<1>0. \A x, y : Level(0, x) = Level(0, y)
  BY DEF Level
<1>1. 0 \in S
  <2> DEFINE f == [i \in 0..0 |-> Level(0, << >>)]
  <2>1. Fits(f, 0)
    <3>1. \A i \in 0..0 : i = 0
      OBVIOUS
    <3>2. \A i \in 0..0 : Level(i, f[i - 1]) = Level(0, << >>)
      <4> HIDE DEF f
      <4> QED
        BY <1>0, <3>1
    <3> QED
      BY <3>2
  <2> HIDE DEF f
  <2> QED
    BY <2>1
<1>2. ASSUME NEW n \in 0..Len(values), n < Len(values), n \in S PROVE n + 1 \in S
  <2>1. PICK f : Fits(f, n)
    BY <1>2
  <2> DEFINE g == [i \in 0..(n + 1) |-> IF i <= n THEN f[i] ELSE Level(n + 1, f[n])]
  <2>2. \A i \in 0..n : f[i] = Level(i, f[i - 1])
    <3> HIDE DEF S
    <3> QED
      BY <2>1
  <2>3. \A i \in 0..(n + 1) : g[i] = Level(i, g[i - 1])
    <3> SUFFICES ASSUME NEW i \in 0..(n + 1) PROVE g[i] = Level(i, g[i - 1])
      OBVIOUS
    <3>1. CASE i = 0
      <4>1. g[i] = f[0] /\ f[0] = Level(0, f[0 - 1])
        BY <2>2, <3>1
      <4> HIDE DEF g, Fits, S
      <4> QED
        BY <1>0, <3>1, <4>1
    <3>2. CASE i # 0 /\ i <= n
      <4>1. g[i] = f[i] /\ g[i - 1] = f[i - 1] /\ i \in 0..n
        BY <3>2
      <4> HIDE DEF g, Fits, S
      <4> QED
        BY <2>2, <4>1
    <3>3. CASE i = n + 1
      <4>1. g[i] = Level(n + 1, f[n]) /\ g[i - 1] = f[n]
        BY <3>3
      <4> HIDE DEF g, Fits, S
      <4> QED
        BY <3>3, <4>1
    <3> QED
      BY <3>1, <3>2, <3>3
  <2>4. Fits(g, n + 1)
    <3>1. g = [i \in 0..(n + 1) |-> g[i]]
      OBVIOUS
    <3> HIDE DEF g, S
    <3> QED
      BY <2>3, <3>1
  <2> HIDE DEF g, Fits
  <2> QED
    BY <1>2, <2>4
<1>3. Len(values) \in S
  <2> HIDE DEF S
  <2>1. \A n \in 0..Len(values) : n < Len(values) /\ n \in S => n + 1 \in S
    BY <1>2
  <2>2. \A n \in 0..Len(values) : n \in S
    BY <1>1, <2>1, Induction
  <2> QED
    BY <2>2
<1>4. \E f : Fits(f, Len(values))
  BY <1>3
<1>5. \E f : f = [n \in 0..Len(values) |->
                      IF n = 0 THEN << >>
                      ELSE IF values[n].kind = "obj" THEN Append(f[n - 1], Shape(values[n], fields))
                      ELSE f[n - 1]]
  BY <1>4 DEF Level
<1> QED
  BY <1>5, Zenon DEF ShapedAlong

LEMMA ObjectsAreWithin ==
    ASSUME NEW values \in Seq(Value), NEW fields \in Seq(Path)
    PROVE  ShapedObjects(values, fields) \in Seq(Confined(fields))
<1> DEFINE N == Len(values)
           K == ShapedAlong(values, fields)
           W == Confined(fields)
           S == {n \in 0..N : K[n] \in Seq(W)}
<1>1. N \in Nat /\ \A n \in 1..N : values[n] \in Value
  BY LenProperties, ElementOfSeq
<1>2. K = [n \in 0..N |-> IF n = 0 THEN << >>
                          ELSE IF values[n].kind = "obj" THEN Append(K[n - 1], Shape(values[n], fields))
                          ELSE K[n - 1]]
  BY <1>1, ShapedAlongDef
<1> HIDE DEF K
<1>3. \A n \in 0..N : K[n] = IF n = 0 THEN << >>
                             ELSE IF values[n].kind = "obj" THEN Append(K[n - 1], Shape(values[n], fields))
                             ELSE K[n - 1]
  BY <1>2, Zenon
<1> HIDE DEF N, W
<1>4. 0 \in S
  <2>1. K[0] = << >> /\ 0 \in 0..N
    BY <1>1, <1>3
  <2>2. << >> \in Seq(W)
    OBVIOUS
  <2>3. K[0] \in Seq(W)
    BY <2>1, <2>2
  <2> QED
    BY <2>1, <2>3
<1>5. ASSUME NEW n \in 0..N, n < N, n \in S PROVE n + 1 \in S
  <2>1. n + 1 \in 1..N /\ (n + 1) - 1 = n /\ n + 1 # 0 /\ n + 1 \in 0..N
    BY <1>1, <1>5
  <2>2. K[n + 1] = IF values[n + 1].kind = "obj" THEN Append(K[n], Shape(values[n + 1], fields)) ELSE K[n]
    BY <1>3, <2>1
  <2>3. K[n] \in Seq(W)
    BY <1>5
  <2>4. values[n + 1].kind = "obj" => Shape(values[n + 1], fields) \in W
    BY <1>1, <2>1, ShapeIsWithin DEF W
  <2>5. K[n + 1] \in Seq(W)
    BY <2>2, <2>3, <2>4, AppendProperties
  <2> QED
    BY <2>1, <2>5
<1> HIDE DEF S
<1>6. \A n \in 0..N : n < N /\ n \in S => n + 1 \in S
  BY <1>5
<1>7. \A n \in 0..N : n \in S
  BY <1>1, <1>4, <1>6, Induction
<1>8. K[N] \in Seq(W)
  BY <1>1, <1>7 DEF S
<1> QED
  BY <1>8 DEF ShapedObjects, K, N, W
=============================================================================
