-------------------------- MODULE LedgerDeltaProofs --------------------------
(***************************************************************************)
(* What the deltas of LedgerClose mean, as lemmas: a delta leads from the  *)
(* rows its scope started from to the rows the scope left, every operation *)
(* of LedgerDelta.cpp keeps that so, and a stack of scopes is a chain of   *)
(* rows that entering, leaving and committing a scope maintain.            *)
(* LedgerCloseProofs builds on them.                                       *)
(***************************************************************************)
EXTENDS LedgerClose, TLAPS

Entry == [val : Value, lastModified : Nat]

Rows == UNION {[K -> Entry] : K \in SUBSET Key}

Header == [ledgerSeq : Nat, idPool : Nat]

Database == [rows : Rows, has : Rows, lcl : Header]

Delta == [new : Rows, mod : Rows, del : SUBSET Key, previous : Rows,
          header : Header, outer : Header]

(* The rows that a delta makes of the ones it started from.                *)
Layer(rows, d) == addBatch(rows, getLiveEntries(d), getDeadEntries(d))

(* It created what was not there, and changed and deleted what was.        *)
Fits(rows, d) ==
    /\ \A k \in DOMAIN d.new : k \notin DOMAIN rows
    /\ \A k \in DOMAIN d.mod \cup d.del : k \in DOMAIN rows
    /\ DOMAIN d.mod \cap d.del = {}

(* The entries are of this ledger or as the last one left them.            *)
Recent(rows, held, seq) ==
    \A k \in DOMAIN rows :
        \/ rows[k].lastModified = seq
        \/ k \in DOMAIN held /\ rows[k] = held[k]

(* No row has an identifier that the header can still generate.            *)
Fresh(rows, header) == \A id \in header.idPool + 1..MaxId : id \notin DOMAIN rows

(* The delta d leads from the rows "before" to the rows "after", in the    *)
(* ledger with header "cur" that builds on the rows "held".                *)
Scope(before, after, d, held, cur) ==
    /\ after = Layer(before, d)
    /\ Fits(before, d)
    /\ Fresh(after, d.header)
    /\ Recent(after, held, cur.ledgerSeq)
    /\ Recent(d.previous, held, cur.ledgerSeq)
    /\ d.header.ledgerSeq = cur.ledgerSeq

(* The header a scope found around it.                                     *)
Around(ds, i, cur) == IF i = 1 THEN cur ELSE ds[i - 1].header

Stack(ds, B, held, cur) ==
    /\ ds \in Seq(Delta)
    /\ B \in [0..Len(ds) -> Rows]
    /\ B[0] = held
    /\ cur \in Header
    /\ \A i \in 1..Len(ds) : /\ Scope(B[i - 1], B[i], ds[i], held, cur)
                             /\ ds[i].outer = Around(ds, i, cur)

-----------------------------------------------------------------------------
(* Rows, and the operators that make rows of rows.                         *)

LEMMA RowsIntro ==
    ASSUME NEW K \in SUBSET Key, NEW f \in [K -> Entry]
    PROVE  f \in Rows
BY DEF Rows

LEMMA RowsElim ==
    ASSUME NEW r \in Rows
    PROVE  /\ DOMAIN r \in SUBSET Key
           /\ r \in [DOMAIN r -> Entry]
           /\ \A k \in DOMAIN r : r[k] \in Entry
<1>1. PICK K \in SUBSET Key : r \in [K -> Entry]
  BY DEF Rows
<1>. QED BY <1>1

LEMMA RowsEqual ==
    ASSUME NEW r \in Rows, NEW s \in Rows,
           DOMAIN r = DOMAIN s,
           \A k \in DOMAIN r : r[k] = s[k]
    PROVE  r = s
BY RowsElim

LEMMA EmptyRows == Empty \in Rows /\ DOMAIN Empty = {}
<1>1. DOMAIN Empty = {} /\ Empty \in [{} -> Entry]
  BY DEF Empty
<1>. QED BY <1>1, RowsIntro, ZenonT(30)

LEMMA SingleRows ==
    ASSUME NEW k \in Key, NEW e \in Entry
    PROVE  /\ Single(k, e) \in Rows
           /\ DOMAIN Single(k, e) = {k}
           /\ Single(k, e)[k] = e
<1>1. Single(k, e) \in [{k} -> Entry] /\ {k} \in SUBSET Key
  BY DEF Single
<1>. QED BY <1>1, RowsIntro DEF Single

LEMMA OverRows ==
    ASSUME NEW f \in Rows, NEW g \in Rows
    PROVE  /\ Over(f, g) \in Rows
           /\ DOMAIN Over(f, g) = DOMAIN f \cup DOMAIN g
           /\ \A k \in DOMAIN f : Over(f, g)[k] = f[k]
           /\ \A k \in DOMAIN g : k \notin DOMAIN f => Over(f, g)[k] = g[k]
<1>. DEFINE K == DOMAIN f \cup DOMAIN g
<1>1. K \in SUBSET Key
  BY RowsElim
<1>2. Over(f, g) \in [K -> Entry]
  BY RowsElim DEF Over
<1>3. Over(f, g) \in Rows
  BY <1>1, <1>2, RowsIntro
<1>. QED BY <1>3 DEF Over

LEMMA WithoutRows ==
    ASSUME NEW f \in Rows, NEW keys
    PROVE  /\ Without(f, keys) \in Rows
           /\ DOMAIN Without(f, keys) = DOMAIN f \ keys
           /\ \A k \in DOMAIN f \ keys : Without(f, keys)[k] = f[k]
<1>. DEFINE K == DOMAIN f \ keys
<1>1. K \in SUBSET Key
  BY RowsElim
<1>2. Without(f, keys) \in [K -> Entry]
  BY RowsElim DEF Without
<1>3. Without(f, keys) \in Rows
  BY <1>1, <1>2, RowsIntro
<1>. QED BY <1>3 DEF Without

LEMMA OnRows ==
    ASSUME NEW f \in Rows, NEW keys
    PROVE  /\ On(f, keys) \in Rows
           /\ DOMAIN On(f, keys) = DOMAIN f \cap keys
           /\ \A k \in DOMAIN f \cap keys : On(f, keys)[k] = f[k]
<1>. DEFINE K == DOMAIN f \cap keys
<1>1. K \in SUBSET Key
  BY RowsElim
<1>2. On(f, keys) \in [K -> Entry]
  BY RowsElim DEF On
<1>3. On(f, keys) \in Rows
  BY <1>1, <1>2, RowsIntro
<1>. QED BY <1>3 DEF On

(* What a delta makes of the rows, key by key.                             *)
LEMMA LayerRows ==
    ASSUME NEW rows \in Rows, NEW d \in Delta
    PROVE  /\ Layer(rows, d) \in Rows
           /\ DOMAIN Layer(rows, d)
                  = DOMAIN d.new \cup DOMAIN d.mod \cup (DOMAIN rows \ d.del)
           /\ \A k \in DOMAIN d.new : Layer(rows, d)[k] = d.new[k]
           /\ \A k \in DOMAIN d.mod :
                  k \notin DOMAIN d.new => Layer(rows, d)[k] = d.mod[k]
           /\ \A k \in DOMAIN rows \ d.del :
                  k \notin DOMAIN d.new \cup DOMAIN d.mod
                      => Layer(rows, d)[k] = rows[k]
<1>. DEFINE live == getLiveEntries(d)
            rest == Without(rows, d.del)
<1>1. d.new \in Rows /\ d.mod \in Rows
  BY DEF Delta
<1>2. /\ live \in Rows /\ DOMAIN live = DOMAIN d.new \cup DOMAIN d.mod
      /\ \A k \in DOMAIN d.new : live[k] = d.new[k]
      /\ \A k \in DOMAIN d.mod : k \notin DOMAIN d.new => live[k] = d.mod[k]
  BY <1>1, OverRows, ZenonT(30) DEF getLiveEntries
<1>3. /\ rest \in Rows /\ DOMAIN rest = DOMAIN rows \ d.del
      /\ \A k \in DOMAIN rows \ d.del : rest[k] = rows[k]
  BY WithoutRows, Zenon
<1>4. Layer(rows, d) = Over(live, rest)
  BY DEF Layer, addBatch, getDeadEntries
<1>. HIDE DEF live, rest
<1>5. /\ Over(live, rest) \in Rows
      /\ DOMAIN Over(live, rest) = DOMAIN live \cup DOMAIN rest
      /\ \A k \in DOMAIN live : Over(live, rest)[k] = live[k]
      /\ \A k \in DOMAIN rest :
             k \notin DOMAIN live => Over(live, rest)[k] = rest[k]
  BY <1>2, <1>3, OverRows, Zenon
<1>. QED BY <1>2, <1>3, <1>4, <1>5

-----------------------------------------------------------------------------
(* What the operations on a delta do to the rows it makes.                 *)

LEMMA DeltaFields ==
    ASSUME NEW d \in Delta
    PROVE  /\ d.new \in Rows /\ d.mod \in Rows /\ d.previous \in Rows
           /\ d.del \in SUBSET Key
           /\ d.header \in Header /\ d.outer \in Header
BY DEF Delta

LEMMA AddEntry ==
    ASSUME NEW rows \in Rows, NEW d \in Delta, Fits(rows, d),
           NEW e \in Rows,
           \A k \in DOMAIN e : k \notin DOMAIN Layer(rows, d)
    PROVE  /\ addEntry(d, e) \in Delta
           /\ Fits(rows, addEntry(d, e))
           /\ Layer(rows, addEntry(d, e)) = Over(e, Layer(rows, d))
           /\ addEntry(d, e).previous = d.previous
           /\ addEntry(d, e).header = d.header
           /\ addEntry(d, e).outer = d.outer
<1>. DEFINE n == Over(Without(e, d.del), d.new)
            m == Over(On(e, d.del), d.mod)
            x == d.del \ DOMAIN e
            c == addEntry(d, e)
<1>1. d.new \in Rows /\ d.mod \in Rows /\ d.del \in SUBSET Key
  BY DeltaFields
<1>2. /\ Without(e, d.del) \in Rows
      /\ DOMAIN Without(e, d.del) = DOMAIN e \ d.del
      /\ \A k \in DOMAIN e \ d.del : Without(e, d.del)[k] = e[k]
  BY WithoutRows, Zenon
<1>3. /\ On(e, d.del) \in Rows
      /\ DOMAIN On(e, d.del) = DOMAIN e \cap d.del
      /\ \A k \in DOMAIN e \cap d.del : On(e, d.del)[k] = e[k]
  BY OnRows, Zenon
<1>4. /\ n \in Rows /\ DOMAIN n = (DOMAIN e \ d.del) \cup DOMAIN d.new
      /\ \A k \in DOMAIN e \ d.del : n[k] = e[k]
      /\ \A k \in DOMAIN d.new \ (DOMAIN e \ d.del) : n[k] = d.new[k]
  <2>. DEFINE w == Without(e, d.del)
  <2>1. w \in Rows /\ DOMAIN w = DOMAIN e \ d.del
        /\ \A k \in DOMAIN e \ d.del : w[k] = e[k]
    BY <1>2
  <2>. HIDE DEF w
  <2>2. /\ Over(w, d.new) \in Rows
        /\ DOMAIN Over(w, d.new) = DOMAIN w \cup DOMAIN d.new
        /\ \A k \in DOMAIN w : Over(w, d.new)[k] = w[k]
        /\ \A k \in DOMAIN d.new : k \notin DOMAIN w => Over(w, d.new)[k] = d.new[k]
    BY <1>1, <2>1, OverRows, Zenon
  <2>. QED BY <2>1, <2>2 DEF w
<1>5. /\ m \in Rows /\ DOMAIN m = (DOMAIN e \cap d.del) \cup DOMAIN d.mod
      /\ \A k \in DOMAIN e \cap d.del : m[k] = e[k]
      /\ \A k \in DOMAIN d.mod \ (DOMAIN e \cap d.del) : m[k] = d.mod[k]
  <2>. DEFINE w == On(e, d.del)
  <2>1. w \in Rows /\ DOMAIN w = DOMAIN e \cap d.del
        /\ \A k \in DOMAIN e \cap d.del : w[k] = e[k]
    BY <1>3
  <2>. HIDE DEF w
  <2>2. /\ Over(w, d.mod) \in Rows
        /\ DOMAIN Over(w, d.mod) = DOMAIN w \cup DOMAIN d.mod
        /\ \A k \in DOMAIN w : Over(w, d.mod)[k] = w[k]
        /\ \A k \in DOMAIN d.mod : k \notin DOMAIN w => Over(w, d.mod)[k] = d.mod[k]
    BY <1>1, <2>1, OverRows, Zenon
  <2>. QED BY <2>1, <2>2 DEF w
<1>6. c = [d EXCEPT !.new = n, !.mod = m, !.del = x]
  BY DEF addEntry
<1>. HIDE DEF n, m
<1>7. c \in Delta
  <2>1. n \in Rows /\ m \in Rows
    BY <1>4, <1>5
  <2>2. x \in SUBSET Key
    BY <1>1
  <2>. HIDE DEF c, x
  <2>. QED BY <2>1, <2>2, <1>6, Zenon DEF Delta
<1>8. /\ c.new = n /\ c.mod = m /\ c.del = x
      /\ c.previous = d.previous /\ c.header = d.header /\ c.outer = d.outer
  BY <1>6 DEF Delta
<1>. HIDE DEF c, x
<1>9. /\ \A k \in DOMAIN e : k \notin DOMAIN d.new \cup DOMAIN d.mod
      /\ \A k \in DOMAIN e : k \in DOMAIN rows => k \in d.del
  <2>1. DOMAIN Layer(rows, d)
            = DOMAIN d.new \cup DOMAIN d.mod \cup (DOMAIN rows \ d.del)
    BY LayerRows, Zenon
  <2>. QED BY <2>1
<1>10. Fits(rows, c)
  BY <1>4, <1>5, <1>8, <1>9 DEF Fits, x
<1>11. Layer(rows, c) = Over(e, Layer(rows, d))
  <2>. DEFINE L == Layer(rows, d)
              M == Layer(rows, c)
  <2>1. /\ L \in Rows
        /\ DOMAIN L = DOMAIN d.new \cup DOMAIN d.mod \cup (DOMAIN rows \ d.del)
        /\ \A k \in DOMAIN d.new : L[k] = d.new[k]
        /\ \A k \in DOMAIN d.mod : k \notin DOMAIN d.new => L[k] = d.mod[k]
        /\ \A k \in DOMAIN rows \ d.del :
               k \notin DOMAIN d.new \cup DOMAIN d.mod => L[k] = rows[k]
    BY LayerRows
  <2>2. /\ M \in Rows
        /\ DOMAIN M = DOMAIN n \cup DOMAIN m \cup (DOMAIN rows \ x)
        /\ \A k \in DOMAIN n : M[k] = n[k]
        /\ \A k \in DOMAIN m : k \notin DOMAIN n => M[k] = m[k]
        /\ \A k \in DOMAIN rows \ x :
               k \notin DOMAIN n \cup DOMAIN m => M[k] = rows[k]
    <3>1. /\ Layer(rows, c) \in Rows
          /\ DOMAIN Layer(rows, c)
                 = DOMAIN c.new \cup DOMAIN c.mod \cup (DOMAIN rows \ c.del)
          /\ \A k \in DOMAIN c.new : Layer(rows, c)[k] = c.new[k]
          /\ \A k \in DOMAIN c.mod :
                 k \notin DOMAIN c.new => Layer(rows, c)[k] = c.mod[k]
          /\ \A k \in DOMAIN rows \ c.del :
                 k \notin DOMAIN c.new \cup DOMAIN c.mod
                     => Layer(rows, c)[k] = rows[k]
      BY <1>7, LayerRows, Zenon
    <3>. QED BY <3>1, <1>8
  <2>3. /\ Over(e, L) \in Rows
        /\ DOMAIN Over(e, L) = DOMAIN e \cup DOMAIN L
        /\ \A k \in DOMAIN e : Over(e, L)[k] = e[k]
        /\ \A k \in DOMAIN L : k \notin DOMAIN e => Over(e, L)[k] = L[k]
    BY <2>1, OverRows, Zenon
  <2>. HIDE DEF L, M
  <2>4. DOMAIN M = DOMAIN Over(e, L)
    BY <1>4, <1>5, <2>1, <2>2, <2>3 DEF x
  <2>5. ASSUME NEW k \in DOMAIN M PROVE M[k] = Over(e, L)[k]
    <3>1. CASE k \in DOMAIN e
      BY <3>1, <1>4, <1>5, <1>9, <2>2, <2>3
    <3>2. CASE k \notin DOMAIN e
      BY <3>2, <1>4, <1>5, <2>1, <2>2, <2>3, <2>4 DEF x
    <3>. QED BY <3>1, <3>2
  <2>6. M = Over(e, L)
    BY <2>2, <2>3, <2>4, <2>5, RowsEqual
  <2>. QED BY <2>6 DEF L, M
<1>. QED BY <1>7, <1>8, <1>10, <1>11 DEF c

LEMMA DeleteEntry ==
    ASSUME NEW rows \in Rows, NEW d \in Delta, Fits(rows, d),
           NEW keys \in SUBSET Key,
           keys \subseteq DOMAIN Layer(rows, d)
    PROVE  /\ deleteEntry(d, keys) \in Delta
           /\ Fits(rows, deleteEntry(d, keys))
           /\ Layer(rows, deleteEntry(d, keys)) = Without(Layer(rows, d), keys)
           /\ deleteEntry(d, keys).previous = d.previous
           /\ deleteEntry(d, keys).header = d.header
           /\ deleteEntry(d, keys).outer = d.outer
<1>. DEFINE older == keys \ DOMAIN d.new
            n == Without(d.new, keys)
            m == Without(d.mod, older)
            x == d.del \cup older
            c == deleteEntry(d, keys)
<1>1. d.new \in Rows /\ d.mod \in Rows /\ d.del \in SUBSET Key
  BY DeltaFields
<1>2. /\ n \in Rows /\ DOMAIN n = DOMAIN d.new \ keys
      /\ \A k \in DOMAIN d.new \ keys : n[k] = d.new[k]
  BY <1>1, WithoutRows, Zenon
<1>3. /\ m \in Rows /\ DOMAIN m = DOMAIN d.mod \ older
      /\ \A k \in DOMAIN d.mod \ older : m[k] = d.mod[k]
  BY <1>1, WithoutRows, Zenon
<1>4. c = [d EXCEPT !.new = n, !.mod = m, !.del = x]
  BY DEF deleteEntry
<1>. HIDE DEF n, m
<1>5. c \in Delta
  <2>1. n \in Rows /\ m \in Rows
    BY <1>2, <1>3
  <2>2. x \in SUBSET Key
    BY <1>1
  <2>. HIDE DEF c, x
  <2>. QED BY <2>1, <2>2, <1>4, Zenon DEF Delta
<1>6. /\ c.new = n /\ c.mod = m /\ c.del = x
      /\ c.previous = d.previous /\ c.header = d.header /\ c.outer = d.outer
  BY <1>4 DEF Delta
<1>. HIDE DEF c, x
<1>7. keys \subseteq DOMAIN d.new \cup DOMAIN d.mod \cup (DOMAIN rows \ d.del)
  BY LayerRows, Zenon
<1>8. Fits(rows, c)
  BY <1>2, <1>3, <1>6, <1>7 DEF Fits, x
<1>9. Layer(rows, c) = Without(Layer(rows, d), keys)
  <2>. DEFINE L == Layer(rows, d)
              M == Layer(rows, c)
  <2>1. /\ L \in Rows
        /\ DOMAIN L = DOMAIN d.new \cup DOMAIN d.mod \cup (DOMAIN rows \ d.del)
        /\ \A k \in DOMAIN d.new : L[k] = d.new[k]
        /\ \A k \in DOMAIN d.mod : k \notin DOMAIN d.new => L[k] = d.mod[k]
        /\ \A k \in DOMAIN rows \ d.del :
               k \notin DOMAIN d.new \cup DOMAIN d.mod => L[k] = rows[k]
    BY LayerRows
  <2>2. /\ M \in Rows
        /\ DOMAIN M = DOMAIN n \cup DOMAIN m \cup (DOMAIN rows \ x)
        /\ \A k \in DOMAIN n : M[k] = n[k]
        /\ \A k \in DOMAIN m : k \notin DOMAIN n => M[k] = m[k]
        /\ \A k \in DOMAIN rows \ x :
               k \notin DOMAIN n \cup DOMAIN m => M[k] = rows[k]
    <3>1. /\ Layer(rows, c) \in Rows
          /\ DOMAIN Layer(rows, c)
                 = DOMAIN c.new \cup DOMAIN c.mod \cup (DOMAIN rows \ c.del)
          /\ \A k \in DOMAIN c.new : Layer(rows, c)[k] = c.new[k]
          /\ \A k \in DOMAIN c.mod :
                 k \notin DOMAIN c.new => Layer(rows, c)[k] = c.mod[k]
          /\ \A k \in DOMAIN rows \ c.del :
                 k \notin DOMAIN c.new \cup DOMAIN c.mod
                     => Layer(rows, c)[k] = rows[k]
      BY <1>5, LayerRows, Zenon
    <3>. QED BY <3>1, <1>6
  <2>3. /\ Without(L, keys) \in Rows
        /\ DOMAIN Without(L, keys) = DOMAIN L \ keys
        /\ \A k \in DOMAIN L \ keys : Without(L, keys)[k] = L[k]
    BY <2>1, WithoutRows, Zenon
  <2>. HIDE DEF L, M
  <2>4. DOMAIN M = DOMAIN Without(L, keys)
    BY <1>2, <1>3, <1>7, <2>1, <2>2, <2>3 DEF Fits, x
  <2>5. ASSUME NEW k \in DOMAIN M PROVE M[k] = Without(L, keys)[k]
    BY <1>2, <1>3, <2>1, <2>2, <2>3, <2>4 DEF x
  <2>6. M = Without(L, keys)
    BY <2>2, <2>3, <2>4, <2>5, RowsEqual
  <2>. QED BY <2>6 DEF L, M
<1>. QED BY <1>5, <1>6, <1>8, <1>9 DEF c

LEMMA ModEntry ==
    ASSUME NEW rows \in Rows, NEW d \in Delta, Fits(rows, d),
           NEW e \in Rows,
           DOMAIN e \subseteq DOMAIN Layer(rows, d)
    PROVE  /\ modEntry(d, e) \in Delta
           /\ Fits(rows, modEntry(d, e))
           /\ Layer(rows, modEntry(d, e)) = Over(e, Layer(rows, d))
           /\ modEntry(d, e).previous = d.previous
           /\ modEntry(d, e).header = d.header
           /\ modEntry(d, e).outer = d.outer
<1>. DEFINE created == DOMAIN d.new \ DOMAIN d.mod
            n == Over(On(e, created), d.new)
            m == Over(Without(e, created), d.mod)
            c == modEntry(d, e)
<1>1. d.new \in Rows /\ d.mod \in Rows /\ d.del \in SUBSET Key
  BY DeltaFields
<1>2. /\ Without(e, created) \in Rows
      /\ DOMAIN Without(e, created) = DOMAIN e \ created
      /\ \A k \in DOMAIN e \ created : Without(e, created)[k] = e[k]
  BY WithoutRows, Zenon
<1>3. /\ On(e, created) \in Rows
      /\ DOMAIN On(e, created) = DOMAIN e \cap created
      /\ \A k \in DOMAIN e \cap created : On(e, created)[k] = e[k]
  BY OnRows, Zenon
<1>4. /\ n \in Rows /\ DOMAIN n = (DOMAIN e \cap created) \cup DOMAIN d.new
      /\ \A k \in DOMAIN e \cap created : n[k] = e[k]
      /\ \A k \in DOMAIN d.new \ (DOMAIN e \cap created) : n[k] = d.new[k]
  <2>. DEFINE w == On(e, created)
  <2>1. w \in Rows /\ DOMAIN w = DOMAIN e \cap created
        /\ \A k \in DOMAIN e \cap created : w[k] = e[k]
    BY <1>3
  <2>. HIDE DEF w
  <2>2. /\ Over(w, d.new) \in Rows
        /\ DOMAIN Over(w, d.new) = DOMAIN w \cup DOMAIN d.new
        /\ \A k \in DOMAIN w : Over(w, d.new)[k] = w[k]
        /\ \A k \in DOMAIN d.new : k \notin DOMAIN w => Over(w, d.new)[k] = d.new[k]
    BY <1>1, <2>1, OverRows, Zenon
  <2>. QED BY <2>1, <2>2, Zenon DEF w
<1>5. /\ m \in Rows /\ DOMAIN m = (DOMAIN e \ created) \cup DOMAIN d.mod
      /\ \A k \in DOMAIN e \ created : m[k] = e[k]
      /\ \A k \in DOMAIN d.mod \ (DOMAIN e \ created) : m[k] = d.mod[k]
  <2>. DEFINE w == Without(e, created)
  <2>1. w \in Rows /\ DOMAIN w = DOMAIN e \ created
        /\ \A k \in DOMAIN e \ created : w[k] = e[k]
    BY <1>2
  <2>. HIDE DEF w
  <2>2. /\ Over(w, d.mod) \in Rows
        /\ DOMAIN Over(w, d.mod) = DOMAIN w \cup DOMAIN d.mod
        /\ \A k \in DOMAIN w : Over(w, d.mod)[k] = w[k]
        /\ \A k \in DOMAIN d.mod : k \notin DOMAIN w => Over(w, d.mod)[k] = d.mod[k]
    BY <1>1, <2>1, OverRows, Zenon
  <2>. QED BY <2>1, <2>2, Zenon DEF w
<1>6. c = [d EXCEPT !.new = n, !.mod = m, !.del = d.del]
  BY Zenon DEF modEntry, Delta
<1>7. created = DOMAIN d.new
  BY DEF Fits
<1>. HIDE DEF n, m, created
<1>8. c \in Delta
  <2>1. n \in Rows /\ m \in Rows
    BY <1>4, <1>5
  <2>2. d.del \in SUBSET Key
    BY <1>1
  <2>. HIDE DEF c
  <2>. QED BY <2>1, <2>2, <1>6, Zenon DEF Delta
<1>9. /\ c.new = n /\ c.mod = m /\ c.del = d.del
      /\ c.previous = d.previous /\ c.header = d.header /\ c.outer = d.outer
  BY <1>6 DEF Delta
<1>. HIDE DEF c
<1>10. \A k \in DOMAIN e :
          k \in DOMAIN d.new \cup DOMAIN d.mod \cup (DOMAIN rows \ d.del)
  BY LayerRows, Zenon
<1>11. Fits(rows, c)
  BY <1>4, <1>5, <1>7, <1>9, <1>10 DEF Fits
<1>12. Layer(rows, c) = Over(e, Layer(rows, d))
  <2>. DEFINE L == Layer(rows, d)
              M == Layer(rows, c)
  <2>1. /\ L \in Rows
        /\ DOMAIN L = DOMAIN d.new \cup DOMAIN d.mod \cup (DOMAIN rows \ d.del)
        /\ \A k \in DOMAIN d.new : L[k] = d.new[k]
        /\ \A k \in DOMAIN d.mod : k \notin DOMAIN d.new => L[k] = d.mod[k]
        /\ \A k \in DOMAIN rows \ d.del :
               k \notin DOMAIN d.new \cup DOMAIN d.mod => L[k] = rows[k]
    BY LayerRows, Zenon
  <2>2. /\ M \in Rows
        /\ DOMAIN M = DOMAIN n \cup DOMAIN m \cup (DOMAIN rows \ d.del)
        /\ \A k \in DOMAIN n : M[k] = n[k]
        /\ \A k \in DOMAIN m : k \notin DOMAIN n => M[k] = m[k]
        /\ \A k \in DOMAIN rows \ d.del :
               k \notin DOMAIN n \cup DOMAIN m => M[k] = rows[k]
    <3>1. /\ Layer(rows, c) \in Rows
          /\ DOMAIN Layer(rows, c)
                 = DOMAIN c.new \cup DOMAIN c.mod \cup (DOMAIN rows \ c.del)
          /\ \A k \in DOMAIN c.new : Layer(rows, c)[k] = c.new[k]
          /\ \A k \in DOMAIN c.mod :
                 k \notin DOMAIN c.new => Layer(rows, c)[k] = c.mod[k]
          /\ \A k \in DOMAIN rows \ c.del :
                 k \notin DOMAIN c.new \cup DOMAIN c.mod
                     => Layer(rows, c)[k] = rows[k]
      BY <1>8, LayerRows, Zenon
    <3>. QED BY <3>1, <1>9
  <2>3. /\ Over(e, L) \in Rows
        /\ DOMAIN Over(e, L) = DOMAIN e \cup DOMAIN L
        /\ \A k \in DOMAIN e : Over(e, L)[k] = e[k]
        /\ \A k \in DOMAIN L : k \notin DOMAIN e => Over(e, L)[k] = L[k]
    BY <2>1, OverRows, Zenon
  <2>. HIDE DEF L, M
  <2>4. DOMAIN M = DOMAIN Over(e, L)
    BY <1>4, <1>5, <1>7, <1>10, <2>1, <2>2, <2>3
  <2>5. ASSUME NEW k \in DOMAIN M PROVE M[k] = Over(e, L)[k]
    <3>1. CASE k \in DOMAIN e
      BY <3>1, <1>4, <1>5, <1>7, <2>2, <2>3
    <3>2. CASE k \notin DOMAIN e
      BY <3>2, <1>4, <1>5, <2>1, <2>2, <2>3, <2>4
    <3>. QED BY <3>1, <3>2
  <2>6. M = Over(e, L)
    BY <2>2, <2>3, <2>4, <2>5, RowsEqual
  <2>. QED BY <2>6 DEF L, M
<1>. QED BY <1>8, <1>9, <1>11, <1>12 DEF c

LEMMA RecordEntry ==
    ASSUME NEW d \in Delta, NEW e \in Rows
    PROVE  /\ recordEntry(d, e) \in Delta
           /\ \A rows : /\ Fits(rows, d) => Fits(rows, recordEntry(d, e))
                        /\ Layer(rows, recordEntry(d, e)) = Layer(rows, d)
           /\ Touched(recordEntry(d, e)) = Touched(d)
           /\ recordEntry(d, e).previous = Over(d.previous, e)
           /\ recordEntry(d, e).header = d.header
           /\ recordEntry(d, e).outer = d.outer
<1>. DEFINE p == Over(d.previous, e)
            c == recordEntry(d, e)
<1>1. p \in Rows
  BY DeltaFields, OverRows, ZenonT(30)
<1>2. c = [d EXCEPT !.previous = p]
  BY DEF recordEntry
<1>. HIDE DEF p, c
<1>3. c \in Delta
  BY <1>1, <1>2 DEF Delta
<1>4. /\ c.new = d.new /\ c.mod = d.mod /\ c.del = d.del
      /\ c.previous = p /\ c.header = d.header /\ c.outer = d.outer
  BY <1>2 DEF Delta
<1>5. \A rows : Fits(rows, d) => Fits(rows, c)
  BY <1>4 DEF Fits
<1>6. \A rows : Layer(rows, c) = Layer(rows, d)
  BY <1>4 DEF Layer, getLiveEntries, getDeadEntries
<1>7. Touched(c) = Touched(d)
  BY <1>4 DEF Touched
<1>. QED BY <1>3, <1>4, <1>5, <1>6, <1>7 DEF p, c

LEMMA RecentOver ==
    ASSUME NEW f \in Rows, NEW g \in Rows, NEW held, NEW seq,
           Recent(f, held, seq), Recent(g, held, seq)
    PROVE  Recent(Over(f, g), held, seq)
<1>1. SUFFICES ASSUME NEW k \in DOMAIN Over(f, g)
               PROVE  \/ Over(f, g)[k].lastModified = seq
                      \/ k \in DOMAIN held /\ Over(f, g)[k] = held[k]
  BY DEF Recent
<1>2. CASE k \in DOMAIN f
  BY <1>2, OverRows, Zenon DEF Recent
<1>3. CASE k \notin DOMAIN f
  <2>1. /\ DOMAIN Over(f, g) = DOMAIN f \cup DOMAIN g
        /\ \A x \in DOMAIN g : x \notin DOMAIN f => Over(f, g)[x] = g[x]
    BY OverRows, Zenon
  <2>2. k \in DOMAIN g /\ Over(f, g)[k] = g[k]
    BY <1>1, <1>3, <2>1
  <2>. QED BY <2>2 DEF Recent
<1>. QED BY <1>2, <1>3

LEMMA RecentOn ==
    ASSUME NEW f \in Rows, NEW keys, NEW held, NEW seq,
           Recent(f, held, seq)
    PROVE  Recent(On(f, keys), held, seq)
<1>1. /\ DOMAIN On(f, keys) = DOMAIN f \cap keys
      /\ \A k \in DOMAIN f \cap keys : On(f, keys)[k] = f[k]
  BY OnRows, Zenon
<1>. QED BY <1>1 DEF Recent

LEMMA RecentWithout ==
    ASSUME NEW f \in Rows, NEW keys, NEW held, NEW seq,
           Recent(f, held, seq)
    PROVE  Recent(Without(f, keys), held, seq)
<1>1. /\ DOMAIN Without(f, keys) = DOMAIN f \ keys
      /\ \A k \in DOMAIN f \ keys : Without(f, keys)[k] = f[k]
  BY WithoutRows, Zenon
<1>. QED BY <1>1 DEF Recent

(* A delta merged into the one around it makes of its rows what the two    *)
(* make of them one after the other.                                       *)
LEMMA MergeEntries ==
    ASSUME NEW rows \in Rows, NEW d \in Delta, NEW o \in Delta,
           Fits(rows, d), Fits(Layer(rows, d), o),
           NEW held, NEW seq,
           Recent(d.previous, held, seq), Recent(o.previous, held, seq)
    PROVE  /\ mergeEntries(d, o) \in Delta
           /\ Fits(rows, mergeEntries(d, o))
           /\ Layer(rows, mergeEntries(d, o)) = Layer(Layer(rows, d), o)
           /\ Recent(mergeEntries(d, o).previous, held, seq)
           /\ mergeEntries(d, o).outer = d.outer
<1>. DEFINE L == Layer(rows, d)
            pd == On(o.previous, o.del)
            pm == On(o.previous, DOMAIN o.mod)
            d1 == deleteEntry(d, o.del)
            d2 == recordEntry(d1, pd)
            d3 == addEntry(d2, o.new)
            d4 == modEntry(d3, o.mod)
            d5 == recordEntry(d4, pm)
            L1 == Without(L, o.del)
            L3 == Over(o.new, L1)
            L4 == Over(o.mod, L3)
<1>1. /\ o.new \in Rows /\ o.mod \in Rows /\ o.previous \in Rows
      /\ o.del \in SUBSET Key /\ d.previous \in Rows
  BY DeltaFields
<1>2. /\ pd \in Rows /\ Recent(pd, held, seq)
      /\ pm \in Rows /\ Recent(pm, held, seq)
  BY <1>1, OnRows, RecentOn, Zenon
<1>3. L \in Rows
  BY LayerRows, Zenon
<1>4. /\ d1 \in Delta /\ Fits(rows, d1) /\ Layer(rows, d1) = L1
      /\ d1.previous = d.previous /\ d1.outer = d.outer
  <2>1. o.del \subseteq DOMAIN L
    BY DEF Fits
  <2>. QED BY <2>1, <1>1, DeleteEntry
<1>. mergeEntries(d, o) = d5
  BY DEF mergeEntries
<1>. HIDE DEF pd, pm, L, d1
<1>5. /\ L1 \in Rows /\ DOMAIN L1 = DOMAIN L \ o.del
      /\ \A k \in DOMAIN L \ o.del : L1[k] = L[k]
  BY <1>3, WithoutRows, Zenon
<1>. HIDE DEF L1
<1>6. /\ d2 \in Delta /\ Fits(rows, d2) /\ Layer(rows, d2) = L1
      /\ Recent(d2.previous, held, seq) /\ d2.outer = d.outer
  <2>1. /\ d2 \in Delta /\ Fits(rows, d2) /\ Layer(rows, d2) = L1
        /\ d2.previous = Over(d.previous, pd) /\ d2.outer = d.outer
    BY <1>2, <1>4, RecordEntry
  <2>2. Recent(Over(d.previous, pd), held, seq)
    BY <1>1, <1>2, RecentOver, Zenon
  <2>. QED BY <2>1, <2>2
<1>. HIDE DEF d2
<1>7. /\ d3 \in Delta /\ Fits(rows, d3) /\ Layer(rows, d3) = L3
      /\ d3.previous = d2.previous /\ d3.outer = d.outer
  <2>1. \A k \in DOMAIN o.new : k \notin DOMAIN Layer(rows, d2)
    BY <1>5, <1>6 DEF Fits, L
  <2>. QED BY <2>1, <1>1, <1>6, AddEntry
<1>. HIDE DEF d3
<1>8. /\ L3 \in Rows /\ DOMAIN L3 = DOMAIN o.new \cup DOMAIN L1
      /\ \A k \in DOMAIN o.new : L3[k] = o.new[k]
      /\ \A k \in DOMAIN L1 : k \notin DOMAIN o.new => L3[k] = L1[k]
  BY <1>1, <1>5, OverRows, Zenon
<1>. HIDE DEF L3
<1>9. /\ d4 \in Delta /\ Fits(rows, d4) /\ Layer(rows, d4) = L4
      /\ d4.previous = d2.previous /\ d4.outer = d.outer
  <2>1. DOMAIN o.mod \subseteq DOMAIN Layer(rows, d3)
    BY <1>5, <1>7, <1>8 DEF Fits, L
  <2>. QED BY <2>1, <1>1, <1>7, ModEntry
<1>. HIDE DEF d4
<1>10. /\ d5 \in Delta /\ Fits(rows, d5) /\ Layer(rows, d5) = L4
       /\ Recent(d5.previous, held, seq) /\ d5.outer = d.outer
  <2>1. /\ d5 \in Delta /\ Fits(rows, d5) /\ Layer(rows, d5) = L4
        /\ d5.previous = Over(d2.previous, pm) /\ d5.outer = d.outer
    <3>0. d4 \in Delta /\ pm \in Rows
      BY <1>2, <1>9
    <3>1. /\ d5 \in Delta
          /\ Fits(rows, d4) => Fits(rows, d5)
          /\ Layer(rows, d5) = Layer(rows, d4)
          /\ d5.previous = Over(d4.previous, pm) /\ d5.outer = d4.outer
      BY <3>0, RecordEntry, Zenon
    <3>. QED BY <3>1, <1>9
  <2>2. Recent(Over(d2.previous, pm), held, seq)
    <3>1. d2.previous \in Rows
      BY <1>6, DeltaFields
    <3>. QED BY <3>1, <1>2, <1>6, RecentOver, Zenon
  <2>. QED BY <2>1, <2>2
<1>11. L4 = Layer(L, o)
  <2>. DEFINE M == Layer(L, o)
  <2>1. /\ M \in Rows
        /\ DOMAIN M = DOMAIN o.new \cup DOMAIN o.mod \cup (DOMAIN L \ o.del)
        /\ \A k \in DOMAIN o.new : M[k] = o.new[k]
        /\ \A k \in DOMAIN o.mod : k \notin DOMAIN o.new => M[k] = o.mod[k]
        /\ \A k \in DOMAIN L \ o.del :
               k \notin DOMAIN o.new \cup DOMAIN o.mod => M[k] = L[k]
    BY <1>3, LayerRows, Zenon
  <2>2. /\ L4 \in Rows /\ DOMAIN L4 = DOMAIN o.mod \cup DOMAIN L3
        /\ \A k \in DOMAIN o.mod : L4[k] = o.mod[k]
        /\ \A k \in DOMAIN L3 : k \notin DOMAIN o.mod => L4[k] = L3[k]
    BY <1>1, <1>8, OverRows, Zenon
  <2>3. \A k \in DOMAIN o.mod : k \notin DOMAIN o.new
    BY DEF Fits, L
  <2>. HIDE DEF L4, M
  <2>4. DOMAIN L4 = DOMAIN M
    BY <1>5, <1>8, <2>1, <2>2
  <2>5. ASSUME NEW k \in DOMAIN L4 PROVE L4[k] = M[k]
    <3>1. CASE k \in DOMAIN o.mod
      BY <3>1, <2>1, <2>2, <2>3
    <3>2. CASE k \notin DOMAIN o.mod
      BY <3>2, <1>5, <1>8, <2>1, <2>2
    <3>. QED BY <3>1, <3>2
  <2>6. L4 = M
    BY <2>1, <2>2, <2>4, <2>5, RowsEqual
  <2>. QED BY <2>6 DEF L4, M
<1>. QED BY <1>10, <1>11 DEF L

LEMMA CommitDelta ==
    ASSUME NEW rows \in Rows, NEW d \in Delta, NEW o \in Delta,
           NEW held, NEW cur, NEW mid, NEW after,
           Scope(rows, mid, d, held, cur), Scope(mid, after, o, held, cur)
    PROVE  /\ commit(d, o) \in Delta
           /\ Scope(rows, after, commit(d, o), held, cur)
           /\ commit(d, o).outer = d.outer
           /\ commit(d, o).header = o.header
<1>. DEFINE m == mergeEntries(d, o)
            c == commit(d, o)
<1>1. /\ m \in Delta /\ Fits(rows, m) /\ Layer(rows, m) = after
      /\ Recent(m.previous, held, cur.ledgerSeq) /\ m.outer = d.outer
  <2>1. /\ Fits(rows, d) /\ Fits(Layer(rows, d), o)
        /\ Recent(d.previous, held, cur.ledgerSeq)
        /\ Recent(o.previous, held, cur.ledgerSeq)
        /\ after = Layer(Layer(rows, d), o)
    BY DEF Scope
  <2>. QED BY <2>1, MergeEntries
<1>2. c = [m EXCEPT !.header = o.header]
  BY DEF commit
<1>. HIDE DEF m, c
<1>3. /\ c.new = m.new /\ c.mod = m.mod /\ c.del = m.del
      /\ c.previous = m.previous /\ c.header = o.header /\ c.outer = m.outer
  BY <1>1, <1>2 DEF Delta
<1>4. c \in Delta
  BY <1>1, <1>2, DeltaFields DEF Delta
<1>5. Fits(rows, c)
  BY <1>1, <1>3 DEF Fits
<1>6. Layer(rows, c) = after
  BY <1>1, <1>3 DEF Layer, getLiveEntries, getDeadEntries
<1>7. Scope(rows, after, c, held, cur)
  BY <1>1, <1>3, <1>5, <1>6 DEF Scope
<1>. QED BY <1>1, <1>3, <1>4, <1>7 DEF c

-----------------------------------------------------------------------------
(* The chain of rows when a scope is entered or left.                      *)

LEMMA StackTypes ==
    ASSUME NEW ds, NEW B, NEW held, NEW cur, Stack(ds, B, held, cur)
    PROVE  /\ ds \in Seq(Delta) /\ Len(ds) \in Nat
           /\ B \in [0..Len(ds) -> Rows]
           /\ \A i \in 1..Len(ds) : ds[i] \in Delta
           /\ \A i \in 0..Len(ds) : B[i] \in Rows
<1>1. ds \in Seq(Delta) /\ B \in [0..Len(ds) -> Rows]
  BY DEF Stack
<1>2. Len(ds) \in Nat /\ \A i \in 1..Len(ds) : ds[i] \in Delta
  BY <1>1
<1>. QED BY <1>1, <1>2

LEMMA PrefixIs ==
    ASSUME NEW S, NEW s \in Seq(S), NEW n \in 0..Len(s)
    PROVE  /\ SubSeq(s, 1, n) \in Seq(S) /\ Len(SubSeq(s, 1, n)) = n
           /\ \A i \in 1..n : SubSeq(s, 1, n)[i] = s[i]
<1>1. Len(s) \in Nat /\ n \in Nat /\ n <= Len(s)
  OBVIOUS
<1>2. \A i \in 1..n : s[i] \in S
  BY <1>1
<1>3. SubSeq(s, 1, n) \in Seq(S)
  BY <1>1, <1>2
<1>. QED BY <1>1, <1>3

LEMMA FrontIs ==
    ASSUME NEW S, NEW s \in Seq(S), Len(s) > 0
    PROVE  /\ Front(s) \in Seq(S) /\ Len(Front(s)) = Len(s) - 1
           /\ \A i \in 1..Len(s) - 1 : Front(s)[i] = s[i]
<1>1. Len(s) - 1 \in 0..Len(s)
  OBVIOUS
<1>. QED BY <1>1, PrefixIs, Zenon DEF Front

(* The rows at every level hold entries of this ledger or of the last.     *)
LEMMA StackRecent ==
    ASSUME NEW ds, NEW B, NEW held, NEW cur, Stack(ds, B, held, cur),
           NEW i \in 0..Len(ds)
    PROVE  Recent(B[i], held, cur.ledgerSeq)
<1>1. CASE i = 0
  BY <1>1 DEF Stack, Recent
<1>2. CASE i > 0
  <2>1. i \in 1..Len(ds)
    BY <1>2, StackTypes
  <2>2. Scope(B[i - 1], B[i], ds[i], held, cur)
    BY <2>1 DEF Stack
  <2>. QED BY <2>2 DEF Scope
<1>. QED BY <1>1, <1>2

LEMMA LayerUntouched ==
    ASSUME NEW rows \in Rows, NEW d \in Delta, Touched(d) = {}
    PROVE  Layer(rows, d) = rows /\ Fits(rows, d)
<1>1. DOMAIN d.new = {} /\ DOMAIN d.mod = {} /\ d.del = {}
  BY DEF Touched
<1>2. /\ Layer(rows, d) \in Rows
      /\ DOMAIN Layer(rows, d)
             = DOMAIN d.new \cup DOMAIN d.mod \cup (DOMAIN rows \ d.del)
      /\ \A k \in DOMAIN rows \ d.del :
             k \notin DOMAIN d.new \cup DOMAIN d.mod
                 => Layer(rows, d)[k] = rows[k]
  BY LayerRows, Zenon
<1>3. DOMAIN Layer(rows, d) = DOMAIN rows
  BY <1>1, <1>2
<1>4. \A k \in DOMAIN rows : Layer(rows, d)[k] = rows[k]
  BY <1>1, <1>2
<1>5. Layer(rows, d) = rows
  BY <1>2, <1>3, <1>4, RowsEqual
<1>. QED BY <1>1, <1>5 DEF Fits

(* The deltas es stack up to the rows after, over the scopes 0..m of B.    *)
Restacked(es, n, after, m, B, held, cur) ==
    \E C : /\ Stack(es, C, held, cur)
           /\ C[n] = after
           /\ \A i \in 0..m : C[i] = B[i]

LEMMA PushStack ==
    ASSUME NEW ds, NEW B, NEW held, NEW cur, Stack(ds, B, held, cur),
           NEW d \in Delta, Touched(d) = {},
           Recent(d.previous, held, cur.ledgerSeq),
           d.header = Around(ds, Len(ds) + 1, cur), d.outer = d.header,
           Fresh(B[Len(ds)], d.header)
    PROVE  Restacked(Append(ds, d), Len(ds) + 1, B[Len(ds)],
                     Len(ds), B, held, cur)
<1>. DEFINE n == Len(ds)
            es == Append(ds, d)
            C == [i \in 0..n + 1 |-> IF i = n + 1 THEN B[n] ELSE B[i]]
<1>1. /\ ds \in Seq(Delta) /\ n \in Nat
      /\ B \in [0..n -> Rows] /\ B[n] \in Rows
      /\ \A i \in 0..n : B[i] \in Rows
  BY StackTypes
<1>2. /\ es \in Seq(Delta) /\ Len(es) = n + 1 /\ es[n + 1] = d
      /\ \A i \in 1..n : es[i] = ds[i]
  BY <1>1
<1>3. C \in [0..Len(es) -> Rows]
  BY <1>1, <1>2
<1>4. C[n + 1] = B[n] /\ \A i \in 0..n : C[i] = B[i]
  BY <1>1
<1>5. C[0] = held
  BY <1>1, <1>4 DEF Stack
<1>. HIDE DEF es, C
<1>6. d.header.ledgerSeq = cur.ledgerSeq
  <2>1. CASE n = 0
    BY <2>1 DEF Around
  <2>2. CASE n > 0
    <3>1. n \in 1..n /\ d.header = ds[n].header
      BY <2>2, <1>1 DEF Around
    <3>2. Scope(B[n - 1], B[n], ds[n], held, cur)
      BY <3>1 DEF Stack
    <3>. QED BY <3>1, <3>2 DEF Scope
  <2>. QED BY <1>1, <2>1, <2>2
<1>7. Scope(B[n], B[n], d, held, cur)
  <2>1. Layer(B[n], d) = B[n] /\ Fits(B[n], d)
    BY <1>1, LayerUntouched
  <2>2. Recent(B[n], held, cur.ledgerSeq)
    BY <1>1, StackRecent
  <2>. QED BY <2>1, <2>2, <1>6 DEF Scope
<1>8. ASSUME NEW i \in 1..n + 1
      PROVE  /\ Scope(C[i - 1], C[i], es[i], held, cur)
             /\ es[i].outer = Around(es, i, cur)
  <2>1. CASE i = n + 1
    <3>1. C[i - 1] = B[n] /\ C[i] = B[n] /\ es[i] = d
      BY <2>1, <1>1, <1>2, <1>4
    <3>2. Around(es, i, cur) = Around(ds, i, cur)
      BY <2>1, <1>1, <1>2 DEF Around
    <3>. QED BY <3>1, <3>2, <2>1, <1>7
  <2>2. CASE i \in 1..n
    <3>1. C[i - 1] = B[i - 1] /\ C[i] = B[i] /\ es[i] = ds[i]
      BY <2>2, <1>1, <1>2, <1>4
    <3>2. Around(es, i, cur) = Around(ds, i, cur)
      BY <2>2, <1>1, <1>2 DEF Around
    <3>. QED BY <3>1, <3>2, <2>2 DEF Stack
  <2>. QED BY <1>1, <2>1, <2>2
<1>9. Stack(es, C, held, cur)
  <2>1. cur \in Header
    BY DEF Stack
  <2>. QED BY <1>2, <1>3, <1>5, <1>8, <2>1 DEF Stack
<1>. QED BY <1>4, <1>9 DEF es, Restacked

LEMMA PopStack ==
    ASSUME NEW ds, NEW B, NEW held, NEW cur, Stack(ds, B, held, cur),
           NEW n \in 0..Len(ds)
    PROVE  \E C : /\ Stack(SubSeq(ds, 1, n), C, held, cur)
                  /\ \A i \in 0..n : C[i] = B[i]
<1>. DEFINE es == SubSeq(ds, 1, n)
            C == [i \in 0..n |-> B[i]]
<1>1. /\ ds \in Seq(Delta) /\ Len(ds) \in Nat
      /\ \A i \in 0..Len(ds) : B[i] \in Rows
  BY StackTypes
<1>2. /\ es \in Seq(Delta) /\ Len(es) = n
      /\ \A i \in 1..n : es[i] = ds[i]
  BY <1>1
<1>3. C \in [0..n -> Rows] /\ \A i \in 0..n : C[i] = B[i]
  BY <1>1
<1>. HIDE DEF es, C
<1>4. ASSUME NEW i \in 1..n
      PROVE  /\ Scope(C[i - 1], C[i], es[i], held, cur)
             /\ es[i].outer = Around(es, i, cur)
  <2>1. C[i - 1] = B[i - 1] /\ C[i] = B[i] /\ es[i] = ds[i]
    BY <1>2, <1>3
  <2>2. Around(es, i, cur) = Around(ds, i, cur)
    BY <1>1, <1>2 DEF Around
  <2>3. i \in 1..Len(ds)
    BY <1>1
  <2>. QED BY <2>1, <2>2, <2>3 DEF Stack
<1>5. C[0] = held /\ cur \in Header
  BY <1>3 DEF Stack
<1>6. Stack(es, C, held, cur)
  BY <1>2, <1>3, <1>4, <1>5 DEF Stack
<1>. QED BY <1>3, <1>6 DEF es

LEMMA ReplaceTop ==
    ASSUME NEW ds, NEW B, NEW held, NEW cur, Stack(ds, B, held, cur),
           Len(ds) > 0, NEW d \in Delta, NEW after \in Rows,
           Scope(B[Len(ds) - 1], after, d, held, cur),
           d.outer = ds[Len(ds)].outer
    PROVE  Restacked(Append(Front(ds), d), Len(ds), after,
                     Len(ds) - 1, B, held, cur)
<1>. DEFINE n == Len(ds)
            es == Append(Front(ds), d)
            C == [i \in 0..n |-> IF i = n THEN after ELSE B[i]]
<1>1. /\ ds \in Seq(Delta) /\ n \in Nat /\ n > 0
      /\ \A i \in 0..n : B[i] \in Rows
  BY StackTypes
<1>2. /\ es \in Seq(Delta) /\ Len(es) = n /\ es[n] = d
      /\ \A i \in 1..n - 1 : es[i] = ds[i]
  <2>1. /\ Front(ds) \in Seq(Delta) /\ Len(Front(ds)) = n - 1
        /\ \A i \in 1..n - 1 : Front(ds)[i] = ds[i]
    BY <1>1, FrontIs
  <2>. HIDE DEF n
  <2>. QED BY <1>1, <2>1
<1>3. /\ C \in [0..n -> Rows] /\ C[n] = after
      /\ \A i \in 0..n - 1 : C[i] = B[i]
  BY <1>1
<1>. HIDE DEF es, C
<1>4. ASSUME NEW i \in 1..n
      PROVE  /\ Scope(C[i - 1], C[i], es[i], held, cur)
             /\ es[i].outer = Around(es, i, cur)
  <2>1. Around(es, i, cur) = Around(ds, i, cur)
    BY <1>1, <1>2 DEF Around
  <2>2. ds[i].outer = Around(ds, i, cur)
    BY DEF Stack
  <2>3. CASE i = n
    <3>1. C[i - 1] = B[n - 1] /\ C[i] = after /\ es[i] = d
      BY <2>3, <1>1, <1>2, <1>3
    <3>. QED BY <3>1, <2>1, <2>2, <2>3
  <2>4. CASE i \in 1..n - 1
    <3>1. C[i - 1] = B[i - 1] /\ C[i] = B[i] /\ es[i] = ds[i]
      BY <2>4, <1>1, <1>2, <1>3
    <3>2. Scope(B[i - 1], B[i], ds[i], held, cur)
      BY DEF Stack
    <3>. QED BY <3>1, <3>2, <2>1, <2>2
  <2>. QED BY <1>1, <2>3, <2>4
<1>5. C[0] = held /\ cur \in Header
  BY <1>1, <1>3 DEF Stack
<1>6. Stack(es, C, held, cur)
  BY <1>2, <1>3, <1>4, <1>5 DEF Stack
<1>. QED BY <1>3, <1>6 DEF es, Restacked

LEMMA CommitStack ==
    ASSUME NEW ds, NEW B, NEW held, NEW cur, Stack(ds, B, held, cur),
           Len(ds) > 1
    PROVE  /\ Len(Committed(ds)) = Len(ds) - 1
           /\ \A i \in 1..Len(ds) - 2 : Committed(ds)[i] = ds[i]
           /\ Restacked(Committed(ds), Len(ds) - 1, B[Len(ds)],
                        Len(ds) - 2, B, held, cur)
<1>. DEFINE n == Len(ds)
            fs == Front(ds)
            c == commit(ds[n - 1], ds[n])
<1>1. /\ ds \in Seq(Delta) /\ n \in Nat /\ n > 1
      /\ \A i \in 0..n : B[i] \in Rows
      /\ \A i \in 1..n : ds[i] \in Delta
  BY StackTypes
<1>2. /\ fs \in Seq(Delta) /\ Len(fs) = n - 1
      /\ \A i \in 1..n - 1 : fs[i] = ds[i]
  BY <1>1, FrontIs
<1>3. Committed(ds) = Append(Front(fs), c)
  <2>1. Last(ds) = ds[n] /\ Last(fs) = ds[n - 1]
    BY <1>1, <1>2 DEF Last
  <2>. QED BY <2>1 DEF Committed
<1>4. fs = SubSeq(ds, 1, n - 1)
  BY DEF Front
<1>. HIDE DEF fs, c
<1>5. /\ c \in Delta /\ Scope(B[n - 2], B[n], c, held, cur)
      /\ c.outer = ds[n - 1].outer
  <2>1. n - 1 \in 1..n /\ n \in 1..n /\ n - 2 \in 0..n /\ (n - 1) - 1 = n - 2
    BY <1>1
  <2>2. /\ Scope(B[n - 2], B[n - 1], ds[n - 1], held, cur)
        /\ Scope(B[n - 1], B[n], ds[n], held, cur)
    BY <2>1 DEF Stack
  <2>3. B[n - 2] \in Rows /\ ds[n - 1] \in Delta /\ ds[n] \in Delta
    BY <1>1, <2>1
  <2>. QED BY <2>2, <2>3, CommitDelta, Zenon DEF c
<1>6. PICK A : Stack(fs, A, held, cur) /\ \A i \in 0..n - 1 : A[i] = B[i]
  <2>1. n - 1 \in 0..Len(ds)
    BY <1>1
  <2>. HIDE DEF n
  <2>. QED BY <2>1, <1>4, PopStack
<1>7. /\ Scope(A[Len(fs) - 1], B[n], c, held, cur)
      /\ c.outer = fs[Len(fs)].outer
  <2>1. Len(fs) - 1 = n - 2 /\ n - 2 \in 0..n - 1 /\ n - 1 \in 1..n - 1
    BY <1>1, <1>2
  <2>. QED BY <2>1, <1>2, <1>5, <1>6
<1>8. PICK C : /\ Stack(Append(Front(fs), c), C, held, cur)
               /\ C[Len(fs)] = B[n]
               /\ \A i \in 0..Len(fs) - 1 : C[i] = A[i]
  <2>1. Len(fs) > 0 /\ B[n] \in Rows /\ c \in Delta
    BY <1>1, <1>2, <1>5
  <2>2. Restacked(Append(Front(fs), c), Len(fs), B[n],
                  Len(fs) - 1, A, held, cur)
    BY <2>1, <1>6, <1>7, ReplaceTop, Zenon
  <2>. QED BY <2>2 DEF Restacked
<1>9. C[n - 1] = B[n] /\ \A i \in 0..n - 2 : C[i] = B[i]
  <2>1. Len(fs) - 1 = n - 2 /\ \A i \in 0..n - 2 : i \in 0..n - 1
    BY <1>1, <1>2
  <2>. QED BY <2>1, <1>2, <1>6, <1>8
<1>10. /\ Len(Committed(ds)) = n - 1
       /\ \A i \in 1..n - 2 : Committed(ds)[i] = ds[i]
  <2>. DEFINE gs == Front(fs)
  <2>1. /\ gs \in Seq(Delta) /\ Len(gs) = n - 2
        /\ \A i \in 1..n - 2 : gs[i] = fs[i]
    <3>1. Len(fs) > 0 /\ Len(fs) - 1 = n - 2
      BY <1>1, <1>2
    <3>. QED BY <3>1, <1>2, FrontIs, Zenon
  <2>. HIDE DEF gs
  <2>2. /\ Len(Append(gs, c)) = n - 1
        /\ \A i \in 1..n - 2 : Append(gs, c)[i] = gs[i]
    BY <1>1, <2>1
  <2>. QED BY <1>1, <1>2, <1>3, <2>1, <2>2 DEF gs
<1>. QED BY <1>3, <1>8, <1>9, <1>10 DEF Restacked

-----------------------------------------------------------------------------
(* What a scope leaves alone.                                              *)

LEMMA HeldUntouched ==
    ASSUME NEW rows \in Rows, NEW d \in Delta, NEW k, k \notin Touched(d)
    PROVE  Held(Layer(rows, d), k) = Held(rows, k)
<1>1. /\ DOMAIN Layer(rows, d)
             = DOMAIN d.new \cup DOMAIN d.mod \cup (DOMAIN rows \ d.del)
      /\ \A x \in DOMAIN rows \ d.del :
             x \notin DOMAIN d.new \cup DOMAIN d.mod
                 => Layer(rows, d)[x] = rows[x]
  BY LayerRows, Zenon
<1>2. k \notin DOMAIN d.new \cup DOMAIN d.mod \cup d.del
  BY DEF Touched
<1>. QED BY <1>1, <1>2 DEF Held

LEMMA HeldTouched ==
    ASSUME NEW rows \in Rows, NEW d \in Delta, Fits(rows, d),
           NEW k, k \in Touched(d)
    PROVE  Held(Layer(rows, d), k) = Held(getLiveEntries(d), k)
<1>1. d.new \in Rows /\ d.mod \in Rows
  BY DeltaFields
<1>2. /\ DOMAIN Layer(rows, d)
             = DOMAIN d.new \cup DOMAIN d.mod \cup (DOMAIN rows \ d.del)
      /\ \A x \in DOMAIN d.new : Layer(rows, d)[x] = d.new[x]
      /\ \A x \in DOMAIN d.mod :
             x \notin DOMAIN d.new => Layer(rows, d)[x] = d.mod[x]
  BY LayerRows, Zenon
<1>. DEFINE live == getLiveEntries(d)
<1>3. /\ DOMAIN live = DOMAIN d.new \cup DOMAIN d.mod
      /\ \A x \in DOMAIN d.new : live[x] = d.new[x]
      /\ \A x \in DOMAIN d.mod : x \notin DOMAIN d.new => live[x] = d.mod[x]
  BY <1>1, OverRows, Zenon DEF getLiveEntries
<1>. HIDE DEF live
<1>4. CASE k \in DOMAIN d.new \cup DOMAIN d.mod
  <2>1. Layer(rows, d)[k] = live[k]
    BY <1>2, <1>3, <1>4
  <2>2. k \in DOMAIN Layer(rows, d) /\ k \in DOMAIN live
    BY <1>2, <1>3, <1>4
  <2>. QED BY <2>1, <2>2, Zenon DEF Held, live
<1>5. CASE k \notin DOMAIN d.new \cup DOMAIN d.mod
  <2>1. k \in d.del
    BY <1>5 DEF Touched
  <2>2. k \notin DOMAIN Layer(rows, d) /\ k \notin DOMAIN live
    BY <1>2, <1>3, <1>5, <2>1
  <2>. QED BY <2>2, Zenon DEF Held, live
<1>. QED BY <1>4, <1>5

(* There are never more than five scopes.                                  *)
LEMMA Chain ==
    ASSUME NEW h, NEW N \in 0..5, NEW n \in 0..N,
           \A i \in n + 1..N : h[i] = h[i - 1]
    PROVE  h[N] = h[n]
<1>1. /\ 1 \in n + 1..N => h[1] = h[0]
      /\ 2 \in n + 1..N => h[2] = h[1]
      /\ 3 \in n + 1..N => h[3] = h[2]
      /\ 4 \in n + 1..N => h[4] = h[3]
      /\ 5 \in n + 1..N => h[5] = h[4]
  OBVIOUS
<1>2. CASE n = 0
  BY <1>1, <1>2
<1>3. CASE n = 1
  BY <1>1, <1>3
<1>4. CASE n = 2
  BY <1>1, <1>4
<1>5. CASE n = 3
  BY <1>1, <1>5
<1>6. CASE n \in {4, 5}
  BY <1>1, <1>6
<1>. QED BY <1>2, <1>3, <1>4, <1>5, <1>6

(* Every key that no delta above scope n touches is held alike there and    *)
(* by the innermost scope.                                                  *)
Inherits(ds, B) ==
    \A n \in 0..Len(ds) : \A k :
        (\A i \in 1..Len(ds) : i > n => k \notin Touched(ds[i]))
            => Held(B[Len(ds)], k) = Held(B[n], k)

LEMMA UntouchedAbove ==
    ASSUME NEW ds, NEW B, NEW held, NEW cur, Stack(ds, B, held, cur),
           Len(ds) \in 0..5
    PROVE  Inherits(ds, B)
<1>. SUFFICES ASSUME NEW n \in 0..Len(ds), NEW k,
                     \A i \in 1..Len(ds) : i > n => k \notin Touched(ds[i])
              PROVE  Held(B[Len(ds)], k) = Held(B[n], k)
  BY DEF Inherits
<1>. DEFINE N == Len(ds)
            h == [i \in 0..N |-> Held(B[i], k)]
<1>1. /\ N \in 0..5 /\ \A i \in 0..N : B[i] \in Rows
      /\ \A i \in 1..N : ds[i] \in Delta
  BY StackTypes
<1>2. ASSUME NEW i \in n + 1..N PROVE h[i] = h[i - 1]
  <2>1. i \in 1..N /\ i \in 0..N /\ i - 1 \in 0..N /\ i > n
    BY <1>1
  <2>2. B[i] = Layer(B[i - 1], ds[i])
    BY <2>1 DEF Stack, Scope
  <2>3. Held(B[i], k) = Held(B[i - 1], k)
    BY <1>1, <2>1, <2>2, HeldUntouched
  <2>. QED BY <2>1, <2>3
<1>3. h[N] = Held(B[N], k) /\ h[n] = Held(B[n], k)
  BY <1>1
<1>. HIDE DEF h
<1>4. h[N] = h[n]
  BY <1>1, <1>2, Chain, Zenon
<1>. QED BY <1>3, <1>4

-----------------------------------------------------------------------------
(* Loads and the cache.                                                    *)

LEMMA FlushKeepsCache ==
    ASSUME CacheIsConsistentWithDatabase, NEW keys,
           cache' = flushCachedEntry(keys),
           \A k : k \notin keys => Held(sql'.rows, k) = Held(sql.rows, k)
    PROVE  CacheIsConsistentWithDatabase'
<1>1. SUFFICES ASSUME NEW k \in DOMAIN cache' PROVE cache'[k] = Stored(k)'
  BY DEF CacheIsConsistentWithDatabase
<1>2. k \in DOMAIN cache /\ k \notin keys /\ cache'[k] = cache[k]
  BY <1>1 DEF flushCachedEntry, Without
<1>3. Held(sql'.rows, k) = Held(sql.rows, k)
  BY <1>2
<1>4. Stored(k)' = Stored(k)
  BY <1>3 DEF Held, Stored
<1>. QED BY <1>2, <1>4 DEF CacheIsConsistentWithDatabase

LEMMA LoadKeepsCache ==
    ASSUME CacheIsConsistentWithDatabase, NEW k,
           cache' \in CachedByLoad(k), sql' = sql
    PROVE  CacheIsConsistentWithDatabase'
<1>1. SUFFICES ASSUME NEW x \in DOMAIN cache' PROVE cache'[x] = Stored(x)
  BY DEF CacheIsConsistentWithDatabase, Stored
<1>. DEFINE c == Over(Single(k, Stored(k)), cache)
<1>2. \A y \in DOMAIN c : c[y] = Stored(y)
  BY DEF Over, Single, CacheIsConsistentWithDatabase
<1>3. CASE cache' = cache
  BY <1>3 DEF CacheIsConsistentWithDatabase
<1>4. CASE cache' = c
  BY <1>2, <1>4
<1>. HIDE DEF c
<1>5. CASE \E other \in DOMAIN c : cache' = Without(c, {other})
  <2>1. PICK other \in DOMAIN c : cache' = Without(c, {other})
    BY <1>5
  <2>2. x \in DOMAIN c /\ cache'[x] = c[x]
    BY <2>1, <1>1 DEF Without
  <2>. QED BY <2>2, <1>2
<1>. QED BY <1>3, <1>4, <1>5 DEF CachedByLoad, putCachedEntry, c

LEMMA LoadIsStored ==
    ASSUME CacheIsConsistentWithDatabase, NEW k
    PROVE  loadAccount(k) = Stored(k)
BY DEF CacheIsConsistentWithDatabase, loadAccount

LEMMA RecordedDelta ==
    ASSUME CacheIsConsistentWithDatabase, sql.rows \in Rows,
           NEW k \in Key, NEW d \in Delta, NEW held, NEW seq,
           Recent(sql.rows, held, seq), Recent(d.previous, held, seq)
    PROVE  /\ Recorded(d, k) \in Delta
           /\ \A rows : /\ Fits(rows, d) => Fits(rows, Recorded(d, k))
                        /\ Layer(rows, Recorded(d, k)) = Layer(rows, d)
           /\ Touched(Recorded(d, k)) = Touched(d)
           /\ Recorded(d, k).header = d.header
           /\ Recorded(d, k).outer = d.outer
           /\ Recent(Recorded(d, k).previous, held, seq)
<1>1. CASE loadAccount(k) = Null
  BY <1>1, ZenonT(30) DEF Recorded
<1>2. CASE loadAccount(k) # Null
  <2>. DEFINE e == sql.rows[k]
              s == Single(k, e)
              c == recordEntry(d, s)
  <2>1. k \in DOMAIN sql.rows /\ loadAccount(k) = e
    BY <1>2, LoadIsStored DEF Stored
  <2>2. e \in Entry
    BY <2>1, RowsElim
  <2>3. s \in Rows /\ DOMAIN s = {k} /\ s[k] = e
    BY <2>2, SingleRows, ZenonT(30)
  <2>4. Recorded(d, k) = c
    BY <1>2, <2>1 DEF Recorded
  <2>5. Recent(s, held, seq)
    <3>. HIDE DEF s
    <3>. QED BY <2>1, <2>3 DEF Recent
  <2>6. Recent(Over(d.previous, s), held, seq)
    <3>1. d.previous \in Rows
      BY DeltaFields
    <3>. HIDE DEF s
    <3>. QED BY <3>1, <2>3, <2>5, RecentOver
  <2>. HIDE DEF s
  <2>7. /\ c \in Delta
        /\ \A rows : /\ Fits(rows, d) => Fits(rows, c)
                     /\ Layer(rows, c) = Layer(rows, d)
        /\ Touched(c) = Touched(d)
        /\ c.previous = Over(d.previous, s)
        /\ c.header = d.header /\ c.outer = d.outer
    BY <2>3, RecordEntry, Zenon
  <2>. HIDE DEF c
  <2>. QED BY <2>4, <2>6, <2>7, Zenon
<1>. QED BY <1>1, <1>2

LEMMA OpenDelta ==
    ASSUME NEW header \in Header, NEW held, NEW seq
    PROVE  /\ Open(header) \in Delta
           /\ Touched(Open(header)) = {}
           /\ Open(header).header = header /\ Open(header).outer = header
           /\ Recent(Open(header).previous, held, seq)
<1>1. Empty \in Rows /\ DOMAIN Empty = {}
  BY EmptyRows
<1>2. Open(header) \in Delta
  BY <1>1 DEF Open, Delta
<1>3. Touched(Open(header)) = {}
  BY <1>1 DEF Open, Touched
<1>4. Recent(Empty, held, seq)
  BY <1>1 DEF Recent
<1>. QED BY <1>2, <1>3, <1>4 DEF Open
=============================================================================
