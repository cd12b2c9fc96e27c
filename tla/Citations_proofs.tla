-------------------------- MODULE Citations_proofs --------------------------
(***************************************************************************)
(* Theorems about the citations: what the reader of Citations makes of the *)
(* output of each style is the list of citations it was made of.           *)
(***************************************************************************)
EXTENDS Citations, SequenceFacts, FiniteSetTheorems

-----------------------------------------------------------------------------
(* Reading token by token.                                                 *)

(* The states the reader goes through exist: Scan is the last of them.     *)
LEMMA ScanSteps ==
  ASSUME NEW r, NEW s \in Seq(Tokens)
  PROVE  \E read : /\ read[0] = r
                   /\ \A p \in 1 .. Len(s) : read[p] = ReadToken(read[p - 1], s[p])
                   /\ Scan(r, s) = read[Len(s)]
<1> DEFINE Upto(n, f) == /\ f = [p \in 0 .. n |-> f[p]]
                         /\ f[0] = r
                         /\ \A p \in 1 .. n : f[p] = ReadToken(f[p - 1], s[p])
           D == {n \in Nat : \E f : Upto(n, f)}
<1>1. Len(s) \in Nat
  BY LenProperties
<1>2. 0 \in D
  <2>1. Upto(0, [p \in 0 .. 0 |-> r])
    OBVIOUS
  <2> HIDE DEF Upto
  <2> QED BY <2>1
<1>3. ASSUME NEW n \in Nat, n \in D PROVE n + 1 \in D
  <2>1. PICK f : Upto(n, f)
    BY <1>3
  <2> DEFINE g == [p \in 0 .. n + 1 |-> IF p = n + 1 THEN ReadToken(f[n], s[n + 1]) ELSE f[p]]
  <2>2. g = [p \in 0 .. n + 1 |-> g[p]] /\ g[0] = r
    BY <2>1
  <2>3. ASSUME NEW p \in 1 .. n + 1 PROVE g[p] = ReadToken(g[p - 1], s[p])
    <3>1. CASE p = n + 1
      <4>1. g[p] = ReadToken(f[n], s[n + 1]) /\ g[p - 1] = f[n] /\ s[p] = s[n + 1]
        BY <3>1
      <4> QED BY <4>1
    <3>2. CASE p # n + 1
      <4>1. p \in 1 .. n /\ g[p] = f[p] /\ g[p - 1] = f[p - 1]
        BY <3>2
      <4>2. f[p] = ReadToken(f[p - 1], s[p])
        BY <2>1, <4>1
      <4> QED BY <4>1, <4>2
    <3> QED BY <3>1, <3>2
  <2> HIDE DEF g
  <2>4. Upto(n + 1, g)
    BY <2>2, <2>3
  <2> HIDE DEF Upto
  <2> QED BY <2>4
<1>4. Len(s) \in D
  <2> HIDE DEF D
  <2> QED BY <1>1, <1>2, <1>3, NatSetInduction
<1>5. PICK f : Upto(Len(s), f)
  BY <1>4
<1> DEFINE Steps == [p \in 0 .. Len(s) |-> IF p = 0 THEN r ELSE ReadToken(f[p - 1], s[p])]
           read == CHOOSE read : read = [p \in 0 .. Len(s) |-> IF p = 0 THEN r ELSE ReadToken(read[p - 1], s[p])]
<1>6. f = Steps
  <2>1. ASSUME NEW p \in 0 .. Len(s) PROVE f[p] = Steps[p]
    <3>1. CASE p = 0
      BY <1>5, <3>1
    <3>2. CASE p # 0
      <4>1. p \in 1 .. Len(s)
        BY <1>1, <3>2
      <4>2. f[p] = ReadToken(f[p - 1], s[p])
        BY <1>5, <4>1
      <4> QED BY <3>2, <4>2
    <3> QED BY <3>1, <3>2
  <2>2. Steps = [p \in 0 .. Len(s) |-> Steps[p]]
    OBVIOUS
  <2> HIDE DEF Steps
  <2> QED BY <1>5, <2>1, <2>2
<1>7. read = [p \in 0 .. Len(s) |-> IF p = 0 THEN r ELSE ReadToken(read[p - 1], s[p])]
  <2> HIDE DEF Upto
  <2> QED BY <1>6
<1>8. Scan(r, s) = read[Len(s)]
  BY DEF Scan
<1> HIDE DEF read
<1> QED BY <1>1, <1>7, <1>8

(* The states are determined by their first one.                           *)
LEMMA ScanUnique ==
  ASSUME NEW r, NEW s \in Seq(Tokens), NEW read, read[0] = r,
         \A p \in 1 .. Len(s) : read[p] = ReadToken(read[p - 1], s[p])
  PROVE  Scan(r, s) = read[Len(s)]
<1>1. PICK f : /\ f[0] = r
               /\ \A p \in 1 .. Len(s) : f[p] = ReadToken(f[p - 1], s[p])
               /\ Scan(r, s) = f[Len(s)]
  BY ScanSteps
<1>2. Len(s) \in Nat
  BY LenProperties
<1> DEFINE D == {p \in Nat : p <= Len(s) => f[p] = read[p]}
<1>3. 0 \in D
  BY <1>1
<1>4. ASSUME NEW p \in Nat, p \in D PROVE p + 1 \in D
  <2>1. CASE p + 1 <= Len(s)
    <3>1. p + 1 \in 1 .. Len(s) /\ (p + 1) - 1 = p /\ f[p] = read[p]
      BY <1>2, <1>4, <2>1
    <3>2. f[p + 1] = ReadToken(f[p], s[p + 1]) /\ read[p + 1] = ReadToken(read[p], s[p + 1])
      BY <1>1, <3>1
    <3> QED BY <3>1, <3>2
  <2>2. CASE ~(p + 1 <= Len(s))
    BY <2>2
  <2> QED BY <2>1, <2>2
<1>5. Len(s) \in D
  <2> HIDE DEF D
  <2> QED BY <1>2, <1>3, <1>4, NatSetInduction
<1> QED BY <1>1, <1>5

(* The reader goes from q to r by reading s.                               *)
Reads(q, s, r) == s \in Seq(Tokens) /\ Scan(q, s) = r

LEMMA ReadsNothing ==
  ASSUME NEW q PROVE Reads(q, <<>>, q)
<1> DEFINE s == <<>>
<1>1. s \in Seq(Tokens) /\ Len(s) = 0
  OBVIOUS
<1> HIDE DEF s
<1>2. PICK f : /\ f[0] = q
               /\ \A p \in 1 .. Len(s) : f[p] = ReadToken(f[p - 1], s[p])
               /\ Scan(q, s) = f[Len(s)]
  BY <1>1, ScanSteps
<1>3. Reads(q, s, q)
  BY <1>1, <1>2 DEF Reads
<1> QED BY <1>3 DEF s

LEMMA ReadsOne ==
  ASSUME NEW q, NEW t \in Tokens PROVE Reads(q, <<t>>, ReadToken(q, t))
<1>1. <<t>> \in Seq(Tokens) /\ Len(<<t>>) = 1 /\ <<t>>[1] = t
  OBVIOUS
<1>2. PICK f : f[0] = q /\ f[1] = ReadToken(f[1 - 1], <<t>>[1]) /\ Scan(q, <<t>>) = f[1]
  BY <1>1, ScanSteps
<1>3. 1 - 1 = 0
  OBVIOUS
<1> QED BY <1>1, <1>2, <1>3 DEF Reads

LEMMA ReadsBoth ==
  ASSUME NEW q, NEW s, NEW r, NEW t, NEW u, Reads(q, s, r), Reads(r, t, u)
  PROVE  Reads(q, s \o t, u)
<1>1. s \in Seq(Tokens) /\ t \in Seq(Tokens) /\ Scan(q, s) = r /\ Scan(r, t) = u
  BY DEF Reads
<1>2. PICK f : /\ f[0] = q
               /\ \A p \in 1 .. Len(s) : f[p] = ReadToken(f[p - 1], s[p])
               /\ r = f[Len(s)]
  BY <1>1, ScanSteps
<1>3. PICK g : /\ g[0] = r
               /\ \A p \in 1 .. Len(t) : g[p] = ReadToken(g[p - 1], t[p])
               /\ u = g[Len(t)]
  BY <1>1, ScanSteps
<1>4. /\ s \o t \in Seq(Tokens)
      /\ Len(s) \in Nat /\ Len(t) \in Nat /\ Len(s \o t) = Len(s) + Len(t)
      /\ \A i \in 1 .. Len(s) + Len(t) : (s \o t)[i] = IF i <= Len(s) THEN s[i] ELSE t[i - Len(s)]
  BY <1>1, ConcatProperties, LenProperties
<1> DEFINE h == [p \in 0 .. Len(s) + Len(t) |-> IF p <= Len(s) THEN f[p] ELSE g[p - Len(s)]]
<1>5. h[0] = q /\ h[Len(s) + Len(t)] = u
  BY <1>2, <1>3, <1>4
<1>6. ASSUME NEW p \in 1 .. Len(s \o t) PROVE h[p] = ReadToken(h[p - 1], (s \o t)[p])
  <2>1. CASE p <= Len(s)
    <3>1. p \in 1 .. Len(s) /\ h[p] = f[p] /\ h[p - 1] = f[p - 1] /\ (s \o t)[p] = s[p]
      BY <1>4, <2>1
    <3> HIDE DEF h
    <3>2. f[p] = ReadToken(f[p - 1], s[p])
      BY <1>2, <3>1
    <3> QED BY <3>1, <3>2
  <2>2. CASE p > Len(s)
    <3> DEFINE i == p - Len(s)
    <3>1. i \in 1 .. Len(t) /\ h[p] = g[i] /\ (s \o t)[p] = t[i]
      BY <1>4, <2>2
    <3>2. h[p - 1] = g[i - 1]
      <4>1. CASE i = 1
        <5>1. h[p - 1] = f[Len(s)]
          BY <1>4, <4>1
        <5>2. i - 1 = 0
          BY <4>1
        <5> HIDE DEF h, i
        <5> QED BY <1>2, <1>3, <5>1, <5>2
      <4>2. CASE i # 1
        <5>1. p - 1 \in 0 .. Len(s) + Len(t) /\ ~(p - 1 <= Len(s)) /\ (p - 1) - Len(s) = i - 1
          BY <1>4, <2>2, <4>2
        <5> HIDE DEF i
        <5> QED BY <5>1
      <4> QED BY <4>1, <4>2
    <3> HIDE DEF h, i
    <3>3. g[i] = ReadToken(g[i - 1], t[i])
      BY <1>3, <3>1
    <3> QED BY <3>1, <3>2, <3>3
  <2> QED BY <1>4, <2>1, <2>2
<1> HIDE DEF h
<1>7. Scan(q, s \o t) = h[Len(s \o t)]
  BY <1>4, <1>5, <1>6, ScanUnique
<1> QED BY <1>4, <1>5, <1>7 DEF Reads

(* A rope is read part by part.                                            *)
LEMMA ReadsJoined ==
  ASSUME NEW parts, NEW K \in Nat, DOMAIN parts = 1 .. K, Len(parts) = K, NEW st,
         \A n \in 1 .. K : Reads(st[n - 1], parts[n], st[n])
  PROVE  Reads(st[0], Joined(parts), st[K])
<1> DEFINE Cat(x, n) == x \o parts[n]
           Upto(n, b) == /\ b = [p \in 0 .. n |-> b[p]]
                         /\ b[0] = <<>>
                         /\ \A p \in 1 .. n : b[p] = Cat(b[p - 1], p)
           D == {n \in Nat : \E b : Upto(n, b)}
<1> HIDE DEF Cat
<1>1. 0 \in D
  <2>1. Upto(0, [p \in 0 .. 0 |-> <<>>])
    OBVIOUS
  <2> HIDE DEF Upto
  <2> QED BY <2>1
<1>2. ASSUME NEW n \in Nat, n \in D PROVE n + 1 \in D
  <2>1. PICK b : Upto(n, b)
    BY <1>2
  <2> DEFINE c == [p \in 0 .. n + 1 |-> IF p = n + 1 THEN Cat(b[n], n + 1) ELSE b[p]]
  <2>2. c = [p \in 0 .. n + 1 |-> c[p]] /\ c[0] = <<>>
    BY <2>1
  <2>3. ASSUME NEW p \in 1 .. n + 1 PROVE c[p] = Cat(c[p - 1], p)
    <3>1. CASE p = n + 1
      BY <3>1
    <3>2. CASE p # n + 1
      <4>1. p \in 1 .. n /\ c[p] = b[p] /\ c[p - 1] = b[p - 1]
        BY <3>2
      <4>2. b[p] = Cat(b[p - 1], p)
        BY <2>1, <4>1
      <4> QED BY <4>1, <4>2
    <3> QED BY <3>1, <3>2
  <2> HIDE DEF c
  <2>4. Upto(n + 1, c)
    BY <2>2, <2>3
  <2> HIDE DEF Upto
  <2> QED BY <2>4
<1>3. K \in D
  <2> HIDE DEF D
  <2> QED BY <1>1, <1>2, NatSetInduction
<1>4. PICK b : Upto(K, b)
  BY <1>3
<1> DEFINE Buffers == [p \in 0 .. K |-> IF p = 0 THEN <<>> ELSE Cat(b[p - 1], p)]
           buffer == CHOOSE f : f = [p \in 0 .. K |-> IF p = 0 THEN <<>> ELSE Cat(f[p - 1], p)]
<1>5. b = Buffers
  <2>1. ASSUME NEW p \in 0 .. K PROVE b[p] = Buffers[p]
    BY <1>4
  <2>2. Buffers = [p \in 0 .. K |-> Buffers[p]]
    OBVIOUS
  <2> HIDE DEF Buffers
  <2> QED BY <1>4, <2>1, <2>2
<1>6. buffer = [p \in 0 .. K |-> IF p = 0 THEN <<>> ELSE Cat(buffer[p - 1], p)]
  <2> HIDE DEF Upto
  <2> QED BY <1>5
<1>7. Joined(parts) = buffer[K]
  BY DEF Joined, Cat
<1> HIDE DEF buffer
<1>8. buffer[0] = <<>> /\ \A n \in 1 .. K : buffer[n] = Cat(buffer[n - 1], n)
  BY <1>6
<1> DEFINE R == {n \in Nat : n <= K => Reads(st[0], buffer[n], st[n])}
<1>9. 0 \in R
  BY <1>8, ReadsNothing
<1>10. ASSUME NEW n \in Nat, n \in R PROVE n + 1 \in R
  <2>1. CASE n + 1 <= K
    <3>1. n + 1 \in 1 .. K /\ (n + 1) - 1 = n
      BY <2>1
    <3>2. Reads(st[0], buffer[n], st[n]) /\ Reads(st[n], parts[n + 1], st[n + 1])
      BY <1>10, <2>1, <3>1
    <3>3. buffer[n + 1] = buffer[n] \o parts[n + 1]
      BY <1>8, <3>1 DEF Cat
    <3>4. Reads(st[0], buffer[n] \o parts[n + 1], st[n + 1])
      BY <3>2, ReadsBoth
    <3>5. Reads(st[0], buffer[n + 1], st[n + 1])
      BY <3>3, <3>4
    <3> HIDE DEF Reads
    <3> QED BY <3>1, <3>5
  <2>2. CASE ~(n + 1 <= K)
    BY <2>2
  <2> QED BY <2>1, <2>2
<1>11. K \in R
  <2> HIDE DEF R
  <2> QED BY <1>9, <1>10, NatSetInduction
<1> QED BY <1>7, <1>11

-----------------------------------------------------------------------------
(* Short sequences put together.                                           *)
LEMMA Tuples ==
  ASSUME NEW x, NEW y, NEW z
  PROVE  /\ Append(<<>>, x) = <<x>> /\ Append(<<x>>, y) = <<x, y>>
         /\ <<x>> \o <<>> = <<x>> /\ <<>> \o <<x>> = <<x>>
         /\ <<x>> \o <<y>> = <<x, y>> /\ (<<x>> \o <<y>>) \o <<z>> = <<x, y, z>>
<1> DEFINE T == {x, y, z}
           sx == <<x>>
           sy == <<y>>
           sz == <<z>>
           sxy == <<x, y>>
           sxyz == <<x, y, z>>
<1>1. /\ sx \in Seq(T) /\ Len(sx) = 1 /\ sx[1] = x
      /\ sy \in Seq(T) /\ Len(sy) = 1 /\ sy[1] = y
      /\ sz \in Seq(T) /\ Len(sz) = 1 /\ sz[1] = z
  OBVIOUS
<1>2. sxy \in Seq(T) /\ Len(sxy) = 2 /\ sxy[1] = x /\ sxy[2] = y
  OBVIOUS
<1>3. sxyz \in Seq(T) /\ Len(sxyz) = 3 /\ sxyz[1] = x /\ sxyz[2] = y /\ sxyz[3] = z
  OBVIOUS
<1>4. Append(<<>>, x) = <<x>> /\ <<x>> \o <<>> = <<x>> /\ <<>> \o <<x>> = <<x>>
  OBVIOUS
<1>5. y \in T
  OBVIOUS
<1> HIDE DEF T, sx, sy, sz, sxy, sxyz
<1>6. Append(sx, y) = sxy
  <2> DEFINE s == Append(sx, y)
  <2>1. /\ s \in Seq(T) /\ Len(s) = Len(sx) + 1
        /\ \A i \in 1 .. Len(sx) : s[i] = sx[i]
        /\ s[Len(sx) + 1] = y
    <3>1. sx \in Seq(T) /\ DOMAIN sx = 1 .. Len(sx)
      BY <1>1, LenProperties
    <3> QED BY <1>5, <3>1, AppendDomain
  <2> HIDE DEF s
  <2>2. s \in Seq(T) /\ Len(s) = 2 /\ s[1] = x /\ s[2] = y
    BY <1>1, <2>1
  <2>3. s = sxy
    BY <1>2, <2>2, SeqEqual
  <2> QED BY <2>3 DEF s
<1>7. sx \o sy = sxy
  <2> DEFINE s == sx \o sy
  <2>1. s \in Seq(T) /\ Len(s) = 2
        /\ \A i \in 1 .. 2 : s[i] = IF i <= 1 THEN sx[i] ELSE sy[i - 1]
    BY SMTT(30), <1>1, ConcatProperties
  <2> HIDE DEF s
  <2>2. s[1] = x /\ s[2] = y
    BY <1>1, <2>1
  <2>3. s = sxy
    BY <1>2, <2>1, <2>2, SeqEqual
  <2> QED BY <2>3 DEF s
<1>8. sxy \o sz = sxyz
  <2> DEFINE s == sxy \o sz
  <2>1. s \in Seq(T) /\ Len(s) = Len(sxy) + Len(sz)
        /\ \A i \in 1 .. Len(sxy) + Len(sz) : s[i] = IF i <= Len(sxy) THEN sxy[i] ELSE sz[i - Len(sxy)]
    BY <1>1, <1>2, ConcatProperties
  <2> HIDE DEF s
  <2>2. Len(s) = 3 /\ s[1] = x /\ s[2] = y /\ s[3] = z
    BY <1>1, <1>2, <2>1
  <2>3. \A i \in 1 .. Len(s) : s[i] = sxyz[i]
    BY <1>3, <2>2
  <2>4. s = sxyz
    BY <1>3, <2>1, <2>2, <2>3, SeqEqual
  <2> QED BY <2>4 DEF s
<1> QED BY <1>4, <1>6, <1>7, <1>8 DEF sx, sy, sz, sxy, sxyz

(* A state of the reader, field by field; in State nothing was closed that *)
(* was not the innermost.                                                  *)
Reader(open, nested, args, text, bare, near, behind, found) ==
  [open |-> open, nested |-> nested, args |-> args, text |-> text, bare |-> bare,
   near |-> near, behind |-> behind, found |-> found]
State(open, args, text, bare, near, behind, found) ==
  Reader(open, TRUE, args, text, bare, near, behind, found)

Brackets == {"{", "["}
Suppressors == {"citeyear", "citeyearpar", "-"}

(* Constants for the Boolean fields: names, not formulas.                  *)
On == TRUE
Off == FALSE

LEMMA OnOff == On \in BOOLEAN /\ Off \in BOOLEAN /\ On /\ ~Off
BY DEF On, Off

LEMMA FreshState == Fresh = State(<<>>, <<>>, None, Off, "other", Off, <<>>)
BY DEF Fresh, State, Reader, Off

(* What a sign does to each field.                                         *)
LEMMA ReadsSign ==
  ASSUME NEW o, NEW a, NEW x, NEW b, NEW m, NEW h, NEW f, NEW s \in Signs,
         NEW o2, NEW a2, NEW b2, NEW m2, NEW h2,
         (IF s \in {"{", "["} THEN <<s>> \o o
            ELSE IF s \in {"}", "]"} /\ o # <<>> THEN Tail(o) ELSE o) = o2,
         (TRUE /\ (s \in {"}", "]"} => o # <<>> /\ Head(o) = Opening(s))) = TRUE,
         (IF s = "[" THEN Append(a, None) ELSE a) = a2,
         (b \/ s \in {"citeyear", "citeyearpar", "-"}) = b2,
         (IF s = "," /\ m = "key" THEN "comma" ELSE "other") = m2,
         (h /\ s # ";") = h2
  PROVE  Reads(State(o, a, x, b, m, h, f), <<Sign(s)>>, State(o2, a2, x, b2, m2, h2, f))
<1> DEFINE r == State(o, a, x, b, m, h, f)
<1>1. Sign(s) \in Tokens
  BY DEF Sign, Tokens
<1>2. ReadToken(r, Sign(s)) = ReadSign(r, s)
  BY DEF ReadToken, Sign
<1>3. r = Reader(o, TRUE, a, x, b, m, h, f)
  BY DEF State
<1>4. r.open = o /\ r.nested = TRUE /\ r.args = a /\ r.text = x /\ r.bare = b
      /\ r.near = m /\ r.behind = h /\ r.found = f
  <2> HIDE DEF r
  <2> QED BY <1>3 DEF Reader
<1> HIDE DEF r
<1>5. ReadSign(r, s) = State(o2, a2, x, b2, m2, h2, f)
  BY <1>4 DEF ReadSign, Reader, State
<1>6. Reads(r, <<Sign(s)>>, ReadSign(r, s))
  BY <1>1, <1>2, ReadsOne
<1> QED BY <1>5, <1>6 DEF r

(* A command, or punctuation that means nothing to the reader.             *)
LEMMA ReadsCommand ==
  ASSUME NEW o, NEW a, NEW x, NEW b \in BOOLEAN, NEW m, NEW h \in BOOLEAN, NEW f,
         NEW s \in Signs, s \notin {"{", "}", "[", "]", ";", ","}, s \notin Suppressors
  PROVE  Reads(State(o, a, x, b, m, h, f), <<Sign(s)>>, State(o, a, x, b, "other", h, f))
<1>1. /\ (IF s \in {"{", "["} THEN <<s>> \o o
            ELSE IF s \in {"}", "]"} /\ o # <<>> THEN Tail(o) ELSE o) = o
      /\ (TRUE /\ (s \in {"}", "]"} => o # <<>> /\ Head(o) = Opening(s))) = TRUE
      /\ (IF s = "[" THEN Append(a, None) ELSE a) = a
      /\ (IF s = "," /\ m = "key" THEN "comma" ELSE "other") = "other"
      /\ (h /\ s # ";") = h
  OBVIOUS
<1>2. (b \/ s \in {"citeyear", "citeyearpar", "-"}) = b
  BY DEF Suppressors
<1> QED BY <1>1, <1>2, ReadsSign

LEMMA ReadsSuppressor ==
  ASSUME NEW o, NEW a, NEW x, NEW b \in BOOLEAN, NEW m, NEW h \in BOOLEAN, NEW f, NEW s \in Suppressors
  PROVE  Reads(State(o, a, x, b, m, h, f), <<Sign(s)>>, State(o, a, x, On, "other", h, f))
<1>1. /\ (IF s \in {"{", "["} THEN <<s>> \o o
            ELSE IF s \in {"}", "]"} /\ o # <<>> THEN Tail(o) ELSE o) = o
      /\ (TRUE /\ (s \in {"}", "]"} => o # <<>> /\ Head(o) = Opening(s))) = TRUE
      /\ (IF s = "[" THEN Append(a, None) ELSE a) = a
      /\ (IF s = "," /\ m = "key" THEN "comma" ELSE "other") = "other"
      /\ (h /\ s # ";") = h
  BY DEF Suppressors
<1>2. (b \/ s \in {"citeyear", "citeyearpar", "-"}) = On
  BY DEF Suppressors, On
<1>3. s \in Signs
  BY DEF Suppressors, Signs
<1> QED BY <1>1, <1>2, <1>3, ReadsSign

LEMMA ReadsSemicolon ==
  ASSUME NEW o, NEW a, NEW x, NEW b \in BOOLEAN, NEW m, NEW h \in BOOLEAN, NEW f
  PROVE  Reads(State(o, a, x, b, m, h, f), <<Sign(";")>>,
               State(o, a, x, b, "other", Off, f))
<1> DEFINE s == ";"
<1>1. s \in Signs
  BY DEF Signs
<1>2. /\ (IF s \in {"{", "["} THEN <<s>> \o o
            ELSE IF s \in {"}", "]"} /\ o # <<>> THEN Tail(o) ELSE o) = o
      /\ (TRUE /\ (s \in {"}", "]"} => o # <<>> /\ Head(o) = Opening(s))) = TRUE
      /\ (IF s = "[" THEN Append(a, None) ELSE a) = a
      /\ (b \/ s \in {"citeyear", "citeyearpar", "-"}) = b
      /\ (IF s = "," /\ m = "key" THEN "comma" ELSE "other") = "other"
      /\ (h /\ s # ";") = Off
  BY DEF Off
<1> HIDE DEF s
<1>3. Reads(State(o, a, x, b, m, h, f), <<Sign(s)>>, State(o, a, x, b, "other", Off, f))
  BY <1>1, <1>2, ReadsSign
<1> QED BY <1>3 DEF s

LEMMA ReadsComma ==
  ASSUME NEW o, NEW a, NEW x, NEW b \in BOOLEAN, NEW h \in BOOLEAN, NEW f
  PROVE  Reads(State(o, a, x, b, "key", h, f), <<Sign(",")>>,
               State(o, a, x, b, "comma", h, f))
<1> DEFINE s == ","
           m == "key"
<1>1. s \in Signs
  BY DEF Signs
<1>2. /\ (IF s \in {"{", "["} THEN <<s>> \o o
            ELSE IF s \in {"}", "]"} /\ o # <<>> THEN Tail(o) ELSE o) = o
      /\ (TRUE /\ (s \in {"}", "]"} => o # <<>> /\ Head(o) = Opening(s))) = TRUE
      /\ (IF s = "[" THEN Append(a, None) ELSE a) = a
      /\ (b \/ s \in {"citeyear", "citeyearpar", "-"}) = b
      /\ (IF s = "," /\ m = "key" THEN "comma" ELSE "other") = "comma"
      /\ (h /\ s # ";") = h
  OBVIOUS
<1> HIDE DEF s, m
<1>3. Reads(State(o, a, x, b, m, h, f), <<Sign(s)>>, State(o, a, x, b, "comma", h, f))
  BY <1>1, <1>2, ReadsSign
<1> QED BY <1>3 DEF s, m

LEMMA ReadsBrace ==
  ASSUME NEW o, NEW a, NEW x, NEW b \in BOOLEAN, NEW m, NEW h \in BOOLEAN, NEW f
  PROVE  Reads(State(o, a, x, b, m, h, f), <<Sign("{")>>,
               State(<<"{">> \o o, a, x, b, "other", h, f))
<1> DEFINE s == "{"
           p == <<s>> \o o
<1>1. s \in Signs
  BY DEF Signs
<1>2. /\ (IF s \in {"{", "["} THEN <<s>> \o o
            ELSE IF s \in {"}", "]"} /\ o # <<>> THEN Tail(o) ELSE o) = p
      /\ (TRUE /\ (s \in {"}", "]"} => o # <<>> /\ Head(o) = Opening(s))) = TRUE
      /\ (IF s = "[" THEN Append(a, None) ELSE a) = a
      /\ (b \/ s \in {"citeyear", "citeyearpar", "-"}) = b
      /\ (IF s = "," /\ m = "key" THEN "comma" ELSE "other") = "other"
      /\ (h /\ s # ";") = h
  OBVIOUS
<1> HIDE DEF s, p
<1>3. Reads(State(o, a, x, b, m, h, f), <<Sign(s)>>, State(p, a, x, b, "other", h, f))
  BY <1>1, <1>2, ReadsSign
<1> QED BY <1>3 DEF s, p

LEMMA ReadsBracket ==
  ASSUME NEW o, NEW a, NEW x, NEW b \in BOOLEAN, NEW m, NEW h \in BOOLEAN, NEW f
  PROVE  Reads(State(o, a, x, b, m, h, f), <<Sign("[")>>,
               State(<<"[">> \o o, Append(a, None), x, b, "other", h, f))
<1> DEFINE s == "["
           p == <<s>> \o o
           c == Append(a, None)
<1>1. s \in Signs
  BY DEF Signs
<1>2. /\ (IF s \in {"{", "["} THEN <<s>> \o o
            ELSE IF s \in {"}", "]"} /\ o # <<>> THEN Tail(o) ELSE o) = p
      /\ (TRUE /\ (s \in {"}", "]"} => o # <<>> /\ Head(o) = Opening(s))) = TRUE
      /\ (IF s = "[" THEN Append(a, None) ELSE a) = c
      /\ (b \/ s \in {"citeyear", "citeyearpar", "-"}) = b
      /\ (IF s = "," /\ m = "key" THEN "comma" ELSE "other") = "other"
      /\ (h /\ s # ";") = h
  OBVIOUS
<1> HIDE DEF s, p, c
<1>3. Reads(State(o, a, x, b, m, h, f), <<Sign(s)>>, State(p, c, x, b, "other", h, f))
  BY <1>1, <1>2, ReadsSign
<1> QED BY <1>3 DEF s, p, c

(* A bracket on top of those of o is closed.                               *)
LEMMA OnTop ==
  ASSUME NEW s \in Brackets, NEW o \in Seq(Brackets)
  PROVE  /\ <<s>> \o o \in Seq(Brackets)
         /\ <<s>> \o o # <<>> /\ Head(<<s>> \o o) = s /\ Tail(<<s>> \o o) = o
<1>1. <<s>> \in Seq(Brackets) /\ Len(<<s>>) = 1 /\ <<s>>[1] = s
  OBVIOUS
<1> DEFINE t == <<s>>
           p == t \o o
<1> HIDE DEF t
<1>2. t \in Seq(Brackets) /\ Len(t) = 1 /\ t[1] = s
  BY <1>1 DEF t
<1>3. /\ p \in Seq(Brackets) /\ Len(p) = 1 + Len(o) /\ Len(o) \in Nat
      /\ \A i \in 1 .. 1 + Len(o) : p[i] = IF i <= 1 THEN t[i] ELSE o[i - 1]
  <2>1. /\ p \in Seq(Brackets) /\ Len(p) = Len(t) + Len(o)
        /\ \A i \in 1 .. Len(t) + Len(o) : p[i] = IF i <= Len(t) THEN t[i] ELSE o[i - Len(t)]
    BY <1>2, ConcatProperties
  <2>2. Len(o) \in Nat
    BY LenProperties
  <2> HIDE DEF p
  <2> QED BY <1>2, <2>1, <2>2
<1> HIDE DEF p
<1>4. p # <<>>
  BY <1>3, EmptySeq
<1>5. Head(p) = p[1] /\ Tail(p) \in Seq(Brackets) /\ Len(Tail(p)) = Len(p) - 1
      /\ \A i \in 1 .. Len(Tail(p)) : Tail(p)[i] = p[i + 1]
  BY <1>3, <1>4, HeadTailProperties
<1>6. Head(p) = s
  BY <1>2, <1>3, <1>5
<1>7. Len(Tail(p)) = Len(o) /\ \A i \in 1 .. Len(o) : Tail(p)[i] = o[i]
  BY <1>3, <1>5
<1>8. Tail(p) = o
  BY <1>5, <1>7, SeqEqual
<1> QED BY <1>3, <1>4, <1>6, <1>8 DEF p, t

LEMMA ReadsUnbrace ==
  ASSUME NEW o \in Seq(Brackets), NEW a, NEW x, NEW b \in BOOLEAN, NEW m, NEW h \in BOOLEAN, NEW f
  PROVE  Reads(State(<<"{">> \o o, a, x, b, m, h, f), <<Sign("}")>>,
               State(o, a, x, b, "other", h, f))
<1> DEFINE s == "}"
           p == <<"{">> \o o
<1>1. s \in Signs
  BY DEF Signs
<1>2. p # <<>> /\ Head(p) = Opening(s) /\ Tail(p) = o
  BY OnTop DEF Brackets, Opening
<1> HIDE DEF p
<1>3. /\ (IF s \in {"{", "["} THEN <<s>> \o p
            ELSE IF s \in {"}", "]"} /\ p # <<>> THEN Tail(p) ELSE p) = o
      /\ (TRUE /\ (s \in {"}", "]"} => p # <<>> /\ Head(p) = Opening(s))) = TRUE
      /\ (IF s = "[" THEN Append(a, None) ELSE a) = a
      /\ (b \/ s \in {"citeyear", "citeyearpar", "-"}) = b
      /\ (IF s = "," /\ m = "key" THEN "comma" ELSE "other") = "other"
      /\ (h /\ s # ";") = h
  BY <1>2
<1> HIDE DEF s
<1>4. Reads(State(p, a, x, b, m, h, f), <<Sign(s)>>, State(o, a, x, b, "other", h, f))
  BY <1>1, <1>3, ReadsSign
<1> QED BY <1>4 DEF s, p

LEMMA ReadsUnbracket ==
  ASSUME NEW o \in Seq(Brackets), NEW a, NEW x, NEW b \in BOOLEAN, NEW m, NEW h \in BOOLEAN, NEW f
  PROVE  Reads(State(<<"[">> \o o, a, x, b, m, h, f), <<Sign("]")>>,
               State(o, a, x, b, "other", h, f))
<1> DEFINE s == "]"
           p == <<"[">> \o o
<1>1. s \in Signs
  BY DEF Signs
<1>2. p # <<>> /\ Head(p) = Opening(s) /\ Tail(p) = o
  BY OnTop DEF Brackets, Opening
<1> HIDE DEF p
<1>3. /\ (IF s \in {"{", "["} THEN <<s>> \o p
            ELSE IF s \in {"}", "]"} /\ p # <<>> THEN Tail(p) ELSE p) = o
      /\ (TRUE /\ (s \in {"}", "]"} => p # <<>> /\ Head(p) = Opening(s))) = TRUE
      /\ (IF s = "[" THEN Append(a, None) ELSE a) = a
      /\ (b \/ s \in {"citeyear", "citeyearpar", "-"}) = b
      /\ (IF s = "," /\ m = "key" THEN "comma" ELSE "other") = "other"
      /\ (h /\ s # ";") = h
  BY <1>2
<1> HIDE DEF s
<1>4. Reads(State(p, a, x, b, m, h, f), <<Sign(s)>>, State(o, a, x, b, "other", h, f))
  BY <1>1, <1>3, ReadsSign
<1> QED BY <1>4 DEF s, p

(* What the reader has found of a citation.                                *)
Entry(c, bare, joined) ==
  [prenote |-> c.prenote, name |-> c.name, postnote |-> c.postnote, bare |-> bare, joined |-> joined]

(* What it finds of one after arguments a and the text x.                  *)
EntryRead(a, x, c, bare, near) ==
  [prenote |-> IF style \in {"latex", "generic"} THEN x ELSE IF Len(a) = 2 THEN a[1] ELSE None,
   name |-> c.name, postnote |-> IF a = <<>> THEN None ELSE a[Len(a)],
   bare |-> bare, joined |-> near = "comma"]

LEMMA ReadsKey ==
  ASSUME NEW o, NEW a, NEW x, NEW b \in BOOLEAN, NEW m, NEW h, NEW f, NEW c, c.name \in Keys
  PROVE  Reads(State(o, a, x, b, m, h, f), <<Key(c)>>,
               State(o, <<>>, None, Off, "key", On, Append(f, EntryRead(a, x, c, b, m))))
<1> DEFINE r == State(o, a, x, b, m, h, f)
<1>1. Key(c) \in Tokens
  BY DEF Key, Tokens
<1>2. ReadToken(r, Key(c)) = ReadKey(r, c.name)
  BY DEF ReadToken, Key
<1>3. r.open = o /\ r.nested = TRUE /\ r.args = a /\ r.text = x /\ r.bare = b /\ r.near = m /\ r.found = f
  BY DEF State, Reader
<1> HIDE DEF r
<1>4. [prenote |-> PrenoteRead(r), name |-> c.name, postnote |-> PostnoteRead(r),
       bare |-> r.bare, joined |-> r.near = "comma"] = EntryRead(a, x, c, b, m)
  BY <1>3 DEF PrenoteRead, PostnoteRead, EntryRead
<1>5. ReadKey(r, c.name) = State(o, <<>>, None, Off, "key", On, Append(f, EntryRead(a, x, c, b, m)))
  BY <1>3, <1>4 DEF ReadKey, Reader, State, On, Off
<1>6. Reads(r, <<Key(c)>>, ReadKey(r, c.name))
  BY <1>1, <1>2, ReadsOne
<1> QED BY <1>5, <1>6 DEF r

LEMMA LastChanged ==
  ASSUME NEW S, NEW s \in Seq(S), NEW v, NEW w
  PROVE  LET t == Append(s, v)
         IN  t[Len(t)] = v /\ [t EXCEPT ![Len(t)] = w] = Append(s, w)
<1> DEFINE T == S \cup {v, w}
           k == Len(s) + 1
           t == Append(s, v)
           u == Append(s, w)
           c == [t EXCEPT ![Len(t)] = w]
<1>1. s \in Seq(T) /\ v \in T /\ w \in T
  OBVIOUS
<1>2. Len(s) \in Nat
  BY LenProperties
<1> HIDE DEF T
<1>3. /\ t \in Seq(T) /\ Len(t) = k /\ t[k] = v /\ \A i \in 1 .. Len(s) : t[i] = s[i]
      /\ u \in Seq(T) /\ Len(u) = k /\ u[k] = w /\ \A i \in 1 .. Len(s) : u[i] = s[i]
  BY <1>1, AppendProperties
<1> HIDE DEF t, u
<1>4. t \in [1 .. k -> T] /\ u \in [1 .. k -> T]
  BY <1>3, LenProperties
<1>5. c = [i \in 1 .. k |-> IF i = k THEN w ELSE t[i]]
  BY <1>3, <1>4
<1>6. u = [i \in 1 .. k |-> u[i]]
  BY <1>4
<1>7. ASSUME NEW i \in 1 .. k PROVE u[i] = IF i = k THEN w ELSE t[i]
  BY <1>2, <1>3
<1> HIDE DEF c, k
<1>8. c = u
  BY <1>5, <1>6, <1>7
<1> QED BY <1>3, <1>8 DEF c, t, u, k

(* A note is one of four: in a bracket of Markdown behind a key, in the    *)
(* optional argument that is open, before a key, or text of the document.  *)
LEMMA ReadsNoteBehind ==
  ASSUME NEW o, NEW a, NEW x, NEW b, NEW m, NEW S, NEW f \in Seq(S), NEW v \in Notes, style = "generic",
         InBrackets(o),
         NEW p, NEW n, NEW d, NEW j
  PROVE  Reads(State(o, a, x, b, m, On,
                     Append(f, [prenote |-> p, name |-> n, postnote |-> None, bare |-> d, joined |-> j])),
               <<Note(v)>>,
               State(o, a, x, b, "other", On,
                     Append(f, [prenote |-> p, name |-> n, postnote |-> v, bare |-> d, joined |-> j])))
<1> DEFINE e == [prenote |-> p, name |-> n, postnote |-> None, bare |-> d, joined |-> j]
           e2 == [prenote |-> p, name |-> n, postnote |-> v, bare |-> d, joined |-> j]
           g == Append(f, e)
           g2 == Append(f, e2)
           r == State(o, a, x, b, m, On, g)
<1>1. Note(v) \in Tokens
  BY DEF Note, Tokens
<1>2. ReadToken(r, Note(v)) = ReadNote(r, v)
  BY DEF ReadToken, Note
<1>3. r.open = o /\ r.behind = On /\ r.found = g
  BY DEF State, Reader
<1>4. e2 = [e EXCEPT !.postnote = v]
  OBVIOUS
<1> HIDE DEF e, e2
<1>5. g2 = [g EXCEPT ![Len(g)] = [@ EXCEPT !.postnote = v]]
  <2>1. g[Len(g)] = e /\ [g EXCEPT ![Len(g)] = e2] = g2
    BY LastChanged
  <2> HIDE DEF g, g2
  <2> QED BY <1>4, <2>1
<1> HIDE DEF g, g2, r
<1>6. ReadNote(r, v) = [r EXCEPT !.near = "other", !.found[Len(g)].postnote = v]
  BY <1>3, OnOff DEF ReadNote
<1>7. ReadNote(r, v) = [r EXCEPT !.near = "other", !.found = g2]
  BY <1>3, <1>5, <1>6
<1>8. ReadNote(r, v) = State(o, a, x, b, "other", On, g2)
  BY <1>7 DEF r, State, Reader
<1>9. Reads(r, <<Note(v)>>, ReadNote(r, v))
  BY <1>1, <1>2, ReadsOne
<1> QED BY <1>8, <1>9 DEF r, g, g2, e, e2

LEMMA ReadsNoteArg ==
  ASSUME NEW o \in Seq(Brackets), NEW S, NEW a \in Seq(S), NEW x, NEW b, NEW m, NEW h, NEW f, NEW v \in Notes,
         style # "generic"
  PROVE  Reads(State(<<"[">> \o o, Append(a, None), x, b, m, h, f), <<Note(v)>>,
               State(<<"[">> \o o, Append(a, v), x, b, "other", h, f))
<1> DEFINE p == <<"[">> \o o
           g == Append(a, None)
           g2 == Append(a, v)
           r == State(p, g, x, b, m, h, f)
<1>1. Note(v) \in Tokens
  BY DEF Note, Tokens
<1>2. ReadToken(r, Note(v)) = ReadNote(r, v)
  BY DEF ReadToken, Note
<1>3. r.open = p /\ r.args = g
  BY DEF State, Reader
<1>4. InBrackets(p)
  BY OnTop DEF Brackets, InBrackets
<1>5. g2 = [g EXCEPT ![Len(g)] = v]
  BY LastChanged
<1> HIDE DEF g, g2, r, p
<1>6. ReadNote(r, v) = [r EXCEPT !.near = "other", !.args[Len(g)] = v]
  BY <1>3, <1>4 DEF ReadNote
<1>7. ReadNote(r, v) = [r EXCEPT !.near = "other", !.args = g2]
  BY <1>3, <1>5, <1>6
<1>8. ReadNote(r, v) = State(p, g2, x, b, "other", h, f)
  BY <1>7 DEF r, State, Reader
<1>9. Reads(r, <<Note(v)>>, ReadNote(r, v))
  BY <1>1, <1>2, ReadsOne
<1> QED BY <1>8, <1>9 DEF r, g, g2, p

LEMMA ReadsNoteText ==
  ASSUME NEW o, NEW a, NEW x, NEW b, NEW m, NEW h, NEW f, NEW v \in Notes,
         style = "generic" => InBrackets(o) /\ ~h, style # "generic" => ~InBrackets(o)
  PROVE  Reads(State(o, a, x, b, m, h, f), <<Note(v)>>, State(o, a, v, b, "other", h, f))
<1> DEFINE r == State(o, a, x, b, m, h, f)
<1>1. Note(v) \in Tokens
  BY DEF Note, Tokens
<1>2. ReadToken(r, Note(v)) = ReadNote(r, v)
  BY DEF ReadToken, Note
<1>3. r.open = o /\ r.behind = h
  BY DEF State, Reader
<1> HIDE DEF r
<1>4. ReadNote(r, v) = [r EXCEPT !.near = "other", !.text = v]
  BY <1>3 DEF ReadNote
<1>5. ReadNote(r, v) = State(o, a, v, b, "other", h, f)
  BY <1>4 DEF r, State, Reader
<1>6. Reads(r, <<Note(v)>>, ReadNote(r, v))
  BY <1>1, <1>2, ReadsOne
<1> QED BY <1>5, <1>6 DEF r

LEMMA ReadsNotePlain ==
  ASSUME NEW o, NEW a, NEW x, NEW b, NEW m, NEW h, NEW f, NEW v \in Notes, style = "generic", ~InBrackets(o)
  PROVE  Reads(State(o, a, x, b, m, h, f), <<Note(v)>>, State(o, a, x, b, "other", Off, f))
<1> DEFINE r == State(o, a, x, b, m, h, f)
<1>1. Note(v) \in Tokens
  BY DEF Note, Tokens
<1>2. ReadToken(r, Note(v)) = ReadNote(r, v)
  BY DEF ReadToken, Note
<1>3. r.open = o
  BY DEF State, Reader
<1> HIDE DEF r
<1>4. ReadNote(r, v) = [r EXCEPT !.near = "other", !.behind = FALSE]
  BY <1>3 DEF ReadNote
<1>5. ReadNote(r, v) = State(o, a, x, b, "other", Off, f)
  BY <1>4 DEF r, State, Reader, Off
<1>6. Reads(r, <<Note(v)>>, ReadNote(r, v))
  BY <1>1, <1>2, ReadsOne
<1> QED BY <1>5, <1>6 DEF r

-----------------------------------------------------------------------------
(* Reading the parts the writers make of a citation.                       *)
MaybeNoted == Notes \cup {None}
Citation == [prenote : MaybeNoted, name : Keys, suppress_author : BOOLEAN, postnote : MaybeNoted]

LEMMA CapturesDiffer == None \notin Notes /\ Empty \notin Notes /\ Dash # Empty
<1>1. None \notin Notes /\ Empty \notin Notes
  BY CitationsAssumption
<1>2. Dash # Empty
  <2> SUFFICES ASSUME Dash = Empty PROVE FALSE
    OBVIOUS
  <2>1. {Empty, Dash, None} = {None} \cup {Empty}
    OBVIOUS
  <2>2. IsFiniteSet({None}) /\ Cardinality({None}) = 1
    BY FS_Singleton
  <2>3. Cardinality({None} \cup {Empty}) = IF Empty \in {None} THEN Cardinality({None}) ELSE Cardinality({None}) + 1
    BY <2>2, FS_AddElement
  <2>4. Cardinality({Empty, Dash, None}) = 3
    BY CitationsAssumption
  <2> QED BY <2>1, <2>2, <2>3, <2>4
<1> QED BY <1>1, <1>2

LEMMA ReadsWritten ==
  ASSUME NEW o, NEW a, NEW b, NEW h, NEW f, NEW n \in MaybeNoted,
         style = "generic" => InBrackets(o) /\ ~h, style # "generic" => ~InBrackets(o)
  PROVE  Reads(State(o, a, None, b, "other", h, f), Written(n), State(o, a, n, b, "other", h, f))
<1>1. CASE n = None
  <2>1. Written(n) = <<>>
    BY <1>1 DEF Written, When
  <2> QED BY <1>1, <2>1, ReadsNothing
<1>2. CASE n # None
  <2>1. Written(n) = <<Note(n)>> /\ n \in Notes
    BY <1>2 DEF Written, When, MaybeNoted
  <2>2. Reads(State(o, a, None, b, "other", h, f), <<Note(n)>>, State(o, a, n, b, "other", h, f))
    BY <2>1, ReadsNoteText
  <2> QED BY <2>1, <2>2
<1> QED BY <1>1, <1>2

LEMMA ReadsBracketed ==
  ASSUME NEW o \in Seq(Brackets), NEW S, NEW a \in Seq(S), NEW x, NEW b \in BOOLEAN, NEW m, NEW h \in BOOLEAN,
         NEW f, NEW n \in MaybeNoted, style # "generic"
  PROVE  Reads(State(o, a, x, b, m, h, f), Bracketed(n), State(o, Append(a, n), x, b, "other", h, f))
<1> DEFINE q == State(<<"[">> \o o, Append(a, None), x, b, "other", h, f)
           r == State(<<"[">> \o o, Append(a, n), x, b, "other", h, f)
<1>1. Reads(State(o, a, x, b, m, h, f), <<Sign("[")>>, q)
  BY ReadsBracket
<1>2. Reads(q, Written(n), r)
  <2>1. CASE n = None
    <3>1. Written(n) = <<>>
      BY <2>1 DEF Written, When
    <3> QED BY <2>1, <3>1, ReadsNothing
  <2>2. CASE n # None
    <3>1. Written(n) = <<Note(n)>> /\ n \in Notes
      BY <2>2 DEF Written, When, MaybeNoted
    <3>2. Reads(q, <<Note(n)>>, r)
      BY <3>1, ReadsNoteArg
    <3> QED BY <3>1, <3>2
  <2> QED BY <2>1, <2>2
<1>3. Reads(r, <<Sign("]")>>, State(o, Append(a, n), x, b, "other", h, f))
  BY ReadsUnbracket
<1> HIDE DEF q, r
<1>4. Reads(State(o, a, x, b, m, h, f), <<Sign("[")>> \o Written(n), r)
  BY <1>1, <1>2, ReadsBoth
<1>5. Reads(State(o, a, x, b, m, h, f), (<<Sign("[")>> \o Written(n)) \o <<Sign("]")>>,
            State(o, Append(a, n), x, b, "other", h, f))
  BY <1>3, <1>4, ReadsBoth
<1> QED BY <1>5 DEF Bracketed

LEMMA ReadsBraced ==
  ASSUME NEW o \in Seq(Brackets), NEW a, NEW x, NEW b \in BOOLEAN, NEW m, NEW h \in BOOLEAN, NEW f, NEW c \in Citation,
         c.prenote = IF style \in {"latex", "generic"} THEN x ELSE IF Len(a) = 2 THEN a[1] ELSE None,
         c.postnote = IF a = <<>> THEN None ELSE a[Len(a)]
  PROVE  Reads(State(o, a, x, b, m, h, f), Braced(c),
               State(o, <<>>, None, Off, "other", On, Append(f, Entry(c, b, Off))))
<1> DEFINE p == <<"{">> \o o
           q == State(p, a, x, b, "other", h, f)
           r == State(p, <<>>, None, Off, "key", On, Append(f, Entry(c, b, Off)))
           s == State(o, a, x, b, m, h, f)
           u == State(o, <<>>, None, Off, "other", On, Append(f, Entry(c, b, Off)))
<1>1. Reads(s, <<Sign("{")>>, q)
  BY ReadsBrace
<1>2. Reads(q, <<Key(c)>>, r)
  <2>1. c.name \in Keys
    BY DEF Citation
  <2>2. EntryRead(a, x, c, b, "other") = Entry(c, b, Off)
    BY DEF EntryRead, Entry, Off
  <2> QED BY <2>1, <2>2, ReadsKey
<1>3. Reads(r, <<Sign("}")>>, u)
  BY OnOff, ReadsUnbrace
<1> HIDE DEF q, r, s, u, p
<1>4. Reads(s, <<Sign("{")>> \o <<Key(c)>>, r)
  BY <1>1, <1>2, ReadsBoth
<1>5. Reads(s, (<<Sign("{")>> \o <<Key(c)>>) \o <<Sign("}")>>, u)
  BY <1>3, <1>4, ReadsBoth
<1>6. (<<Sign("{")>> \o <<Key(c)>>) \o <<Sign("}")>> = Braced(c)
  BY Tuples DEF Braced
<1> QED BY <1>5, <1>6 DEF s, u

(* Two optional arguments if there is a note before, the second of them    *)
(* empty if there is none after; one if there is only one after.           *)
Args(c) == IF c.prenote # None THEN <<c.prenote, c.postnote>>
           ELSE IF c.postnote # None THEN <<c.postnote>> ELSE <<>>

LEMMA ReadsOptargs ==
  ASSUME NEW o \in Seq(Brackets), NEW x, NEW b \in BOOLEAN, NEW h \in BOOLEAN, NEW f, NEW c \in Citation,
         style # "generic"
  PROVE  Reads(State(o, <<>>, x, b, "other", h, f), citation_optargs(c), State(o, Args(c), x, b, "other", h, f))
<1> DEFINE s(a) == State(o, a, x, b, "other", h, f)
           none == <<>>
           pre == Append(none, c.prenote)
           post == Append(none, c.postnote)
           both == Append(pre, c.postnote)
<1>1. /\ c.prenote \in MaybeNoted /\ c.postnote \in MaybeNoted
      /\ none \in Seq(MaybeNoted) /\ pre \in Seq(MaybeNoted)
  BY DEF Citation
<1>2. pre = <<c.prenote>> /\ post = <<c.postnote>> /\ both = <<c.prenote, c.postnote>>
  BY Tuples
<1> HIDE DEF none, pre, post, both
<1>3. Reads(s(none), Bracketed(c.prenote), s(pre))
  BY <1>1, ReadsBracketed DEF pre
<1>4. Reads(s(none), Bracketed(c.postnote), s(post))
  BY <1>1, ReadsBracketed DEF post
<1>5. Reads(s(pre), Bracketed(c.postnote), s(both))
  BY <1>1, ReadsBracketed DEF both
<1>6. Reads(s(none), <<>>, s(none))
  BY ReadsNothing
<1> HIDE DEF s
<1>7. CASE c.prenote # None
  <2>1. citation_optargs(c) = Bracketed(c.prenote) \o Bracketed(c.postnote) /\ Args(c) = both
    BY <1>2, <1>7 DEF citation_optargs, HasNotes, When, Args
  <2> QED BY <1>3, <1>5, <2>1, ReadsBoth DEF s, none
<1>8. CASE c.prenote = None /\ c.postnote # None
  <2>1. citation_optargs(c) = <<>> \o Bracketed(c.postnote) /\ Args(c) = post
    BY <1>2, <1>8 DEF citation_optargs, HasNotes, When, Args
  <2>2. Reads(s(none), <<>> \o Bracketed(c.postnote), s(post))
    BY <1>4, <1>6, ReadsBoth
  <2> QED BY <2>1, <2>2 DEF s, none
<1>9. CASE c.prenote = None /\ c.postnote = None
  <2>1. citation_optargs(c) = <<>> \o <<>> /\ Args(c) = none
    BY <1>9 DEF citation_optargs, HasNotes, When, Args, none
  <2>2. Reads(s(none), <<>> \o <<>>, s(none))
    BY <1>6, ReadsBoth
  <2> QED BY <2>1, <2>2 DEF s, none
<1> QED BY <1>7, <1>8, <1>9

(* Styles whose commands have two optional arguments.                      *)
TwoArgs == style \in {"natbib", "biblatex"}

LEMMA ReadsArgs ==
  ASSUME NEW o \in Seq(Brackets), NEW x, NEW b \in BOOLEAN, NEW m, NEW h \in BOOLEAN, NEW f, NEW c \in Citation,
         TwoArgs
  PROVE  Reads(State(o, Args(c), x, b, m, h, f), Braced(c),
               State(o, <<>>, None, Off, "other", On, Append(f, Entry(c, b, Off))))
<1>1. /\ c.prenote = IF style \in {"latex", "generic"} THEN x ELSE IF Len(Args(c)) = 2 THEN Args(c)[1] ELSE None
      /\ c.postnote = IF Args(c) = <<>> THEN None ELSE Args(c)[Len(Args(c))]
  <2>1. CASE c.prenote # None
    BY <2>1 DEF Args, TwoArgs
  <2>2. CASE c.prenote = None /\ c.postnote # None
    BY <2>2 DEF Args, TwoArgs
  <2>3. CASE c.prenote = None /\ c.postnote = None
    BY <2>3 DEF Args, TwoArgs
  <2> QED BY <2>1, <2>2, <2>3
<1> QED BY <1>1, ReadsBraced

-----------------------------------------------------------------------------
(* What is to be found of the first n citations.                           *)
FoundOf(cites, bare, joined, n) == [k \in 1 .. n |-> Entry(cites[k], bare[k], joined[k])]

LEMMA FoundNext ==
  ASSUME NEW cites, NEW bare, NEW joined, NEW n \in Nat \ {0}
  PROVE  /\ FoundOf(cites, bare, joined, n) =
              Append(FoundOf(cites, bare, joined, n - 1), Entry(cites[n], bare[n], joined[n]))
         /\ FoundOf(cites, bare, joined, 0) = <<>>
<1> DEFINE e(k) == Entry(cites[k], bare[k], joined[k])
           S == {e(k) : k \in 1 .. n}
           s == [k \in 1 .. n - 1 |-> e(k)]
           t == [k \in 1 .. n |-> e(k)]
           d == n - 1
<1> HIDE DEF e
<1>1. n - 1 \in Nat /\ s \in Seq(S) /\ Len(s) = n - 1 /\ t \in Seq(S) /\ Len(t) = n /\ e(n) \in S
  OBVIOUS
<1>2. /\ \A k \in 1 .. n - 1 : s[k] = e(k)
      /\ \A k \in 1 .. n : t[k] = e(k)
  OBVIOUS
<1> HIDE DEF s, t, S
<1>3. /\ Append(s, e(n)) \in Seq(S) /\ Len(Append(s, e(n))) = Len(s) + 1
      /\ \A k \in 1 .. Len(s) : Append(s, e(n))[k] = s[k]
      /\ Append(s, e(n))[Len(s) + 1] = e(n)
  BY <1>1, AppendProperties
<1>4. t = Append(s, e(n))
  <2> DEFINE u == Append(s, e(n))
  <2> HIDE DEF u
  <2>1. u \in Seq(S) /\ Len(u) = n /\ (\A k \in 1 .. n - 1 : u[k] = e(k)) /\ u[n] = e(n)
    BY <1>1, <1>2, <1>3 DEF u
  <2>2. \A k \in 1 .. n : t[k] = u[k]
    BY <1>1, <1>2, <2>1
  <2>3. t = u
    BY <1>1, <2>1, <2>2, SeqEqual
  <2> QED BY <2>3 DEF u
<1>5. FoundOf(cites, bare, joined, 0) = <<>>
  BY DEF FoundOf
<1> QED BY <1>4, <1>5 DEF s, t, e, FoundOf

(* tokens are read as the citations cites, with these marks.               *)
ReadsAs(tokens, cites, bare, joined) ==
  \E a, x, b, m, h :
    Reads(Fresh, tokens, State(<<>>, a, x, b, m, h, FoundOf(cites, bare, joined, Len(cites))))

-----------------------------------------------------------------------------
(* Biblatex.                                                               *)
LEMMA ReadsBiblatexEach ==
  ASSUME NEW n, NEW c \in Citation, NEW h \in BOOLEAN, NEW f, TwoArgs
  PROVE  Reads(State(<<>>, <<>>, None, Off, "other", h, f), BiblatexEach(n, c),
               State(<<>>, <<>>, None, Off, "other", On, Append(f, Entry(c, Off, Off))))
<1> DEFINE o == <<>>
<1>1. o \in Seq(Brackets)
  OBVIOUS
<1> HIDE DEF o
<1>2. Reads(State(o, <<>>, None, Off, "other", h, f), citation_optargs(c),
            State(o, Args(c), None, Off, "other", h, f))
  BY <1>1, OnOff, ReadsOptargs DEF TwoArgs
<1>3. Reads(State(o, Args(c), None, Off, "other", h, f), Braced(c),
            State(o, <<>>, None, Off, "other", On, Append(f, Entry(c, Off, Off))))
  BY <1>1, OnOff, ReadsArgs
<1>4. Reads(State(o, <<>>, None, Off, "other", h, f), citation_optargs(c) \o Braced(c),
            State(o, <<>>, None, Off, "other", On, Append(f, Entry(c, Off, Off))))
  BY <1>2, <1>3, ReadsBoth
<1> QED BY <1>4 DEF BiblatexEach, o

(* A rope of one part for each citation; the reader has o[n] open after n  *)
(* citations, arguments a[n], and so on.                                   *)
LEMMA ReadsAll ==
  ASSUME NEW cites \in Seq(Citation), NEW bare, NEW joined, NEW o, NEW a, NEW m, NEW h, NEW parts,
         DOMAIN parts = 1 .. Len(cites), Len(parts) = Len(cites),
         \A n \in 1 .. Len(cites) :
           Reads(State(o[n - 1], a[n - 1], None, Off, m[n - 1], h[n - 1], FoundOf(cites, bare, joined, n - 1)),
                 parts[n],
                 State(o[n], a[n], None, Off, m[n], h[n],
                       Append(FoundOf(cites, bare, joined, n - 1), Entry(cites[n], bare[n], joined[n]))))
  PROVE  Reads(State(o[0], a[0], None, Off, m[0], h[0], <<>>), Joined(parts),
               State(o[Len(cites)], a[Len(cites)], None, Off, m[Len(cites)], h[Len(cites)],
                     FoundOf(cites, bare, joined, Len(cites))))
<1> DEFINE K == Len(cites)
           found(n) == FoundOf(cites, bare, joined, n)
           at(n) == State(o[n], a[n], None, Off, m[n], h[n], found(n))
           st == [n \in 0 .. K |-> at(n)]
<1>1. K \in Nat
  BY LenProperties
<1>2. ASSUME NEW n \in 1 .. K PROVE Reads(at(n - 1), parts[n], at(n))
  <2>1. n \in Nat \ {0}
    BY <1>1
  <2>2. found(n) = Append(found(n - 1), Entry(cites[n], bare[n], joined[n]))
    BY <2>1, FoundNext
  <2> QED BY <2>2
<1>3. found(0) = <<>>
  <2>1. 1 \in Nat \ {0}
    OBVIOUS
  <2> QED BY <2>1, FoundNext
<1> HIDE DEF at
<1>4. \A n \in 0 .. K : st[n] = at(n)
  OBVIOUS
<1> HIDE DEF st
<1>5. ASSUME NEW n \in 1 .. K PROVE Reads(st[n - 1], parts[n], st[n])
  <2>1. n \in 0 .. K /\ n - 1 \in 0 .. K
    BY <1>1
  <2>2. st[n] = at(n) /\ st[n - 1] = at(n - 1)
    BY <1>4, <2>1
  <2> QED BY <1>2, <2>2
<1>6. DOMAIN parts = 1 .. K /\ Len(parts) = K
  OBVIOUS
<1>7. 0 \in 0 .. K /\ K \in 0 .. K
  BY <1>1
<1> HIDE DEF K
<1>8. Reads(st[0], Joined(parts), st[K])
  BY <1>1, <1>5, <1>6, ReadsJoined
<1>9. Reads(at(0), Joined(parts), at(K))
  BY <1>4, <1>7, <1>8
<1> HIDE DEF found
<1> QED BY <1>3, <1>9 DEF at, found, K

(* A single citation is such a rope.                                       *)
LEMMA FoundOne ==
  ASSUME NEW cites \in Seq(Citation), NEW bare, NEW joined, Len(cites) = 1
  PROVE  FoundOf(cites, bare, joined, Len(cites)) = Append(<<>>, Entry(cites[1], bare[1], joined[1]))
<1>1. 1 \in Nat \ {0} /\ 1 - 1 = 0
  OBVIOUS
<1> QED BY <1>1, FoundNext

(* Before the first citation, and after it.                                *)
Begun(K) == [n \in 0 .. K |-> IF n = 0 THEN Off ELSE On]
Constant(v, K) == [n \in 0 .. K |-> v]

LEMMA Begins ==
  ASSUME NEW K \in Nat \ {0}, NEW v
  PROVE  /\ Begun(K)[0] = Off /\ Begun(K)[K] = On
         /\ \A n \in 1 .. K : Begun(K)[n] = On /\ Begun(K)[n - 1] \in BOOLEAN
         /\ \A n \in 1 .. K : Constant(v, K)[n] = v /\ Constant(v, K)[n - 1] = v
         /\ Constant(v, K)[0] = v /\ Constant(v, K)[K] = v
<1>1. \A n \in 0 .. K : Begun(K)[n] = IF n = 0 THEN Off ELSE On
  BY DEF Begun
<1>2. \A n \in 0 .. K : Constant(v, K)[n] = v
  BY DEF Constant
<1>3. \A n \in 1 .. K : n \in 0 .. K /\ n # 0 /\ n - 1 \in 0 .. K
  OBVIOUS
<1>4. 0 \in 0 .. K /\ K \in 0 .. K /\ K # 0
  OBVIOUS
<1>5. \A n \in 0 .. K : Begun(K)[n] \in BOOLEAN
  BY <1>1, OnOff
<1> QED BY <1>1, <1>2, <1>3, <1>4, <1>5

(* Signs that open, close, separate and suppress nothing.                  *)
LEMMA HarmlessCommands ==
  ASSUME NEW s \in {"cite", "citet", "citep", "citetext", "citealt", "citealp", "textcite", "textcites",
                    "autocite", "autocite*", "autocites", "~", "@"}
  PROVE  s \in Signs /\ s \notin {"{", "}", "[", "]", ";", ","} /\ s \notin Suppressors
BY DEF Signs, Suppressors

LEMMA ReadsBiblatex ==
  ASSUME NEW cites \in Seq(Citation), cites # <<>>, style = "biblatex"
  PROVE  ReadsAs(BiblatexCites(cites), cites, Constant(Off, Len(cites)), Constant(Off, Len(cites)))
<1> DEFINE K == Len(cites)
           none == <<>>
           no == Constant(Off, K)
           o == Constant(none, K)
           m == Constant("other", K)
           h == Begun(K)
           command == IF K = 1 THEN CASE text_cites -> "textcite"
                                      [] ~text_cites /\ cites[1].suppress_author -> "autocite*"
                                      [] OTHER -> "autocite"
                      ELSE IF text_cites THEN "textcites" ELSE "autocites"
           parts == [n \in DOMAIN cites |-> BiblatexEach(n, cites[n])]
           start == State(none, none, None, Off, "other", Off, none)
           found == FoundOf(cites, no, no, K)
           end == State(none, none, None, Off, "other", On, found)
<1>1. K \in Nat \ {0} /\ DOMAIN cites = 1 .. K /\ \A n \in 1 .. K : cites[n] \in Citation
  BY EmptySeq, LenProperties, ElementOfSeq
<1>2. \A n \in 1 .. K : no[n] = Off
  BY <1>1, Begins
<1>21. /\ \A n \in 1 .. K : o[n] = none /\ o[n - 1] = none
      /\ \A n \in 1 .. K : m[n] = "other" /\ m[n - 1] = "other"
      /\ o[0] = none /\ o[K] = none /\ m[0] = "other" /\ m[K] = "other"
  BY <1>1, Begins
<1>3. \A n \in 1 .. K : h[n] = On /\ h[n - 1] \in BOOLEAN
  BY <1>1, Begins
<1>4. h[0] = Off /\ h[K] = On
  BY <1>1, Begins
<1>6. Reads(Fresh, <<Sign(command)>>, start)
  <2>1. command \in {"textcite", "autocite*", "autocite", "textcites", "autocites"}
    OBVIOUS
  <2> HIDE DEF command
  <2>2. command \in Signs /\ command \notin {"{", "}", "[", "]", ";", ","} /\ command \notin Suppressors
    BY <2>1, HarmlessCommands
  <2> QED BY <2>2, OnOff, FreshState, ReadsCommand
<1> HIDE DEF no, o, m, h, start
<1>7. ASSUME NEW n \in 1 .. K, NEW f, NEW b \in BOOLEAN
      PROVE  Reads(State(none, none, None, Off, "other", b, f), BiblatexEach(n, cites[n]),
                   State(none, none, None, Off, "other", On, Append(f, Entry(cites[n], Off, Off))))
  <2>1. cites[n] \in Citation
    BY <1>1
  <2>2. TwoArgs
    BY DEF TwoArgs
  <2> QED BY <2>1, <2>2, ReadsBiblatexEach
<1> HIDE DEF none
<1>8. CASE K = 1
  <2>1. Reads(start, BiblatexEach(1, cites[1]),
              State(none, none, None, Off, "other", On, Append(none, Entry(cites[1], Off, Off))))
    <3>1. 1 \in 1 .. K
      BY <1>8
    <3> HIDE DEF K
    <3> QED BY <1>7, <3>1, OnOff DEF start
  <2>2. found = Append(none, Entry(cites[1], Off, Off))
    <3>1. no[1] = Off
      BY <1>2, <1>8
    <3>2. found = Append(<<>>, Entry(cites[1], no[1], no[1]))
      BY <1>8, FoundOne
    <3>3. Entry(cites[1], no[1], no[1]) = Entry(cites[1], Off, Off)
      BY <3>1
    <3> HIDE DEF found
    <3> QED BY <3>2, <3>3 DEF none
  <2>3. BiblatexCites(cites) = <<Sign(command)>> \o BiblatexEach(1, cites[1])
    BY <1>8 DEF BiblatexCites
  <2> HIDE DEF command, found
  <2>4. Reads(Fresh, <<Sign(command)>> \o BiblatexEach(1, cites[1]), end)
    BY <1>6, <2>1, <2>2, ReadsBoth
  <2>5. ReadsAs(BiblatexCites(cites), cites, no, no)
    BY <2>3, <2>4 DEF ReadsAs, none, found
  <2> QED BY <2>5 DEF no
<1>9. CASE K # 1
  <2>1. DOMAIN parts = 1 .. K /\ Len(parts) = K
    BY <1>1
  <2>2. ASSUME NEW n \in 1 .. K
        PROVE  Reads(State(o[n - 1], o[n - 1], None, Off, m[n - 1], h[n - 1], FoundOf(cites, no, no, n - 1)),
                     parts[n],
                     State(o[n], o[n], None, Off, m[n], h[n],
                           Append(FoundOf(cites, no, no, n - 1), Entry(cites[n], no[n], no[n]))))
    <3>1. parts[n] = BiblatexEach(n, cites[n])
      BY <1>1
    <3> HIDE DEF parts
    <3> QED BY <1>2, <1>21, <1>3, <1>7, <3>1
  <2>3. BiblatexCites(cites) = <<Sign(command)>> \o Joined(parts)
    BY <1>9 DEF BiblatexCites
  <2> HIDE DEF parts, command
  <2>4. Reads(State(o[0], o[0], None, Off, m[0], h[0], <<>>), Joined(parts),
              State(o[K], o[K], None, Off, m[K], h[K], FoundOf(cites, no, no, K)))
    BY <2>1, <2>2, ReadsAll
  <2>5. Reads(start, Joined(parts), end)
    <3>1. State(o[0], o[0], None, Off, m[0], h[0], <<>>) = start
      BY <1>21, <1>4 DEF start, none
    <3>2. State(o[K], o[K], None, Off, m[K], h[K], found) = end
      BY <1>21, <1>4
    <3> HIDE DEF end, found, K
    <3> QED BY <2>4, <3>1, <3>2 DEF found
  <2>6. Reads(Fresh, <<Sign(command)>> \o Joined(parts), end)
    BY <1>6, <2>5, ReadsBoth
  <2>7. ReadsAs(BiblatexCites(cites), cites, no, no)
    BY <2>3, <2>6 DEF ReadsAs, none
  <2> QED BY <2>7 DEF no
<1> QED BY <1>8, <1>9

-----------------------------------------------------------------------------
(* Natbib.                                                                 *)
Mark(b) == IF b THEN On ELSE Off
Suppressed(cites) == [n \in 1 .. Len(cites) |-> Mark(cites[n].suppress_author)]

(* The rest of a command with its optional arguments and its key.          *)
LEMMA ReadsArguments ==
  ASSUME NEW q, NEW w, NEW o \in Seq(Brackets), NEW c \in Citation, NEW b \in BOOLEAN, NEW h \in BOOLEAN, NEW f,
         TwoArgs, Reads(q, w, State(o, <<>>, None, b, "other", h, f))
  PROVE  Reads(q, (w \o citation_optargs(c)) \o Braced(c),
               State(o, <<>>, None, Off, "other", On, Append(f, Entry(c, b, Off))))
<1>1. Reads(State(o, <<>>, None, b, "other", h, f), citation_optargs(c),
            State(o, Args(c), None, b, "other", h, f))
  BY ReadsOptargs DEF TwoArgs
<1>2. Reads(State(o, Args(c), None, b, "other", h, f), Braced(c),
            State(o, <<>>, None, Off, "other", On, Append(f, Entry(c, b, Off))))
  BY ReadsArgs
<1>3. Reads(q, w \o citation_optargs(c), State(o, Args(c), None, b, "other", h, f))
  BY <1>1, ReadsBoth
<1> QED BY <1>2, <1>3, ReadsBoth

LEMMA ReadsNatbibSingle ==
  ASSUME NEW cites \in Seq(Citation), Len(cites) = 1, style = "natbib"
  PROVE  ReadsAs(NatbibCites(cites), cites,
                 [n \in 1 .. 1 |-> Mark(~text_cites /\ cites[1].suppress_author)], Constant(Off, 1))
<1> DEFINE none == <<>>
           c == cites[1]
           bare == [n \in 1 .. 1 |-> Mark(~text_cites /\ cites[1].suppress_author)]
           joined == Constant(Off, 1)
           b == Mark(~text_cites /\ cites[1].suppress_author)
           command == CASE text_cites -> "citet"
                        [] ~text_cites /\ cites[1].suppress_author -> "citeyearpar"
                        [] OTHER -> "citep"
           found == FoundOf(cites, bare, joined, Len(cites))
           start == State(none, none, None, Off, "other", Off, none)
           end == State(none, none, None, Off, "other", On, found)
<1>1. c \in Citation /\ TwoArgs
  BY ElementOfSeq DEF TwoArgs
<1>2. c.suppress_author \in BOOLEAN
  BY <1>1 DEF Citation
<1>3. b \in BOOLEAN
  BY OnOff DEF Mark
<1>4. bare[1] = b /\ joined[1] = Off
  <2>1. 1 \in Nat \ {0} /\ 1 \in 1 .. 1
    OBVIOUS
  <2>2. joined[1] = Off
    BY <2>1, Begins
  <2>3. bare[1] = b
    BY <2>1
  <2> QED BY <2>2, <2>3
<1> HIDE DEF bare, joined
<1>5. found = Append(none, Entry(c, b, Off))
  <2>1. found = Append(none, Entry(c, bare[1], joined[1]))
    BY FoundOne
  <2> HIDE DEF found, c, b
  <2> QED BY <1>4, <2>1
<1>6. Reads(start, <<Sign(command)>>, State(none, none, None, b, "other", Off, none))
  <2>1. CASE ~text_cites /\ c.suppress_author
    <3>1. command = "citeyearpar" /\ b = On
      BY <2>1 DEF Mark
    <3>2. command \in Suppressors
      BY <3>1 DEF Suppressors
    <3> HIDE DEF command, b
    <3> QED BY <3>1, <3>2, OnOff, ReadsSuppressor
  <2>2. CASE ~(~text_cites /\ c.suppress_author)
    <3>1. command \in {"citet", "citep"} /\ b = Off
      BY <2>2 DEF Mark
    <3> HIDE DEF command, b
    <3>2. command \in Signs /\ command \notin {"{", "}", "[", "]", ";", ","} /\ command \notin Suppressors
      BY <3>1, HarmlessCommands
    <3> QED BY <3>1, <3>2, OnOff, ReadsCommand
  <2> QED BY <2>1, <2>2
<1>7. Reads(Fresh, <<Sign(command)>>, State(none, none, None, b, "other", Off, none))
  BY <1>6, FreshState
<1>8. none \in Seq(Brackets)
  OBVIOUS
<1>9. NatbibCites(cites) = (<<Sign(command)>> \o citation_optargs(c)) \o Braced(c)
  BY DEF NatbibCites, NatbibSingle
<1> HIDE DEF none, c, b, command, found
<1>10. Reads(Fresh, (<<Sign(command)>> \o citation_optargs(c)) \o Braced(c),
             State(none, none, None, Off, "other", On, Append(none, Entry(c, b, Off))))
  BY <1>1, <1>3, <1>7, <1>8, OnOff, ReadsArguments DEF none
<1>11. ReadsAs(NatbibCites(cites), cites, bare, joined)
  BY <1>5, <1>9, <1>10 DEF ReadsAs, found, none
<1> QED BY <1>11 DEF bare, joined

LEMMA ReadsNatbibComplex ==
  ASSUME NEW cites \in Seq(Citation), cites # <<>>, Len(cites) # 1, style = "natbib", IsComplex(cites)
  PROVE  ReadsAs(NatbibCites(cites), cites, Suppressed(cites), Constant(Off, Len(cites)))
<1> DEFINE K == Len(cites)
           none == <<>>
           brace == <<"{">>
           bare == Suppressed(cites)
           no == Constant(Off, K)
           o == Constant(brace, K)
           a == Constant(none, K)
           m == Constant("other", K)
           h == Begun(K)
           parts == [n \in DOMAIN cites |-> NatbibComplex(n, cites[n])]
           start == State(brace, none, None, Off, "other", Off, none)
           found == FoundOf(cites, bare, no, K)
           last == State(brace, none, None, Off, "other", On, found)
           end == State(none, none, None, Off, "other", On, found)
<1>1. K \in Nat \ {0} /\ DOMAIN cites = 1 .. K /\ \A n \in 1 .. K : cites[n] \in Citation
  BY EmptySeq, LenProperties, ElementOfSeq
<1>2. \A n \in 1 .. K : no[n] = Off
  BY <1>1, Begins
<1>3. /\ \A n \in 1 .. K : o[n] = brace /\ o[n - 1] = brace
      /\ \A n \in 1 .. K : a[n] = none /\ a[n - 1] = none
      /\ \A n \in 1 .. K : m[n] = "other" /\ m[n - 1] = "other"
      /\ o[0] = brace /\ o[K] = brace /\ a[0] = none /\ a[K] = none /\ m[0] = "other" /\ m[K] = "other"
  BY <1>1, Begins
<1>4. \A n \in 1 .. K : h[n] = On /\ h[n - 1] \in BOOLEAN
  BY <1>1, Begins
<1>5. h[0] = Off /\ h[K] = On
  BY <1>1, Begins
<1>6. \A n \in 1 .. K : bare[n] = Mark(cites[n].suppress_author)
  BY <1>1 DEF Suppressed
<1>7. brace = <<"{">> \o none /\ brace \in Seq(Brackets) /\ none \in Seq(Brackets)
  <2>1. brace \in Seq(Brackets) /\ none \in Seq(Brackets)
    BY DEF Brackets
  <2>2. <<"{">> \o <<>> = <<"{">>
    BY Tuples
  <2> QED BY <2>1, <2>2
<1> HIDE DEF bare, no, o, a, m, h, brace
<1>8. Reads(Fresh, <<Sign("citetext"), Sign("{")>>, start)
  <2> DEFINE s == "citetext"
             fresh == State(none, none, None, Off, "other", Off, none)
  <2>1. s \in Signs /\ s \notin {"{", "}", "[", "]", ";", ","} /\ s \notin Suppressors
    BY HarmlessCommands
  <2>2. Fresh = fresh
    BY FreshState
  <2> HIDE DEF s, none
  <2>3. Reads(fresh, <<Sign(s)>>, fresh)
    BY <2>1, OnOff, ReadsCommand
  <2>4. Reads(fresh, <<Sign("{")>>, start)
    BY <1>7, OnOff, ReadsBrace
  <2> HIDE DEF fresh, start
  <2>5. Reads(fresh, <<Sign(s)>> \o <<Sign("{")>>, start)
    BY <2>3, <2>4, ReadsBoth
  <2>6. <<Sign(s)>> \o <<Sign("{")>> = <<Sign(s), Sign("{")>>
    BY Tuples
  <2> QED BY <2>2, <2>5, <2>6 DEF s
<1> HIDE DEF none, start
<1>9. ASSUME NEW n \in 1 .. K, NEW f, NEW g \in BOOLEAN, n = 1 => g = Off
      PROVE  Reads(State(brace, none, None, Off, "other", g, f), NatbibComplex(n, cites[n]),
                   State(brace, none, None, Off, "other", On, Append(f, Entry(cites[n], bare[n], Off))))
  <2> DEFINE q == State(brace, none, None, Off, "other", g, f)
             r == State(brace, none, None, Off, "other", Off, f)
             w == When(n # 1, <<Sign(";")>>)
             command == CASE cites[n].suppress_author -> "citeyear"
                          [] ~cites[n].suppress_author /\ text_cites -> "citealt"
                          [] OTHER -> "citealp"
  <2>1. Reads(q, w, r)
    <3>1. CASE n = 1
      BY <1>9, <3>1, ReadsNothing DEF When
    <3>2. CASE n # 1
      <4>1. w = <<Sign(";")>>
        BY <3>2 DEF When
      <4> HIDE DEF w
      <4>2. Reads(q, <<Sign(";")>>, r)
        BY OnOff, ReadsSemicolon
      <4> QED BY <4>1, <4>2
    <3> QED BY <3>1, <3>2
  <2>2. Reads(r, <<Sign(command)>>, State(brace, none, None, bare[n], "other", Off, f))
    <3>1. cites[n] \in Citation
      BY <1>1
    <3>2. cites[n].suppress_author \in BOOLEAN
      BY <3>1 DEF Citation
    <3>3. CASE cites[n].suppress_author
      <4>1. command = "citeyear" /\ bare[n] = On
        BY <1>6, <3>3 DEF Mark
      <4>2. command \in Suppressors
        BY <4>1 DEF Suppressors
      <4> HIDE DEF command
      <4> QED BY <4>1, <4>2, OnOff, ReadsSuppressor
    <3>4. CASE ~cites[n].suppress_author
      <4>1. command \in {"citealt", "citealp"} /\ bare[n] = Off
        BY <1>6, <3>4 DEF Mark
      <4> HIDE DEF command
      <4>2. command \in Signs /\ command \notin {"{", "}", "[", "]", ";", ","} /\ command \notin Suppressors
        BY <4>1, HarmlessCommands
      <4> QED BY <4>1, <4>2, OnOff, ReadsCommand
    <3> QED BY <3>2, <3>3, <3>4
  <2>3. NatbibComplex(n, cites[n]) = ((w \o <<Sign(command)>>) \o citation_optargs(cites[n])) \o Braced(cites[n])
    BY DEF NatbibComplex
  <2>4. cites[n] \in Citation /\ TwoArgs
    BY <1>1 DEF TwoArgs
  <2>5. bare[n] \in BOOLEAN
    BY <1>6, OnOff DEF Mark
  <2> HIDE DEF w, command, q, r
  <2>6. Reads(q, w \o <<Sign(command)>>, State(brace, none, None, bare[n], "other", Off, f))
    BY <2>1, <2>2, ReadsBoth
  <2> DEFINE v == w \o <<Sign(command)>>
  <2> HIDE DEF v
  <2>7. Reads(q, (v \o citation_optargs(cites[n])) \o Braced(cites[n]),
              State(brace, none, None, Off, "other", On, Append(f, Entry(cites[n], bare[n], Off))))
    BY <1>7, <2>4, <2>5, <2>6, OnOff, ReadsArguments DEF v, none
  <2> QED BY <2>3, <2>7 DEF v, q
<1>10. DOMAIN parts = 1 .. K /\ Len(parts) = K
  BY <1>1
<1>11. ASSUME NEW n \in 1 .. K
       PROVE  Reads(State(o[n - 1], a[n - 1], None, Off, m[n - 1], h[n - 1], FoundOf(cites, bare, no, n - 1)),
                    parts[n],
                    State(o[n], a[n], None, Off, m[n], h[n],
                          Append(FoundOf(cites, bare, no, n - 1), Entry(cites[n], bare[n], no[n]))))
  <2>1. parts[n] = NatbibComplex(n, cites[n])
    BY <1>1
  <2>2. n = 1 => h[n - 1] = Off
    BY <1>5
  <2> HIDE DEF parts
  <2> QED BY <1>2, <1>3, <1>4, <1>9, <2>1, <2>2
<1>12. NatbibCites(cites) = (<<Sign("citetext"), Sign("{")>> \o Joined(parts)) \o <<Sign("}")>>
  BY DEF NatbibCites
<1> HIDE DEF parts
<1>13. Reads(State(o[0], a[0], None, Off, m[0], h[0], <<>>), Joined(parts),
             State(o[K], a[K], None, Off, m[K], h[K], FoundOf(cites, bare, no, K)))
  BY <1>10, <1>11, ReadsAll
<1>14. Reads(start, Joined(parts), last)
  BY <1>3, <1>5, <1>13 DEF start, none
<1>15. Reads(last, <<Sign("}")>>, end)
  BY <1>7, OnOff, ReadsUnbrace
<1> HIDE DEF last, end, found
<1>16. Reads(Fresh, <<Sign("citetext"), Sign("{")>> \o Joined(parts), last)
  BY <1>8, <1>14, ReadsBoth
<1>17. Reads(Fresh, (<<Sign("citetext"), Sign("{")>> \o Joined(parts)) \o <<Sign("}")>>, end)
  BY <1>15, <1>16, ReadsBoth
<1>18. ReadsAs(NatbibCites(cites), cites, bare, no)
  BY <1>12, <1>17 DEF ReadsAs, end, none, found
<1> QED BY <1>18 DEF bare, no

(* Keys that share a command.                                              *)
LEMMA ReadsPlainKey ==
  ASSUME NEW o, NEW m, NEW h, NEW f, NEW c \in Citation, ~HasNotes(c)
  PROVE  Reads(State(o, <<>>, None, Off, m, h, f), <<Key(c)>>,
               State(o, <<>>, None, Off, "key", On, Append(f, Entry(c, Off, Mark(m = "comma")))))
<1> DEFINE a == <<>>
<1>1. c.name \in Keys
  BY DEF Citation
<1>2. c.prenote = None /\ c.postnote = None
  BY DEF HasNotes
<1>3. EntryRead(a, None, c, Off, m) = Entry(c, Off, Mark(m = "comma"))
  <2>1. (m = "comma") = Mark(m = "comma")
    BY DEF Mark, On, Off
  <2>2. Len(a) # 2
    OBVIOUS
  <2> QED BY <1>2, <2>1, <2>2 DEF EntryRead, Entry
<1> HIDE DEF a
<1>4. Reads(State(o, a, None, Off, m, h, f), <<Key(c)>>,
            State(o, <<>>, None, Off, "key", On, Append(f, EntryRead(a, None, c, Off, m))))
  BY <1>1, OnOff, ReadsKey
<1> QED BY <1>3, <1>4 DEF a

LEMMA ReadsCommaKey ==
  ASSUME NEW o, NEW h \in BOOLEAN, NEW f, NEW c \in Citation, ~HasNotes(c)
  PROVE  Reads(State(o, <<>>, None, Off, "key", h, f), <<Sign(",")>> \o <<Key(c)>>,
               State(o, <<>>, None, Off, "key", On, Append(f, Entry(c, Off, On))))
<1> DEFINE m == "comma"
           a == <<>>
<1>1. Mark(m = "comma") = On
  BY DEF Mark
<1> HIDE DEF m
<1>2. Reads(State(o, a, None, Off, m, h, f), <<Key(c)>>,
            State(o, a, None, Off, "key", On, Append(f, Entry(c, Off, Mark(m = "comma")))))
  BY ReadsPlainKey
<1> HIDE DEF a
<1>3. Reads(State(o, a, None, Off, "key", h, f), <<Sign(",")>>, State(o, a, None, Off, m, h, f))
  BY OnOff, ReadsComma DEF m
<1>4. Reads(State(o, a, None, Off, "key", h, f), <<Sign(",")>> \o <<Key(c)>>,
            State(o, a, None, Off, "key", On, Append(f, Entry(c, Off, On))))
  BY <1>1, <1>2, <1>3, ReadsBoth
<1> QED BY <1>4 DEF a

(* The scan finds no dash because it starts from one that was not there.   *)
LEMMA SimpleMeansPlain ==
  ASSUME NEW cites \in Seq(Citation), ~IsComplex(cites)
  PROVE  \A n \in 1 .. Len(cites) : ~HasNotes(cites[n]) /\ ~cites[n].suppress_author
<1>1. Len(cites) \in Nat /\ DOMAIN cites = 1 .. Len(cites) /\ \A n \in 1 .. Len(cites) : cites[n] \in Citation
  BY LenProperties, ElementOfSeq
<1>2. ASSUME NEW n \in 1 .. Len(cites)
      PROVE  ~HasNotes(cites[n]) /\ (cites[n].suppress_author <=> LastSuppressed(cites, n))
  <2>1. n \in DOMAIN cites /\ cites[n] \in Citation
    BY <1>1
  <2>2. cites[n].suppress_author \in BOOLEAN
    BY <2>1 DEF Citation
  <2>3. ~HasNotes(cites[n]) /\ cites[n].suppress_author # ~LastSuppressed(cites, n)
    BY <2>1 DEF IsComplex
  <2>4. cites[n].suppress_author <=> LastSuppressed(cites, n)
    BY <2>2, <2>3
  <2> QED BY <2>3, <2>4
<1> DEFINE D == {n \in Nat : n + 1 <= Len(cites) => ~cites[n + 1].suppress_author}
<1>3. 0 \in D
  <2>1. CASE 1 <= Len(cites)
    <3>1. 1 \in 1 .. Len(cites) /\ ~(1 > 1)
      BY <1>1, <2>1
    <3>2. ~LastSuppressed(cites, 1)
      BY <3>1 DEF LastSuppressed
    <3>3. ~cites[1].suppress_author
      BY <1>2, <3>1, <3>2
    <3> QED BY <3>3
  <2>2. CASE ~(1 <= Len(cites))
    BY <2>2
  <2> QED BY <2>1, <2>2
<1>4. ASSUME NEW n \in Nat, n \in D PROVE n + 1 \in D
  <2> DEFINE k == n + 2
  <2>1. CASE k <= Len(cites)
    <3>1. k \in 1 .. Len(cites) /\ k - 1 = n + 1 /\ ~cites[n + 1].suppress_author
      BY <1>1, <1>4, <2>1
    <3> HIDE DEF k
    <3>2. ~LastSuppressed(cites, k)
      BY <3>1 DEF LastSuppressed
    <3>3. ~cites[k].suppress_author
      BY <1>2, <3>1, <3>2
    <3>4. (n + 1) + 1 = k
      BY DEF k
    <3> QED BY <3>3, <3>4
  <2>2. CASE ~(k <= Len(cites))
    BY <2>2
  <2> QED BY <2>1, <2>2
<1>5. \A n \in Nat : n \in D
  <2> HIDE DEF D
  <2> QED BY <1>3, <1>4, NatSetInduction
<1>6. ASSUME NEW n \in 1 .. Len(cites) PROVE ~cites[n].suppress_author
  <2>1. n - 1 \in Nat /\ (n - 1) + 1 = n /\ n <= Len(cites)
    BY <1>1
  <2>2. n - 1 \in D
    BY <1>5, <2>1
  <2> QED BY <2>1, <2>2
<1> QED BY <1>2, <1>6

Later(K) == [n \in 1 .. K |-> Mark(n # 1)]

LEMMA ReadsNatbibSimple ==
  ASSUME NEW cites \in Seq(Citation), cites # <<>>, Len(cites) # 1, style = "natbib", ~IsComplex(cites)
  PROVE  ReadsAs(NatbibCites(cites), cites, Suppressed(cites), Later(Len(cites)))
<1> DEFINE K == Len(cites)
           none == <<>>
           brace == <<"{">>
           bare == Suppressed(cites)
           joined == Later(K)
           o == Constant(brace, K)
           a == Constant(none, K)
           m == [n \in 0 .. K |-> IF n = 0 THEN "other" ELSE "key"]
           h == Begun(K)
           parts == [n \in DOMAIN cites |-> NatbibSimple(n, cites[n])]
           start == State(brace, none, None, Off, "other", Off, none)
           found == FoundOf(cites, bare, joined, K)
           last == State(brace, none, None, Off, "key", On, found)
           end == State(none, none, None, Off, "other", On, found)
<1>1. K \in Nat \ {0} /\ DOMAIN cites = 1 .. K /\ \A n \in 1 .. K : cites[n] \in Citation
  BY EmptySeq, LenProperties, ElementOfSeq
<1>2. \A n \in 1 .. K : joined[n] = IF n = 1 THEN Off ELSE On
  BY <1>1 DEF Later, Mark
<1>3. /\ \A n \in 1 .. K : o[n] = brace /\ o[n - 1] = brace
      /\ \A n \in 1 .. K : a[n] = none /\ a[n - 1] = none
      /\ o[0] = brace /\ o[K] = brace /\ a[0] = none /\ a[K] = none
  BY <1>1, Begins
<1>4. /\ \A n \in 1 .. K : m[n] = "key" /\ m[n - 1] = IF n = 1 THEN "other" ELSE "key"
      /\ m[0] = "other" /\ m[K] = "key"
  <2>1. \A n \in 1 .. K : n \in 0 .. K /\ n - 1 \in 0 .. K /\ n # 0 /\ (n - 1 = 0 <=> n = 1)
    BY <1>1
  <2>2. 0 \in 0 .. K /\ K \in 0 .. K /\ K # 0
    BY <1>1
  <2>3. \A n \in 0 .. K : m[n] = IF n = 0 THEN "other" ELSE "key"
    OBVIOUS
  <2> HIDE DEF m
  <2> QED BY <2>1, <2>2, <2>3
<1>5. \A n \in 1 .. K : h[n] = On /\ h[n - 1] \in BOOLEAN
  BY <1>1, Begins
<1>6. h[0] = Off /\ h[K] = On
  BY <1>1, Begins
<1>7. \A n \in 1 .. K : ~HasNotes(cites[n]) /\ bare[n] = Off
  BY <1>1, SimpleMeansPlain DEF Suppressed, Mark
<1>8. brace = <<"{">> \o none /\ brace \in Seq(Brackets) /\ none \in Seq(Brackets)
  <2>1. brace \in Seq(Brackets) /\ none \in Seq(Brackets)
    BY DEF Brackets
  <2>2. <<"{">> \o <<>> = <<"{">>
    BY Tuples
  <2> QED BY <2>1, <2>2
<1> HIDE DEF bare, joined, o, a, m, h, brace
<1> DEFINE s == IF text_cites THEN "citet" ELSE "citep"
<1>9. Reads(Fresh, <<Sign(s), Sign("{")>>, start)
  <2> DEFINE fresh == State(none, none, None, Off, "other", Off, none)
  <2>1. s \in {"citet", "citep"}
    OBVIOUS
  <2> HIDE DEF s
  <2>2. s \in Signs /\ s \notin {"{", "}", "[", "]", ";", ","} /\ s \notin Suppressors
    BY <2>1, HarmlessCommands
  <2>3. Fresh = fresh
    BY FreshState
  <2> HIDE DEF none
  <2>4. Reads(fresh, <<Sign(s)>>, fresh)
    BY <2>2, OnOff, ReadsCommand
  <2>5. Reads(fresh, <<Sign("{")>>, start)
    BY <1>8, OnOff, ReadsBrace
  <2> HIDE DEF fresh, start
  <2>6. Reads(fresh, <<Sign(s)>> \o <<Sign("{")>>, start)
    BY <2>4, <2>5, ReadsBoth
  <2>7. <<Sign(s)>> \o <<Sign("{")>> = <<Sign(s), Sign("{")>>
    BY Tuples
  <2> QED BY <2>3, <2>6, <2>7
<1> HIDE DEF start
<1>10. ASSUME NEW n \in 1 .. K, NEW f
       PROVE  Reads(State(brace, none, None, Off, m[n - 1], h[n - 1], f), NatbibSimple(n, cites[n]),
                    State(brace, none, None, Off, "key", On, Append(f, Entry(cites[n], Off, joined[n]))))
  <2>1. cites[n] \in Citation /\ ~HasNotes(cites[n])
    BY <1>1, <1>7
  <2>2. CASE n = 1
    <3> DEFINE near == m[n - 1]
    <3>1. near = "other" /\ joined[n] = Off
      BY <1>2, <1>4, <2>2
    <3>2. Mark(near = "comma") = joined[n]
      BY <3>1 DEF Mark
    <3>3. NatbibSimple(n, cites[n]) = <<Key(cites[n])>>
      <4>1. NatbibSimple(n, cites[n]) = <<>> \o <<Key(cites[n])>>
        BY <2>2 DEF NatbibSimple, When
      <4>2. <<>> \o <<Key(cites[n])>> = <<Key(cites[n])>>
        BY Tuples
      <4> QED BY <4>1, <4>2
    <3> HIDE DEF near
    <3>4. Reads(State(brace, none, None, Off, near, h[n - 1], f), <<Key(cites[n])>>,
                State(brace, none, None, Off, "key", On, Append(f, Entry(cites[n], Off, Mark(near = "comma")))))
      BY <2>1, ReadsPlainKey
    <3> QED BY <3>2, <3>3, <3>4 DEF near
  <2>3. CASE n # 1
    <3>1. m[n - 1] = "key" /\ joined[n] = On
      BY <1>2, <1>4, <2>3
    <3>2. NatbibSimple(n, cites[n]) = <<Sign(",")>> \o <<Key(cites[n])>>
      BY <2>3 DEF NatbibSimple, When
    <3>3. h[n - 1] \in BOOLEAN
      BY <1>5
    <3>4. Reads(State(brace, none, None, Off, "key", h[n - 1], f), <<Sign(",")>> \o <<Key(cites[n])>>,
                State(brace, none, None, Off, "key", On, Append(f, Entry(cites[n], Off, On))))
      BY <2>1, <3>3, ReadsCommaKey
    <3> QED BY <3>1, <3>2, <3>4
  <2> QED BY <2>2, <2>3
<1> HIDE DEF none
<1>11. DOMAIN parts = 1 .. K /\ Len(parts) = K
  BY <1>1
<1>12. ASSUME NEW n \in 1 .. K
       PROVE  Reads(State(o[n - 1], a[n - 1], None, Off, m[n - 1], h[n - 1], FoundOf(cites, bare, joined, n - 1)),
                    parts[n],
                    State(o[n], a[n], None, Off, m[n], h[n],
                          Append(FoundOf(cites, bare, joined, n - 1), Entry(cites[n], bare[n], joined[n]))))
  <2>1. parts[n] = NatbibSimple(n, cites[n])
    BY <1>1
  <2> HIDE DEF parts
  <2> QED BY <1>3, <1>4, <1>5, <1>7, <1>10, <2>1
<1>13. NatbibCites(cites) = (<<Sign(s), Sign("{")>> \o Joined(parts)) \o <<Sign("}")>>
  BY DEF NatbibCites
<1> HIDE DEF parts, s
<1>14. Reads(State(o[0], a[0], None, Off, m[0], h[0], <<>>), Joined(parts),
             State(o[K], a[K], None, Off, m[K], h[K], FoundOf(cites, bare, joined, K)))
  BY <1>11, <1>12, ReadsAll
<1>15. Reads(start, Joined(parts), last)
  BY <1>3, <1>4, <1>6, <1>14 DEF start, none
<1>16. Reads(last, <<Sign("}")>>, end)
  BY <1>8, OnOff, ReadsUnbrace
<1> HIDE DEF last, end, found
<1>17. Reads(Fresh, <<Sign(s), Sign("{")>> \o Joined(parts), last)
  BY <1>9, <1>15, ReadsBoth
<1>18. Reads(Fresh, (<<Sign(s), Sign("{")>> \o Joined(parts)) \o <<Sign("}")>>, end)
  BY <1>16, <1>17, ReadsBoth
<1>19. ReadsAs(NatbibCites(cites), cites, bare, joined)
  BY <1>13, <1>18 DEF ReadsAs, end, none, found
<1> QED BY <1>19 DEF bare, joined

-----------------------------------------------------------------------------
(* LaTeX.                                                                  *)
Open(b) == IF b THEN <<"{">> ELSE <<>>
Near(b) == IF b THEN "key" ELSE "other"

LEMMA ReadsClosing ==
  ASSUME NEW b \in BOOLEAN, NEW h \in BOOLEAN, NEW f
  PROVE  Reads(State(Open(b), <<>>, None, Off, Near(b), h, f), When(b, <<Sign("}")>>),
               State(<<>>, <<>>, None, Off, "other", h, f))
<1> DEFINE none == <<>>
           q == State(Open(b), none, None, Off, Near(b), h, f)
           r == State(none, none, None, Off, "other", h, f)
<1>1. CASE b
  <2>1. none \in Seq(Brackets)
    OBVIOUS
  <2>2. <<"{">> \o <<>> = <<"{">>
    BY Tuples
  <2>3. Open(b) = <<"{">> \o none /\ Near(b) = "key" /\ When(b, <<Sign("}")>>) = <<Sign("}")>>
    BY <1>1, <2>2 DEF Open, Near, When
  <2> HIDE DEF none
  <2>4. Reads(State(<<"{">> \o none, none, None, Off, "key", h, f), <<Sign("}")>>, r)
    BY <2>1, OnOff, ReadsUnbrace
  <2> QED BY <2>3, <2>4 DEF none
<1>2. CASE ~b
  <2>1. Open(b) = none /\ Near(b) = "other" /\ When(b, <<Sign("}")>>) = <<>>
    BY <1>2 DEF Open, Near, When
  <2> HIDE DEF none
  <2>2. Reads(r, <<>>, r)
    BY ReadsNothing
  <2> QED BY <2>1, <2>2 DEF none
<1> QED BY <1>1, <1>2

LEMMA ReadsLatexNoted ==
  ASSUME NEW b \in BOOLEAN, NEW c \in Citation, NEW h \in BOOLEAN, NEW f, HasNotes(c), style = "latex"
  PROVE  Reads(State(Open(b), <<>>, None, Off, Near(b), h, f), LatexEach(b, c),
               State(<<>>, <<>>, None, Off, "other", On, Append(f, Entry(c, Off, Off))))
<1> DEFINE none == <<>>
           pre == c.prenote
           post == c.postnote
           args == IF post # None THEN <<post>> ELSE <<>>
           q == State(Open(b), none, None, Off, Near(b), h, f)
           r1 == State(none, none, None, Off, "other", h, f)
           r2 == State(none, none, pre, Off, "other", h, f)
           r3 == State(none, args, pre, Off, "other", h, f)
           r4 == State(none, none, None, Off, "other", On, Append(f, Entry(c, Off, Off)))
           t1 == When(b, <<Sign("}")>>)
           t2 == When(pre # None, Written(pre) \o <<Sign("~")>>)
           t3 == <<Sign("cite")>>
           t4 == When(post # None, Bracketed(post))
<1>1. pre \in MaybeNoted /\ post \in MaybeNoted /\ none \in Seq(Brackets) /\ none \in Seq(MaybeNoted)
  BY DEF Citation
<1>2. style # "generic" /\ style \in {"latex", "generic"}
  OBVIOUS
<1>3. Reads(q, t1, r1)
  BY ReadsClosing
<1>4. LatexEach(b, c) = (((t1 \o t2) \o t3) \o t4) \o Braced(c)
  BY DEF LatexEach
<1>5. Reads(r1, t2, r2)
  <2>1. CASE pre = None
    <3>1. t2 = <<>>
      BY <2>1 DEF When
    <3>2. Reads(r1, <<>>, r1)
      BY ReadsNothing
    <3> QED BY <2>1, <3>1, <3>2
  <2>2. CASE pre # None
    <3>1. t2 = Written(pre) \o <<Sign("~")>>
      BY <2>2 DEF When
    <3> DEFINE s == "~"
    <3>2. s \in Signs /\ s \notin {"{", "}", "[", "]", ";", ","} /\ s \notin Suppressors
      BY HarmlessCommands
    <3>3. ~InBrackets(none)
      BY DEF InBrackets
    <3> HIDE DEF none, pre, t2, s
    <3>4. Reads(r1, Written(pre), r2)
      BY <1>1, <1>2, <3>3, OnOff, ReadsWritten
    <3>5. Reads(r2, <<Sign(s)>>, r2)
      BY <3>2, OnOff, ReadsCommand
    <3> HIDE DEF r1, r2
    <3>6. Reads(r1, Written(pre) \o <<Sign(s)>>, r2)
      BY <3>4, <3>5, ReadsBoth
    <3> QED BY <3>1, <3>6 DEF s
  <2> QED BY <2>1, <2>2
<1>6. Reads(r2, t3, r2)
  <2> DEFINE s == "cite"
  <2>1. s \in Signs /\ s \notin {"{", "}", "[", "]", ";", ","} /\ s \notin Suppressors
    BY HarmlessCommands
  <2> HIDE DEF s, none, pre
  <2>2. Reads(r2, <<Sign(s)>>, r2)
    BY <2>1, OnOff, ReadsCommand
  <2> QED BY <2>2 DEF s
<1>7. Reads(r2, t4, r3)
  <2>1. CASE post = None
    <3>1. t4 = <<>> /\ args = none
      BY <2>1 DEF When
    <3> HIDE DEF t4, args, none, pre
    <3>2. Reads(r2, <<>>, r2)
      BY ReadsNothing
    <3> QED BY <3>1, <3>2
  <2>2. CASE post # None
    <3>1. t4 = Bracketed(post)
      BY <2>2 DEF When
    <3>2. args = Append(none, post)
      BY <2>2, Tuples
    <3> HIDE DEF t4, args, none, pre, post
    <3>3. Reads(r2, Bracketed(post), State(none, Append(none, post), pre, Off, "other", h, f))
      BY <1>1, <1>2, OnOff, ReadsBracketed
    <3> QED BY <3>1, <3>2, <3>3
  <2> QED BY <2>1, <2>2
<1>8. Reads(r3, Braced(c), r4)
  <2>1. c.prenote = IF style \in {"latex", "generic"} THEN pre ELSE IF Len(args) = 2 THEN args[1] ELSE None
    BY <1>2
  <2>2. c.postnote = IF args = <<>> THEN None ELSE args[Len(args)]
    <3>1. CASE post = None
      BY <3>1
    <3>2. CASE post # None
      BY <3>2
    <3> QED BY <3>1, <3>2
  <2> HIDE DEF args, pre, post
  <2>3. Reads(State(none, args, pre, Off, "other", h, f), Braced(c),
              State(none, <<>>, None, Off, "other", On, Append(f, Entry(c, Off, Off))))
    <3> HIDE DEF none
    <3> QED BY <1>1, <2>1, <2>2, OnOff, ReadsBraced
  <2> QED BY <2>3
<1> HIDE DEF t1, t2, t3, t4, r1, r2, r3, r4, q
<1>9. Reads(q, t1 \o t2, r2)
  BY <1>3, <1>5, ReadsBoth
<1>10. Reads(q, (t1 \o t2) \o t3, r2)
  BY <1>6, <1>9, ReadsBoth
<1>11. Reads(q, ((t1 \o t2) \o t3) \o t4, r3)
  BY <1>7, <1>10, ReadsBoth
<1>12. Reads(q, (((t1 \o t2) \o t3) \o t4) \o Braced(c), r4)
  BY <1>8, <1>11, ReadsBoth
<1> QED BY <1>4, <1>12 DEF q, r4

LEMMA ReadsLatexPlain ==
  ASSUME NEW b \in BOOLEAN, NEW c \in Citation, NEW h \in BOOLEAN, NEW f, ~HasNotes(c)
  PROVE  Reads(State(Open(b), <<>>, None, Off, Near(b), h, f), LatexEach(b, c),
               State(<<"{">>, <<>>, None, Off, "key", On, Append(f, Entry(c, Off, Mark(b)))))
<1> DEFINE none == <<>>
           brace == <<"{">>
<1>1. CASE b
  <2>1. LatexEach(b, c) = <<Sign(",")>> \o <<Key(c)>>
    BY <1>1 DEF LatexEach
  <2>2. Open(b) = brace /\ Near(b) = "key" /\ Mark(b) = On
    BY <1>1 DEF Open, Near, Mark
  <2> HIDE DEF brace
  <2>3. Reads(State(brace, <<>>, None, Off, "key", h, f), <<Sign(",")>> \o <<Key(c)>>,
              State(brace, <<>>, None, Off, "key", On, Append(f, Entry(c, Off, On))))
    BY ReadsCommaKey
  <2> QED BY <2>1, <2>2, <2>3 DEF brace
<1>2. CASE ~b
  <2> DEFINE s == "cite"
             m == "other"
             q == State(none, none, None, Off, m, h, f)
             r == State(brace, none, None, Off, m, h, f)
             u == State(brace, none, None, Off, "key", On, Append(f, Entry(c, Off, Mark(b))))
  <2>1. LatexEach(b, c) = <<Sign(s), Sign("{")>> \o <<Key(c)>>
    BY <1>2 DEF LatexEach
  <2>2. Open(b) = none /\ Near(b) = m /\ Mark(b) = Off
    BY <1>2 DEF Open, Near, Mark
  <2>3. s \in Signs /\ s \notin {"{", "}", "[", "]", ";", ","} /\ s \notin Suppressors
    BY HarmlessCommands
  <2>4. brace = <<"{">> \o none /\ none \in Seq(Brackets)
    <3>1. <<"{">> \o <<>> = <<"{">>
      BY Tuples
    <3> QED BY <3>1
  <2>5. Mark(m = "comma") = Off
    BY DEF Mark
  <2>6. Reads(State(brace, none, None, Off, m, h, f), <<Key(c)>>,
              State(brace, none, None, Off, "key", On, Append(f, Entry(c, Off, Mark(m = "comma")))))
    <3> HIDE DEF m, brace
    <3> QED BY ReadsPlainKey
  <2>7. Reads(r, <<Key(c)>>, u)
    <3> HIDE DEF brace, none, m
    <3> QED BY <2>2, <2>5, <2>6
  <2>8. Reads(q, <<Sign(s)>>, q)
    <3> HIDE DEF s, none
    <3> QED BY <2>3, OnOff, ReadsCommand
  <2>9. Reads(q, <<Sign("{")>>, r)
    <3> HIDE DEF none, brace
    <3> QED BY <2>4, OnOff, ReadsBrace
  <2>10. <<Sign(s)>> \o <<Sign("{")>> = <<Sign(s), Sign("{")>>
    BY Tuples
  <2> HIDE DEF s, q, r, u
  <2>11. Reads(q, <<Sign(s)>> \o <<Sign("{")>>, r)
    BY <2>8, <2>9, ReadsBoth
  <2>12. Reads(q, (<<Sign(s)>> \o <<Sign("{")>>) \o <<Key(c)>>, u)
    BY <2>7, <2>11, ReadsBoth
  <2> HIDE DEF none, brace, m
  <2>13. Reads(State(Open(b), none, None, Off, Near(b), h, f), LatexEach(b, c), u)
    BY <2>1, <2>2, <2>10, <2>12 DEF q
  <2> QED BY <2>13 DEF u, none, brace
<1> QED BY <1>1, <1>2

(* opened_braces after n citations: the function of LatexCites.            *)
Opened(cites) == [n \in 0 .. Len(cites) |-> n # 0 /\ ~HasNotes(cites[n])]

LEMMA LatexOpened ==
  ASSUME NEW cites \in Seq(Citation)
  PROVE  LatexCites(cites) = Joined([n \in DOMAIN cites |-> LatexEach(Opened(cites)[n - 1], cites[n])])
                               \o When(Opened(cites)[Len(cites)], <<Sign("}")>>)
<1> DEFINE opened == CHOOSE f : f = [n \in 0 .. Len(cites) |-> n # 0 /\ OpenedBraces(f[n - 1], cites[n])]
<1>1. Opened(cites) = [n \in 0 .. Len(cites) |-> n # 0 /\ OpenedBraces(Opened(cites)[n - 1], cites[n])]
  BY DEF Opened, OpenedBraces
<1>2. opened = [n \in 0 .. Len(cites) |-> n # 0 /\ OpenedBraces(opened[n - 1], cites[n])]
  BY <1>1
<1>3. LatexCites(cites) = Joined([n \in DOMAIN cites |-> LatexEach(opened[n - 1], cites[n])])
                            \o When(opened[Len(cites)], <<Sign("}")>>)
  BY DEF LatexCites
<1> HIDE DEF opened
<1>4. opened = Opened(cites)
  BY <1>2 DEF Opened, OpenedBraces
<1> QED BY <1>3, <1>4

(* Two neighbours without notes share a command.                           *)
Sharing(cites) ==
  [n \in 1 .. Len(cites) |-> Mark(n # 1 /\ ~HasNotes(cites[n - 1]) /\ ~HasNotes(cites[n]))]

LEMMA ReadsLatex ==
  ASSUME NEW cites \in Seq(Citation), cites # <<>>, style = "latex"
  PROVE  ReadsAs(LatexCites(cites), cites, Constant(Off, Len(cites)), Sharing(cites))
<1> DEFINE K == Len(cites)
           none == <<>>
           bare == Constant(Off, K)
           joined == Sharing(cites)
           opened == Opened(cites)
           o == [n \in 0 .. K |-> Open(opened[n])]
           a == Constant(none, K)
           m == [n \in 0 .. K |-> Near(opened[n])]
           h == Begun(K)
           parts == [n \in DOMAIN cites |-> LatexEach(opened[n - 1], cites[n])]
           found == FoundOf(cites, bare, joined, K)
           last == State(o[K], none, None, Off, m[K], On, found)
           end == State(none, none, None, Off, "other", On, found)
           ending == When(opened[K], <<Sign("}")>>)
<1>1. K \in Nat \ {0} /\ DOMAIN cites = 1 .. K /\ \A n \in 1 .. K : cites[n] \in Citation
  BY EmptySeq, LenProperties, ElementOfSeq
<1>2. \A n \in 1 .. K : bare[n] = Off
  BY <1>1, Begins
<1>3. /\ \A n \in 1 .. K : a[n] = none /\ a[n - 1] = none
      /\ a[0] = none /\ a[K] = none
  BY <1>1, Begins
<1>4. \A n \in 1 .. K : h[n] = On /\ h[n - 1] \in BOOLEAN
  BY <1>1, Begins
<1>5. h[0] = Off /\ h[K] = On
  BY <1>1, Begins
<1>6. /\ \A n \in 0 .. K : opened[n] \in BOOLEAN
      /\ ~opened[0]
      /\ \A n \in 1 .. K : opened[n] <=> ~HasNotes(cites[n])
  <2>1. 0 \in 0 .. K /\ \A n \in 1 .. K : n \in 0 .. K /\ n # 0
    BY <1>1
  <2>2. \A n \in 0 .. K : opened[n] = (n # 0 /\ ~HasNotes(cites[n]))
    BY DEF Opened
  <2>3. \A n \in 0 .. K : opened[n] \in BOOLEAN
    BY DEF Opened
  <2> HIDE DEF opened
  <2> QED BY <2>1, <2>2, <2>3
<1>7. \A n \in 0 .. K : o[n] = Open(opened[n]) /\ m[n] = Near(opened[n])
  OBVIOUS
<1>8. 0 \in 0 .. K /\ K \in 0 .. K /\ \A n \in 1 .. K : n \in 0 .. K /\ n - 1 \in 0 .. K
  BY <1>1
<1>9. ASSUME NEW n \in 1 .. K PROVE HasNotes(cites[n]) => joined[n] = Off
  BY <1>9 DEF Sharing, Mark
<1>10. ASSUME NEW n \in 1 .. K, ~HasNotes(cites[n]) PROVE joined[n] = Mark(opened[n - 1])
  <2>1. joined[n] = Mark(n # 1 /\ ~HasNotes(cites[n - 1]) /\ ~HasNotes(cites[n]))
    BY DEF Sharing
  <2>2. CASE n = 1
    <3>1. n - 1 = 0
      BY <2>2
    <3>2. ~opened[n - 1]
      BY <1>6, <3>1
    <3> HIDE DEF opened, joined
    <3> QED BY <2>1, <2>2, <3>2 DEF Mark
  <2>3. CASE n # 1
    <3>1. n - 1 \in 1 .. K
      BY <1>1, <2>3
    <3>2. opened[n - 1] <=> ~HasNotes(cites[n - 1])
      BY <1>6, <3>1
    <3> HIDE DEF opened, joined
    <3> QED BY <1>10, <2>1, <2>3, <3>2 DEF Mark
  <2> QED BY <2>2, <2>3
<1> HIDE DEF bare, joined, opened, o, a, m, h
<1>11. ASSUME NEW n \in 1 .. K, NEW f
       PROVE  Reads(State(o[n - 1], none, None, Off, m[n - 1], h[n - 1], f), LatexEach(opened[n - 1], cites[n]),
                    State(o[n], none, None, Off, m[n], On, Append(f, Entry(cites[n], Off, joined[n]))))
  <2> DEFINE b == opened[n - 1]
  <2>1. b \in BOOLEAN /\ o[n - 1] = Open(b) /\ m[n - 1] = Near(b)
    BY <1>6, <1>7, <1>8
  <2>2. cites[n] \in Citation /\ h[n - 1] \in BOOLEAN
    BY <1>1, <1>4
  <2>3. CASE HasNotes(cites[n])
    <3>1. ~opened[n] /\ joined[n] = Off
      BY <1>6, <1>9, <2>3
    <3>2. o[n] = none /\ m[n] = "other"
      BY <1>7, <1>8, <3>1 DEF Open, Near
    <3> HIDE DEF b
    <3>3. Reads(State(Open(b), <<>>, None, Off, Near(b), h[n - 1], f), LatexEach(b, cites[n]),
                State(<<>>, <<>>, None, Off, "other", On, Append(f, Entry(cites[n], Off, Off))))
      BY <2>1, <2>2, <2>3, ReadsLatexNoted
    <3> QED BY <2>1, <3>1, <3>2, <3>3 DEF b
  <2>4. CASE ~HasNotes(cites[n])
    <3>1. opened[n] /\ joined[n] = Mark(b)
      BY <1>6, <1>10, <2>4
    <3>2. o[n] = <<"{">> /\ m[n] = "key"
      BY <1>7, <1>8, <3>1 DEF Open, Near
    <3> HIDE DEF b
    <3>3. Reads(State(Open(b), <<>>, None, Off, Near(b), h[n - 1], f), LatexEach(b, cites[n]),
                State(<<"{">>, <<>>, None, Off, "key", On, Append(f, Entry(cites[n], Off, Mark(b)))))
      BY <2>1, <2>2, <2>4, ReadsLatexPlain
    <3> QED BY <2>1, <3>1, <3>2, <3>3 DEF b
  <2> QED BY <2>3, <2>4
<1>12. o[0] = none /\ m[0] = "other"
  BY <1>6, <1>7, <1>8 DEF Open, Near
<1>13. Reads(last, ending, end)
  <2> DEFINE b == opened[K]
  <2>1. b \in BOOLEAN /\ o[K] = Open(b) /\ m[K] = Near(b)
    BY <1>6, <1>7, <1>8
  <2> HIDE DEF b, found
  <2>2. Reads(State(Open(b), <<>>, None, Off, Near(b), On, found), When(b, <<Sign("}")>>),
              State(<<>>, <<>>, None, Off, "other", On, found))
    BY <2>1, OnOff, ReadsClosing
  <2> QED BY <2>1, <2>2 DEF b
<1> HIDE DEF none
<1>14. DOMAIN parts = 1 .. K /\ Len(parts) = K
  BY <1>1
<1>15. ASSUME NEW n \in 1 .. K
       PROVE  Reads(State(o[n - 1], a[n - 1], None, Off, m[n - 1], h[n - 1], FoundOf(cites, bare, joined, n - 1)),
                    parts[n],
                    State(o[n], a[n], None, Off, m[n], h[n],
                          Append(FoundOf(cites, bare, joined, n - 1), Entry(cites[n], bare[n], joined[n]))))
  <2>1. parts[n] = LatexEach(opened[n - 1], cites[n])
    BY <1>1
  <2> HIDE DEF parts
  <2> QED BY <1>2, <1>3, <1>4, <1>11, <2>1
<1>16. LatexCites(cites) = Joined(parts) \o ending
  BY LatexOpened DEF opened
<1> HIDE DEF parts, ending
<1>17. Reads(State(o[0], a[0], None, Off, m[0], h[0], <<>>), Joined(parts),
             State(o[K], a[K], None, Off, m[K], h[K], FoundOf(cites, bare, joined, K)))
  BY <1>14, <1>15, ReadsAll
<1>18. Reads(Fresh, Joined(parts), last)
  BY <1>3, <1>5, <1>12, <1>17, FreshState DEF none
<1> HIDE DEF last, end, found
<1>19. Reads(Fresh, Joined(parts) \o ending, end)
  BY <1>13, <1>18, ReadsBoth
<1>20. ReadsAs(LatexCites(cites), cites, bare, joined)
  BY <1>16, <1>19 DEF ReadsAs, end, none, found
<1> QED BY <1>20 DEF bare, joined

-----------------------------------------------------------------------------
(* The generic writer.                                                     *)
Behind(c) == IF c.postnote = None THEN "key" ELSE "other"

(* No optional argument, or the empty one that a bracket begins.           *)
NoArgument(a) == (IF a = <<>> THEN None ELSE a[Len(a)]) = None

LEMMA NoArguments == NoArgument(<<>>) /\ NoArgument(<<None>>)
BY DEF NoArgument

LEMMA FoundIsSequence ==
  ASSUME NEW cites, NEW bare, NEW joined, NEW n \in Nat
  PROVE  \E S : FoundOf(cites, bare, joined, n) \in Seq(S)
<1> DEFINE e(k) == Entry(cites[k], bare[k], joined[k])
           S == {e(k) : k \in 1 .. n}
<1> HIDE DEF e
<1>1. [k \in 1 .. n |-> e(k)] \in Seq(S)
  OBVIOUS
<1>2. FoundOf(cites, bare, joined, n) = [k \in 1 .. n |-> e(k)]
  BY DEF FoundOf, e
<1> QED BY <1>1, <1>2

(* The citation before the note behind it is read.                         *)
Unnoted(c) == [prenote |-> c.prenote, name |-> c.name, postnote |-> None,
               bare |-> Mark(c.suppress_author), joined |-> Off]

LEMMA ReadsGenericKey ==
  ASSUME NEW o, NEW a, NEW m, NEW h \in BOOLEAN, NEW f, NEW c \in Citation, NoArgument(a), style = "generic"
  PROVE  Reads(State(o, a, c.prenote, Off, m, h, f), GenericKey(c),
               State(o, <<>>, None, Off, "key", On, Append(f, Unnoted(c))))
<1> DEFINE b == Mark(c.suppress_author)
           x == c.prenote
           m2 == "other"
           at == "@"
           q == State(o, a, x, Off, m, h, f)
           r == State(o, a, x, b, m2, h, f)
           u == State(o, <<>>, None, Off, "key", On, Append(f, Unnoted(c)))
           w == When(c.suppress_author, <<Sign("-")>>)
<1>1. c.suppress_author \in BOOLEAN /\ c.name \in Keys
  BY DEF Citation
<1>2. b \in BOOLEAN
  BY OnOff DEF Mark
<1>3. at \in Signs /\ at \notin {"{", "}", "[", "]", ";", ","} /\ at \notin Suppressors
  BY HarmlessCommands
<1>4. EntryRead(a, x, c, b, m2) = Unnoted(c)
  <2>1. (m2 = "comma") = Off
    BY DEF Off
  <2> HIDE DEF b, m2
  <2>2. EntryRead(a, x, c, b, m2) = [prenote |-> x, name |-> c.name, postnote |-> None, bare |-> b, joined |-> Off]
    BY <2>1 DEF EntryRead, NoArgument
  <2> QED BY <2>2 DEF Unnoted, b
<1>5. GenericKey(c) = w \o <<Sign(at), Key(c)>>
  BY DEF GenericKey
<1>6. <<Sign(at)>> \o <<Key(c)>> = <<Sign(at), Key(c)>>
  BY Tuples
<1>7. Reads(r, <<Key(c)>>, u)
  <2> HIDE DEF b, x, m2
  <2>1. Reads(r, <<Key(c)>>, State(o, <<>>, None, Off, "key", On, Append(f, EntryRead(a, x, c, b, m2))))
    BY <1>1, <1>2, ReadsKey
  <2> QED BY <1>4, <2>1
<1>8. Reads(r, <<Sign(at)>>, r)
  <2> HIDE DEF b, x, at
  <2> QED BY <1>2, <1>3, ReadsCommand
<1>9. \E k : Reads(q, w, State(o, a, x, b, k, h, f))
  <2>1. CASE c.suppress_author
    <3> DEFINE s == "-"
    <3>1. w = <<Sign(s)>> /\ b = On
      BY <2>1 DEF When, Mark
    <3>2. s \in Suppressors
      BY DEF Suppressors
    <3> HIDE DEF w, b, s, x
    <3>3. Reads(q, <<Sign(s)>>, State(o, a, x, On, "other", h, f))
      BY <3>2, OnOff, ReadsSuppressor
    <3> QED BY <3>1, <3>3
  <2>2. CASE ~c.suppress_author
    <3>1. w = <<>> /\ b = Off
      BY <2>2 DEF When, Mark
    <3> HIDE DEF w, b, x
    <3>2. Reads(q, <<>>, q)
      BY ReadsNothing
    <3> QED BY <3>1, <3>2
  <2> QED BY <1>1, <2>1, <2>2
<1>10. PICK k : Reads(q, w, State(o, a, x, b, k, h, f))
  BY <1>9
<1>11. Reads(State(o, a, x, b, k, h, f), <<Sign(at)>>, r)
  <2> HIDE DEF b, x, at
  <2> QED BY <1>2, <1>3, ReadsCommand
<1> HIDE DEF q, r, u, w, b, x, at
<1>12. Reads(State(o, a, x, b, k, h, f), <<Sign(at)>> \o <<Key(c)>>, u)
  BY <1>7, <1>11, ReadsBoth
<1>13. Reads(q, w \o (<<Sign(at)>> \o <<Key(c)>>), u)
  BY <1>10, <1>12, ReadsBoth
<1> QED BY <1>5, <1>6, <1>13 DEF q, u, x

LEMMA ReadsBehind ==
  ASSUME NEW o, NEW a, NEW m, NEW S, NEW f \in Seq(S), NEW c \in Citation, c.postnote # None,
         style = "generic", InBrackets(o)
  PROVE  Reads(State(o, a, None, Off, m, On, Append(f, Unnoted(c))), <<Note(c.postnote)>>,
               State(o, a, None, Off, "other", On, Append(f, Entry(c, Mark(c.suppress_author), Off))))
<1> DEFINE b == Mark(c.suppress_author)
<1>1. c.postnote \in Notes
  BY DEF Citation, MaybeNoted
<1> HIDE DEF b
<1>2. Reads(State(o, a, None, Off, m, On,
                  Append(f, [prenote |-> c.prenote, name |-> c.name, postnote |-> None, bare |-> b, joined |-> Off])),
            <<Note(c.postnote)>>,
            State(o, a, None, Off, "other", On,
                  Append(f, [prenote |-> c.prenote, name |-> c.name, postnote |-> c.postnote,
                             bare |-> b, joined |-> Off])))
  BY <1>1, ReadsNoteBehind
<1> QED BY <1>2 DEF Unnoted, Entry, b

(* A citation in brackets, the first or one that follows a semicolon.      *)
LEMMA ReadsGeneric ==
  ASSUME NEW q, NEW w, NEW o, NEW a, NEW S, NEW f \in Seq(S), NEW c \in Citation, NoArgument(a), style = "generic",
         InBrackets(o),
         Reads(q, w, State(o, a, None, Off, "other", Off, f))
  PROVE  Reads(q, ((w \o Written(c.prenote)) \o GenericKey(c)) \o Written(c.postnote),
               State(o, <<>>, None, Off, Behind(c), On, Append(f, Entry(c, Mark(c.suppress_author), Off))))
<1> DEFINE none == <<>>
           x == c.prenote
           post == c.postnote
           r1 == State(o, a, None, Off, "other", Off, f)
           r2 == State(o, a, x, Off, "other", Off, f)
           r3 == State(o, none, None, Off, "key", On, Append(f, Unnoted(c)))
           r4 == State(o, none, None, Off, Behind(c), On, Append(f, Entry(c, Mark(c.suppress_author), Off)))
<1>1. x \in MaybeNoted /\ post \in MaybeNoted
  BY DEF Citation
<1>2. Reads(r1, Written(x), r2)
  <2>1. style = "generic" => InBrackets(o) /\ ~Off
    BY OnOff
  <2>2. style # "generic" => ~InBrackets(o)
    OBVIOUS
  <2> HIDE DEF x
  <2> QED BY <1>1, <2>1, <2>2, ReadsWritten
<1>3. Reads(r2, GenericKey(c), r3)
  BY OnOff, ReadsGenericKey
<1>4. Reads(r3, Written(post), r4)
  <2>1. CASE post = None
    <3>1. Written(post) = <<>> /\ Behind(c) = "key"
      BY <2>1 DEF Written, When, Behind
    <3>2. Unnoted(c) = Entry(c, Mark(c.suppress_author), Off)
      BY <2>1 DEF Unnoted, Entry
    <3> HIDE DEF none, post
    <3>3. Reads(r3, <<>>, r3)
      BY ReadsNothing
    <3> QED BY <3>1, <3>2, <3>3
  <2>2. CASE post # None
    <3>1. Written(post) = <<Note(c.postnote)>> /\ Behind(c) = "other" /\ c.postnote # None
      BY <2>2 DEF Written, When, Behind
    <3> HIDE DEF none, post
    <3>2. Reads(r3, <<Note(c.postnote)>>,
                State(o, none, None, Off, "other", On, Append(f, Entry(c, Mark(c.suppress_author), Off))))
      BY <3>1, ReadsBehind
    <3> QED BY <3>1, <3>2
  <2> QED BY <2>1, <2>2
<1> HIDE DEF r1, r2, r3, r4, x, post
<1>5. Reads(q, w \o Written(x), r2)
  BY <1>2, ReadsBoth DEF r1
<1>6. Reads(q, (w \o Written(x)) \o GenericKey(c), r3)
  BY <1>3, <1>5, ReadsBoth
<1>7. Reads(q, ((w \o Written(x)) \o GenericKey(c)) \o Written(post), r4)
  BY <1>4, <1>6, ReadsBoth
<1> QED BY <1>7 DEF r4, x, post

LEMMA OneBracket == <<"[">> = <<"[">> \o <<>> /\ <<>> \in Seq(Brackets) /\ InBrackets(<<"[">>)
<1> DEFINE none == <<>>
           bracket == <<"[">>
<1>1. none \in Seq(Brackets)
  OBVIOUS
<1>2. <<"[">> \o none = bracket
  BY Tuples
<1> HIDE DEF none
<1>3. <<"[">> \o none # <<>> /\ Head(<<"[">> \o none) = "["
  BY <1>1, OnTop DEF Brackets
<1> HIDE DEF bracket
<1>4. InBrackets(bracket)
  BY <1>2, <1>3 DEF InBrackets
<1> QED BY <1>1, <1>2, <1>4 DEF none, bracket

(* The first one in the text with a note after its key, which stands in a  *)
(* bracket that stays open.                                                *)
LEMMA ReadsGenericFirst ==
  ASSUME NEW S, NEW f \in Seq(S), NEW c \in Citation, c.prenote = None, c.postnote # None, style = "generic"
  PROVE  Reads(State(<<>>, <<>>, None, Off, "other", Off, f),
               GenericKey(c) \o When(c.postnote # None, <<Sign("["), Note(c.postnote)>>),
               State(<<"[">>, <<None>>, None, Off, Behind(c), On,
                     Append(f, Entry(c, Mark(c.suppress_author), Off))))
<1> DEFINE none == <<>>
           bracket == <<"[">>
           args == <<None>>
           post == c.postnote
           e == Entry(c, Mark(c.suppress_author), Off)
           r1 == State(none, none, None, Off, "other", Off, f)
           r2 == State(none, none, None, Off, "key", On, Append(f, Unnoted(c)))
           r3 == State(bracket, args, None, Off, "other", On, Append(f, Unnoted(c)))
           r4 == State(bracket, args, None, Off, Behind(c), On, Append(f, e))
           w == When(post # None, <<Sign("["), Note(post)>>)
<1>1. none \in Seq(Brackets) /\ NoArgument(none) /\ InBrackets(bracket)
  BY NoArguments, OneBracket
<1>2. Reads(r1, GenericKey(c), r2)
  <2>1. Reads(State(none, none, c.prenote, Off, "other", Off, f), GenericKey(c), r2)
    BY <1>1, OnOff, ReadsGenericKey
  <2> QED BY <2>1
<1>3. Behind(c) = "other"
  BY DEF Behind
<1>4. w = <<Sign("[")>> \o <<Note(post)>>
  <2>1. <<Sign("[")>> \o <<Note(post)>> = <<Sign("["), Note(post)>>
    BY Tuples
  <2> QED BY <2>1 DEF When
<1>5. bracket = <<"[">> \o none /\ args = Append(none, None)
  BY Tuples, OneBracket
<1> HIDE DEF none, bracket, args, w
<1>6. Reads(r2, <<Sign("[")>>, r3)
  BY <1>1, <1>5, OnOff, ReadsBracket
<1>7. Reads(r3, <<Note(c.postnote)>>,
            State(bracket, args, None, Off, "other", On, Append(f, Entry(c, Mark(c.suppress_author), Off))))
  BY <1>1, ReadsBehind
<1>8. Reads(r3, <<Note(post)>>, r4)
  BY <1>3, <1>7
<1> HIDE DEF r1, r2, r3, r4, post
<1>9. Reads(r2, <<Sign("[")>> \o <<Note(post)>>, r4)
  BY <1>6, <1>8, ReadsBoth
<1>10. Reads(r1, GenericKey(c) \o w, r4)
  BY <1>2, <1>4, <1>9, ReadsBoth
<1> QED BY <1>10 DEF r1, r4, none, bracket, args, w, post

LEMMA ReadsGenericCites ==
  ASSUME NEW cites \in Seq(Citation), cites # <<>>, style = "generic", text_cites \in BOOLEAN,
         text_cites => cites[1].prenote = None /\ cites[1].postnote # None
  PROVE  ReadsAs(GenericCites(cites), cites, Suppressed(cites), Constant(Off, Len(cites)))
<1> DEFINE K == Len(cites)
           none == <<>>
           bracket == <<"[">>
           first == text_cites
           bare == Suppressed(cites)
           no == Constant(Off, K)
           o == [n \in 0 .. K |-> IF n = 0 THEN none ELSE bracket]
           a == [n \in 0 .. K |-> IF n = 1 /\ first THEN <<None>> ELSE none]
           m == [n \in 0 .. K |-> IF n = 0 THEN "other" ELSE Behind(cites[n])]
           h == Begun(K)
           parts == [n \in DOMAIN cites |-> GenericEach(n, cites[n])]
           found == FoundOf(cites, bare, no, K)
           last == State(bracket, a[K], None, Off, m[K], On, found)
           ending == When(~text_cites \/ cites[1].postnote # None, <<Sign("]")>>)
           e(n) == Entry(cites[n], Mark(cites[n].suppress_author), Off)
<1>1. K \in Nat \ {0} /\ DOMAIN cites = 1 .. K /\ \A n \in 1 .. K : cites[n] \in Citation
  BY EmptySeq, LenProperties, ElementOfSeq
<1>2. \A n \in 1 .. K : no[n] = Off /\ bare[n] = Mark(cites[n].suppress_author)
  BY <1>1, Begins DEF Suppressed
<1>3. 0 \in 0 .. K /\ K \in 1 .. K /\ \A n \in 1 .. K : n \in 0 .. K /\ n - 1 \in 0 .. K /\ n # 0
  BY <1>1
<1>4. \A n \in 1 .. K : h[n] = On /\ h[n - 1] \in BOOLEAN
  BY <1>1, Begins
<1>5. h[0] = Off /\ h[K] = On
  BY <1>1, Begins
<1>6. /\ o[0] = none /\ \A n \in 1 .. K : o[n] = bracket
      /\ m[0] = "other" /\ \A n \in 1 .. K : m[n] = Behind(cites[n])
  <2> HIDE DEF bracket, none, K
  <2>1. /\ \A n \in 0 .. K : o[n] = IF n = 0 THEN none ELSE bracket
        /\ \A n \in 0 .. K : m[n] = IF n = 0 THEN "other" ELSE Behind(cites[n])
    OBVIOUS
  <2> HIDE DEF o, m
  <2> QED BY <1>3, <2>1
<1>7. \A n \in 0 .. K : a[n] = IF n = 1 /\ first THEN <<None>> ELSE none
  OBVIOUS
<1>8. NoArgument(none) /\ \A n \in 0 .. K : NoArgument(a[n])
  <2>1. \A n \in 0 .. K : a[n] = <<None>> \/ a[n] = none
    <3> HIDE DEF a, none, first
    <3> QED BY <1>7
  <2> HIDE DEF a
  <2> QED BY <2>1, NoArguments
<1>9. none \in Seq(Brackets) /\ bracket = <<"[">> \o none /\ InBrackets(bracket)
  BY OneBracket
<1>10. \A n \in 1 .. K : e(n) = Entry(cites[n], bare[n], no[n])
  <2> HIDE DEF bare, no
  <2> QED BY <1>2
<1> HIDE DEF bare, no, o, a, m, h
<1>11. ASSUME NEW n \in 1 .. K, NEW S, NEW f \in Seq(S), n = 1 => h[n - 1] = Off
       PROVE  Reads(State(o[n - 1], a[n - 1], None, Off, m[n - 1], h[n - 1], f), GenericEach(n, cites[n]),
                    State(o[n], a[n], None, Off, m[n], On, Append(f, e(n))))
  <2> DEFINE c == cites[n]
             q == State(o[n - 1], a[n - 1], None, Off, m[n - 1], h[n - 1], f)
  <2>1. c \in Citation
    BY <1>1
  <2>2. o[n] = bracket /\ m[n] = Behind(c)
    BY <1>6
  <2>3. CASE n = 1
    <3>1. o[n - 1] = none /\ m[n - 1] = "other" /\ h[n - 1] = Off
      BY <1>6, <1>11, <2>3
    <3>2. a[n - 1] = none
      <4>1. n - 1 # 1 /\ n - 1 \in 0 .. K
        BY <1>3, <2>3
      <4> HIDE DEF first, none
      <4> QED BY <1>7, <4>1
    <3>3. q = State(none, none, None, Off, "other", Off, f)
      <4> HIDE DEF none
      <4> QED BY <3>1, <3>2
    <3>4. CASE text_cites
      <4>1. c.prenote = None /\ c.postnote # None
        BY <2>3, <3>4
      <4>2. GenericEach(n, c) = GenericKey(c) \o When(c.postnote # None, <<Sign("["), Note(c.postnote)>>)
        BY <2>3, <3>4 DEF GenericEach
      <4>3. Reads(State(<<>>, <<>>, None, Off, "other", Off, f),
                  GenericKey(c) \o When(c.postnote # None, <<Sign("["), Note(c.postnote)>>),
                  State(<<"[">>, <<None>>, None, Off, Behind(c), On,
                        Append(f, Entry(c, Mark(c.suppress_author), Off))))
        <5> HIDE DEF c
        <5> QED BY <2>1, <4>1, ReadsGenericFirst
      <4>4. a[n] = <<None>>
        BY <1>3, <1>7, <2>3, <3>4
      <4> DEFINE t == State(o[n], a[n], None, Off, m[n], On, Append(f, e(n)))
      <4>5. State(bracket, <<None>>, None, Off, Behind(c), On,
                  Append(f, Entry(c, Mark(c.suppress_author), Off))) = t
        <5> HIDE DEF bracket
        <5> QED BY <2>2, <4>4
      <4> HIDE DEF q, t, c
      <4>6. Reads(q, GenericEach(n, c), t)
        BY <3>3, <4>2, <4>3, <4>5 DEF none, bracket
      <4> QED BY <4>6 DEF q, t, c
    <3>5. CASE ~text_cites
      <4> DEFINE w == <<Sign("[")>>
                 args == Append(none, None)
      <4>1. GenericEach(n, c) = ((w \o Written(c.prenote)) \o GenericKey(c)) \o Written(c.postnote)
        BY <2>3, <3>5 DEF GenericEach
      <4>2. a[n] = none
        <5>1. ~first
          BY <3>5
        <5> HIDE DEF first, bracket, none
        <5> QED BY <1>3, <1>7, <5>1
      <4>3. NoArgument(args)
        BY NoArguments, Tuples
      <4> HIDE DEF none, bracket
      <4>4. Reads(q, w, State(bracket, args, None, Off, "other", Off, f))
        BY <1>9, <3>3, OnOff, ReadsBracket
      <4> HIDE DEF w, args, q, c
      <4>5. Reads(q, ((w \o Written(c.prenote)) \o GenericKey(c)) \o Written(c.postnote),
                  State(bracket, <<>>, None, Off, Behind(c), On, Append(f, Entry(c, Mark(c.suppress_author), Off))))
        BY <1>9, <2>1, <4>3, <4>4, ReadsGeneric
      <4> QED BY <2>2, <4>1, <4>2, <4>5 DEF none, q, c
    <3> QED BY <3>4, <3>5
  <2>4. CASE n # 1
    <3> DEFINE w == <<Sign(";")>>
               b == a[n - 1]
    <3>1. GenericEach(n, c) = ((w \o Written(c.prenote)) \o GenericKey(c)) \o Written(c.postnote)
      BY <2>4 DEF GenericEach
    <3>2. o[n - 1] = bracket
      <4>1. n - 1 \in 1 .. K
        BY <1>1, <2>4
      <4> HIDE DEF bracket
      <4> QED BY <1>6, <4>1
    <3>3. a[n] = none
      <4> HIDE DEF none, first
      <4> QED BY <1>3, <1>7, <2>4
    <3>4. NoArgument(b) /\ h[n - 1] \in BOOLEAN
      BY <1>3, <1>4, <1>8
    <3> HIDE DEF none, bracket
    <3>5. Reads(q, w, State(bracket, b, None, Off, "other", Off, f))
      BY <3>2, <3>4, OnOff, ReadsSemicolon
    <3> HIDE DEF w, b, q, c
    <3>6. Reads(q, ((w \o Written(c.prenote)) \o GenericKey(c)) \o Written(c.postnote),
                State(bracket, <<>>, None, Off, Behind(c), On, Append(f, Entry(c, Mark(c.suppress_author), Off))))
      BY <1>9, <2>1, <3>4, <3>5, ReadsGeneric
    <3> QED BY <2>2, <3>1, <3>3, <3>6 DEF none, q, c
  <2> QED BY <2>3, <2>4
<1>12. Reads(last, ending, State(none, a[K], None, Off, "other", On, found))
  <2>1. ending = <<Sign("]")>>
    BY DEF When
  <2> HIDE DEF none, bracket, found, ending
  <2>2. Reads(State(<<"[">> \o none, a[K], None, Off, m[K], On, found), <<Sign("]")>>,
              State(none, a[K], None, Off, "other", On, found))
    BY <1>9, OnOff, ReadsUnbracket
  <2> QED BY <1>9, <2>1, <2>2
<1> HIDE DEF none, bracket, e
<1>13. DOMAIN parts = 1 .. K /\ Len(parts) = K
  BY <1>1
<1>14. ASSUME NEW n \in 1 .. K
       PROVE  Reads(State(o[n - 1], a[n - 1], None, Off, m[n - 1], h[n - 1], FoundOf(cites, bare, no, n - 1)),
                    parts[n],
                    State(o[n], a[n], None, Off, m[n], h[n],
                          Append(FoundOf(cites, bare, no, n - 1), Entry(cites[n], bare[n], no[n]))))
  <2> DEFINE f == FoundOf(cites, bare, no, n - 1)
  <2>1. parts[n] = GenericEach(n, cites[n])
    BY <1>1
  <2>2. n - 1 \in Nat
    BY <1>1
  <2>3. PICK S : f \in Seq(S)
    BY <2>2, FoundIsSequence
  <2>4. n = 1 => h[n - 1] = Off
    BY <1>5
  <2> HIDE DEF parts, f
  <2>5. Reads(State(o[n - 1], a[n - 1], None, Off, m[n - 1], h[n - 1], f), GenericEach(n, cites[n]),
              State(o[n], a[n], None, Off, m[n], On, Append(f, e(n))))
    BY <1>11, <2>3, <2>4
  <2>6. h[n] = On /\ e(n) = Entry(cites[n], bare[n], no[n])
    BY <1>4, <1>10
  <2> QED BY <2>1, <2>5, <2>6 DEF f
<1>15. GenericCites(cites) = Joined(parts) \o ending
  BY DEF GenericCites
<1> HIDE DEF parts, ending
<1>16. Reads(State(o[0], a[0], None, Off, m[0], h[0], <<>>), Joined(parts),
             State(o[K], a[K], None, Off, m[K], h[K], FoundOf(cites, bare, no, K)))
  BY <1>13, <1>14, ReadsAll
<1>17. a[0] = none
  <2>1. 0 # 1
    OBVIOUS
  <2> HIDE DEF first
  <2> QED BY <1>3, <1>7, <2>1
<1>18. o[0] = none /\ m[0] = "other" /\ o[K] = bracket
  BY <1>3, <1>6
<1>19. Reads(Fresh, Joined(parts), last)
  BY <1>5, <1>16, <1>17, <1>18, FreshState DEF none
<1> HIDE DEF last, found
<1>20. Reads(Fresh, Joined(parts) \o ending, State(none, a[K], None, Off, "other", On, found))
  BY <1>12, <1>19, ReadsBoth
<1>21. ReadsAs(GenericCites(cites), cites, bare, no)
  BY <1>15, <1>20 DEF ReadsAs, none, found
<1> QED BY <1>21 DEF bare, no

(* Without brackets the notes are text of the document, and every key is a *)
(* citation of its own.                                                    *)
Bare(c) == [prenote |-> None, name |-> c.name, suppress_author |-> c.suppress_author, postnote |-> None]
Bares(cites) == [n \in 1 .. Len(cites) |-> Bare(cites[n])]
NoBracket(cites) == style = "generic" /\ text_cites /\ cites[1].postnote = None

LEMMA BareTyped ==
  ASSUME NEW c \in Citation
  PROVE  Bare(c) \in Citation /\ Bare(c).prenote = None /\ GenericKey(Bare(c)) = GenericKey(c)
         /\ Unnoted(Bare(c)) = Entry(Bare(c), Mark(c.suppress_author), Off)
<1> DEFINE b == Bare(c)
<1>1. /\ b.prenote = None /\ b.name = c.name /\ b.suppress_author = c.suppress_author
      /\ b.postnote = None
  BY DEF Bare
<1>2. b \in Citation
  BY DEF Bare, Citation, MaybeNoted
<1> HIDE DEF b
<1>3. Unnoted(b) = Entry(b, Mark(c.suppress_author), Off)
  BY <1>1 DEF Unnoted, Entry
<1>4. GenericKey(b) = GenericKey(c)
  BY <1>1 DEF GenericKey, Key
<1> QED BY <1>1, <1>2, <1>3, <1>4 DEF b

(* What follows a semicolon, or the key of the first one.                  *)
LEMMA ReadsBareEach ==
  ASSUME NEW q, NEW w, NEW f, NEW c \in Citation, style = "generic", NEW m, NEW h \in BOOLEAN,
         Reads(q, w, State(<<>>, <<>>, None, Off, m, h, f))
  PROVE  Reads(q, (w \o GenericKey(c)) \o Written(c.postnote),
               State(<<>>, <<>>, None, Off, Behind(c), Mark(c.postnote = None),
                     Append(f, Entry(Bare(c), Mark(c.suppress_author), Off))))
<1> DEFINE none == <<>>
           post == c.postnote
           found == Append(f, Entry(Bare(c), Mark(c.suppress_author), Off))
           r1 == State(none, none, None, Off, m, h, f)
           r2 == State(none, none, None, Off, "key", On, found)
           r3 == State(none, none, None, Off, Behind(c), Mark(post = None), found)
<1>1. /\ Bare(c) \in Citation /\ Bare(c).prenote = None /\ GenericKey(Bare(c)) = GenericKey(c)
      /\ Unnoted(Bare(c)) = Entry(Bare(c), Mark(c.suppress_author), Off)
  BY BareTyped
<1>2. NoArgument(none)
  BY NoArguments
<1>3. ~InBrackets(none)
  BY DEF InBrackets
<1>4. post \in MaybeNoted
  BY DEF Citation
<1> HIDE DEF none
<1>5. Reads(r1, GenericKey(c), r2)
  <2> DEFINE d == Bare(c)
  <2>1. d \in Citation /\ d.prenote = None /\ GenericKey(d) = GenericKey(c)
    BY <1>1
  <2>2. Append(f, Unnoted(d)) = found
    BY <1>1
  <2> HIDE DEF d, found, r1, r2, r3, post
  <2>3. Reads(State(none, none, d.prenote, Off, m, h, f), GenericKey(d),
              State(none, none, None, Off, "key", On, Append(f, Unnoted(d))))
    BY <1>2, <2>1, ReadsGenericKey DEF none
  <2> QED BY <2>1, <2>2, <2>3 DEF r1, r2
<1> HIDE DEF found
<1>6. Reads(r2, Written(post), r3)
  <2>1. CASE post = None
    <3>1. Written(post) = <<>> /\ Behind(c) = "key" /\ Mark(post = None) = On
      BY <2>1 DEF Written, When, Behind, Mark
    <3> HIDE DEF post
    <3>2. Reads(r2, <<>>, r2)
      BY ReadsNothing
    <3> QED BY <3>1, <3>2
  <2>2. CASE post # None
    <3>1. Written(post) = <<Note(post)>> /\ Behind(c) = "other" /\ Mark(post = None) = Off /\ post \in Notes
      BY <1>4, <2>2 DEF Written, When, Behind, Mark, MaybeNoted
    <3> HIDE DEF post
    <3>2. Reads(r2, <<Note(post)>>, State(none, none, None, Off, "other", Off, found))
      BY <1>3, <3>1, ReadsNotePlain
    <3> QED BY <3>1, <3>2
  <2> QED BY <2>1, <2>2
<1> HIDE DEF r2, r3, post
<1>7. Reads(q, w \o GenericKey(c), r2)
  BY <1>5, ReadsBoth DEF none
<1>8. Reads(q, (w \o GenericKey(c)) \o Written(post), r3)
  BY <1>6, <1>7, ReadsBoth
<1> QED BY <1>8 DEF r3, none, post, found

LEMMA ReadsBareWritten ==
  ASSUME NEW f, NEW n \in MaybeNoted, style = "generic"
  PROVE  Reads(State(<<>>, <<>>, None, Off, "other", Off, f), Written(n),
               State(<<>>, <<>>, None, Off, "other", Off, f))
<1> DEFINE none == <<>>
           r == State(none, none, None, Off, "other", Off, f)
<1>1. ~InBrackets(none)
  BY DEF InBrackets
<1> HIDE DEF none
<1>2. CASE n = None
  <2>1. Written(n) = <<>>
    BY <1>2 DEF Written, When
  <2>2. Reads(r, <<>>, r)
    BY ReadsNothing
  <2> QED BY <2>1, <2>2 DEF none
<1>3. CASE n # None
  <2>1. Written(n) = <<Note(n)>> /\ n \in Notes
    BY <1>3 DEF Written, When, MaybeNoted
  <2>2. Reads(r, <<Note(n)>>, r)
    BY <1>1, <2>1, ReadsNotePlain
  <2> QED BY <2>1, <2>2 DEF none
<1> QED BY <1>2, <1>3

LEMMA ReadsGenericBare ==
  ASSUME NEW cites \in Seq(Citation), cites # <<>>, NoBracket(cites)
  PROVE  ReadsAs(GenericCites(cites), Bares(cites), Suppressed(cites), Constant(Off, Len(cites)))
<1> DEFINE K == Len(cites)
           none == <<>>
           bares == Bares(cites)
           bare == Suppressed(cites)
           no == Constant(Off, K)
           o == [n \in 0 .. K |-> none]
           a == [n \in 0 .. K |-> none]
           m == [n \in 0 .. K |-> IF n = 0 THEN "other" ELSE Behind(cites[n])]
           h == [n \in 0 .. K |-> IF n = 0 THEN Off ELSE Mark(cites[n].postnote = None)]
           parts == [n \in DOMAIN cites |-> GenericEach(n, cites[n])]
           ending == When(~text_cites \/ cites[1].postnote # None, <<Sign("]")>>)
           e(n) == Entry(bares[n], bare[n], no[n])
<1>1. K \in Nat \ {0} /\ DOMAIN cites = 1 .. K /\ \A n \in 1 .. K : cites[n] \in Citation
  BY EmptySeq, LenProperties, ElementOfSeq
<1>2. \A n \in 1 .. K : no[n] = Off /\ bare[n] = Mark(cites[n].suppress_author) /\ bares[n] = Bare(cites[n])
  BY <1>1, Begins DEF Suppressed, Bares
<1>3. bares \in Seq(Citation) /\ Len(bares) = K
  <2>1. \A n \in 1 .. K : Bare(cites[n]) \in Citation
    BY <1>1, BareTyped
  <2> DEFINE b(n) == Bare(cites[n])
  <2> HIDE DEF b, K
  <2>2. [n \in 1 .. K |-> b(n)] \in Seq(Citation) /\ Len([n \in 1 .. K |-> b(n)]) = K
    BY <1>1, <2>1 DEF b
  <2> QED BY <2>2 DEF b, K, Bares
<1>4. 0 \in 0 .. K /\ K \in 0 .. K /\ \A n \in 1 .. K : n \in 0 .. K /\ n - 1 \in 0 .. K /\ n # 0
  BY <1>1
<1>5. \A n \in 0 .. K : o[n] = none /\ a[n] = none
  OBVIOUS
<1>6. /\ m[0] = "other" /\ \A n \in 1 .. K : m[n] = Behind(cites[n])
      /\ h[0] = Off /\ \A n \in 1 .. K : h[n] = Mark(cites[n].postnote = None)
  <2>1. /\ \A n \in 0 .. K : m[n] = IF n = 0 THEN "other" ELSE Behind(cites[n])
        /\ \A n \in 0 .. K : h[n] = IF n = 0 THEN Off ELSE Mark(cites[n].postnote = None)
    OBVIOUS
  <2> HIDE DEF m, h, K
  <2> QED BY <1>4, <2>1
<1>7. \A n \in 0 .. K : h[n] \in BOOLEAN
  <2>1. \A n \in 0 .. K : n = 0 \/ n \in 1 .. K
    BY <1>1
  <2> HIDE DEF h, K
  <2> QED BY <1>6, <2>1, OnOff DEF Mark
<1> HIDE DEF o, a, m, h, bare, no, bares
<1>8. ASSUME NEW n \in 1 .. K, NEW f
      PROVE  Reads(State(none, none, None, Off, m[n - 1], h[n - 1], f), GenericEach(n, cites[n]),
                   State(none, none, None, Off, m[n], h[n], Append(f, e(n))))
  <2> DEFINE c == cites[n]
             q == State(none, none, None, Off, m[n - 1], h[n - 1], f)
             r == State(none, none, None, Off, Behind(c), Mark(c.postnote = None),
                        Append(f, Entry(Bare(c), Mark(c.suppress_author), Off)))
  <2>1. c \in Citation /\ style = "generic" /\ h[n - 1] \in BOOLEAN
    BY <1>1, <1>4, <1>7 DEF NoBracket
  <2>2. r = State(none, none, None, Off, m[n], h[n], Append(f, e(n)))
    <3>1. Entry(Bare(c), Mark(c.suppress_author), Off) = e(n)
      BY <1>2
    <3>2. Behind(c) = m[n] /\ Mark(c.postnote = None) = h[n]
      BY <1>6
    <3> HIDE DEF c, e, none
    <3> QED BY <3>1, <3>2
  <2>3. CASE n = 1
    <3> DEFINE w == <<>>
    <3>1. text_cites /\ c.postnote = None
      BY <2>3 DEF NoBracket
    <3>2. GenericEach(n, c) = GenericKey(c) \o <<>> /\ Written(c.postnote) = <<>>
      BY <2>3, <3>1 DEF GenericEach, When, Written
    <3>3. Reads(q, w, q)
      BY ReadsNothing
    <3> HIDE DEF c, r, w
    <3>4. Reads(q, (w \o GenericKey(c)) \o Written(c.postnote), r)
      BY <2>1, <3>3, ReadsBareEach DEF r, none
    <3>5. GenericKey(c) \in Seq(Tokens)
      <4>1. Reads(State(<<>>, <<>>, None, Off, "other", Off, f), GenericKey(Bare(c)),
                  State(<<>>, <<>>, None, Off, "key", On, Append(f, Unnoted(Bare(c)))))
        <5> DEFINE d == Bare(c)
        <5>1. d \in Citation /\ d.prenote = None
          BY <2>1, BareTyped
        <5> HIDE DEF d
        <5>2. NoArgument(none)
          BY NoArguments
        <5>3. Reads(State(none, none, d.prenote, Off, "other", Off, f), GenericKey(d),
                    State(none, none, None, Off, "key", On, Append(f, Unnoted(d))))
          BY <2>1, <5>1, <5>2, OnOff, ReadsGenericKey
        <5> QED BY <5>1, <5>3 DEF d, none
      <4>2. GenericKey(Bare(c)) = GenericKey(c)
        BY <2>1, BareTyped
      <4> QED BY <4>1, <4>2 DEF Reads
    <3>6. (w \o GenericKey(c)) \o <<>> = GenericKey(c) \o <<>>
      BY <3>5 DEF w
    <3> QED BY <2>2, <3>2, <3>4, <3>6 DEF q, c
  <2>4. CASE n # 1
    <3> DEFINE w == <<Sign(";")>>
               t == State(none, none, None, Off, "other", Off, f)
    <3>1. GenericEach(n, c) = ((w \o Written(c.prenote)) \o GenericKey(c)) \o Written(c.postnote)
      BY <2>4 DEF GenericEach
    <3>2. c.prenote \in MaybeNoted
      BY <2>1 DEF Citation
    <3> HIDE DEF c, w, r
    <3>3. Reads(q, w, t)
      BY <2>1, OnOff, ReadsSemicolon DEF w
    <3>4. Reads(t, Written(c.prenote), t)
      BY <2>1, <3>2, ReadsBareWritten
    <3>5. Reads(q, w \o Written(c.prenote), t)
      BY <3>3, <3>4, ReadsBoth
    <3> HIDE DEF q
    <3>6. Reads(q, ((w \o Written(c.prenote)) \o GenericKey(c)) \o Written(c.postnote), r)
      BY <2>1, <3>5, OnOff, ReadsBareEach DEF r, none
    <3> QED BY <2>2, <3>1, <3>6 DEF q, c
  <2> QED BY <2>3, <2>4
<1> DEFINE last == State(none, none, None, Off, m[K], h[K], FoundOf(bares, bare, no, K))
<1>9. ending = <<>>
  BY DEF When, NoBracket
<1>10. DOMAIN parts = 1 .. Len(bares) /\ Len(parts) = Len(bares)
  BY <1>1, <1>3
<1> HIDE DEF none
<1>11. ASSUME NEW n \in 1 .. Len(bares)
       PROVE  Reads(State(o[n - 1], a[n - 1], None, Off, m[n - 1], h[n - 1], FoundOf(bares, bare, no, n - 1)),
                    parts[n],
                    State(o[n], a[n], None, Off, m[n], h[n],
                          Append(FoundOf(bares, bare, no, n - 1), Entry(bares[n], bare[n], no[n]))))
  <2> DEFINE f == FoundOf(bares, bare, no, n - 1)
  <2>1. n \in 1 .. K /\ parts[n] = GenericEach(n, cites[n])
    BY <1>1, <1>3
  <2>2. o[n - 1] = none /\ a[n - 1] = none /\ o[n] = none /\ a[n] = none
    BY <1>4, <1>5, <2>1
  <2> HIDE DEF parts, f, K
  <2>3. Reads(State(none, none, None, Off, m[n - 1], h[n - 1], f), GenericEach(n, cites[n]),
              State(none, none, None, Off, m[n], h[n], Append(f, e(n))))
    BY <1>8, <2>1
  <2> QED BY <2>1, <2>2, <2>3 DEF f
<1>12. GenericCites(cites) = Joined(parts) \o ending
  BY DEF GenericCites
<1> HIDE DEF parts, ending
<1>13. Reads(State(o[0], a[0], None, Off, m[0], h[0], <<>>), Joined(parts),
             State(o[Len(bares)], a[Len(bares)], None, Off, m[Len(bares)], h[Len(bares)],
                   FoundOf(bares, bare, no, Len(bares))))
  BY <1>3, <1>10, <1>11, ReadsAll
<1>14. o[0] = none /\ a[0] = none /\ o[K] = none /\ a[K] = none
  BY <1>4, <1>5
<1>15. Reads(Fresh, Joined(parts), last)
  <2> HIDE DEF K
  <2> QED BY <1>3, <1>6, <1>13, <1>14, FreshState DEF none
<1>16. Reads(last, ending, last)
  BY <1>9, ReadsNothing
<1> HIDE DEF last
<1>17. Reads(Fresh, Joined(parts) \o ending, last)
  BY <1>15, <1>16, ReadsBoth
<1>18. ReadsAs(GenericCites(cites), bares, bare, no)
  BY <1>3, <1>12, <1>17 DEF ReadsAs, last, none
<1> QED BY <1>18 DEF bare, no, bares

-----------------------------------------------------------------------------
(* The captures: a number of quadruples, and the output made of them.      *)
Count == Len(raw_cites) \div 4

Quadruple(n) ==
  /\ raw_cites[4 * n - 3] \in MaybeNote
  /\ raw_cites[4 * n - 2] \in {Empty, Dash}
  /\ raw_cites[4 * n - 1] \in Keys
  /\ raw_cites[4 * n] \in MaybeNote

Output == CASE style = "latex"    -> LatexCites(Cites)
            [] style = "natbib"   -> NatbibCites(Cites)
            [] style = "biblatex" -> BiblatexCites(Cites)
            [] style = "generic"  -> GenericCites(Cites)

(* The inductive invariant.                                                *)
IInv ==
  /\ style \in Styles
  /\ text_cites \in BOOLEAN
  /\ raw_cites \in Seq(Captures)
  /\ Len(raw_cites) = 4 * Count
  /\ \A n \in 1 .. Count : Quadruple(n)
  /\ text_cites /\ raw_cites # <<>> => raw_cites[1] = Empty
  /\ out # None => raw_cites # <<>> /\ out = Output

LEMMA Quarter ==
  /\ \A k \in Nat : (4 * k) \div 4 = k
  /\ \A k \in Nat : k \div 4 \in Nat
OBVIOUS

LEMMA InitIInv == Init => IInv
<1> SUFFICES ASSUME Init PROVE IInv
  OBVIOUS
<1> USE DEF Init
<1>1. raw_cites \in Seq(Captures) /\ Len(raw_cites) = 0
  OBVIOUS
<1>2. Count = 0
  <2>1. (4 * 0) \div 4 = 0
    BY Quarter
  <2> QED BY <1>1, <2>1 DEF Count
<1>3. Len(raw_cites) = 4 * Count /\ \A n \in 1 .. Count : Quadruple(n)
  BY <1>1, <1>2
<1> QED BY <1>1, <1>3 DEF IInv

(* Four more captures.                                                     *)
LEMMA OneMore ==
  ASSUME raw_cites \in Seq(Captures), Len(raw_cites) = 4 * Count, \A n \in 1 .. Count : Quadruple(n),
         NEW pre \in MaybeNote, NEW dash \in {Empty, Dash}, NEW key \in Keys, NEW post \in MaybeNote,
         raw_cites' = raw_cites \o <<pre, dash, key, post>>
  PROVE  /\ raw_cites' \in Seq(Captures)
         /\ Len(raw_cites') = 4 * Count'
         /\ \A n \in 1 .. Count' : Quadruple(n)'
         /\ raw_cites' # <<>>
         /\ raw_cites'[1] = IF raw_cites = <<>> THEN pre ELSE raw_cites[1]
<1> DEFINE s == raw_cites
           t == <<pre, dash, key, post>>
           u == raw_cites'
           k == Count
<1>1. t \in Seq(Captures) /\ Len(t) = 4 /\ t[1] = pre /\ t[2] = dash /\ t[3] = key /\ t[4] = post
  BY DEF MaybeNote, Captures
<1>2. s \in Seq(Captures) /\ Len(s) \in Nat /\ Len(s) = 4 * k
  BY LenProperties
<1>3. k \in Nat
  <2>1. Len(raw_cites) \in Nat
    BY <1>2
  <2> HIDE DEF s
  <2>2. Len(raw_cites) \div 4 \in Nat
    BY <2>1, Quarter
  <2> QED BY <2>2 DEF Count
<1>4. u = s \o t
  OBVIOUS
<1> HIDE DEF s, t, u, k
<1>5. /\ u \in Seq(Captures) /\ Len(u) = Len(s) + 4
      /\ \A i \in 1 .. Len(s) + 4 : u[i] = IF i <= Len(s) THEN s[i] ELSE t[i - Len(s)]
  <2>1. s \in Seq(Captures) /\ t \in Seq(Captures) /\ Len(t) = 4 /\ Len(s) \in Nat
    BY <1>1, <1>2
  <2>2. /\ s \o t \in Seq(Captures) /\ Len(s \o t) = Len(s) + Len(t)
        /\ \A i \in 1 .. Len(s) + Len(t) : (s \o t)[i] = IF i <= Len(s) THEN s[i] ELSE t[i - Len(s)]
    BY <2>1, ConcatProperties
  <2> QED BY <1>4, <2>1, <2>2
<1>6. Count' = k + 1 /\ Len(u) = 4 * (k + 1)
  <2>1. Len(u) = 4 * (k + 1)
    BY <1>2, <1>3, <1>5
  <2>2. (4 * (k + 1)) \div 4 = k + 1
    BY <1>3, Quarter
  <2>3. Count' = Len(u) \div 4
    BY DEF Count, u
  <2> QED BY <2>1, <2>2, <2>3
<1>7. ASSUME NEW n \in 1 .. k + 1 PROVE Quadruple(n)'
  <2>1. CASE n = k + 1
    <3>1. /\ 4 * n - 3 = Len(s) + 1 /\ 4 * n - 2 = Len(s) + 2
          /\ 4 * n - 1 = Len(s) + 3 /\ 4 * n = Len(s) + 4
      BY <1>2, <1>3, <2>1
    <3>2. ASSUME NEW j \in 1 .. 4 PROVE u[Len(s) + j] = t[j]
      <4>1. Len(s) + j \in 1 .. Len(s) + 4 /\ ~(Len(s) + j <= Len(s)) /\ (Len(s) + j) - Len(s) = j
        BY SMTT(30), <1>2
      <4> QED BY <1>5, <4>1
    <3>3. u[4 * n - 3] = pre /\ u[4 * n - 2] = dash /\ u[4 * n - 1] = key /\ u[4 * n] = post
      <4>1. 1 \in 1 .. 4 /\ 2 \in 1 .. 4 /\ 3 \in 1 .. 4 /\ 4 \in 1 .. 4
        OBVIOUS
      <4> QED BY <1>1, <3>1, <3>2, <4>1
    <3> QED BY <3>3 DEF Quadruple, MaybeNote, u
  <2>2. CASE n # k + 1
    <3>1. n \in 1 .. k
      BY <1>3, <2>2
    <3>2. /\ 4 * n - 3 \in 1 .. Len(s) /\ 4 * n - 2 \in 1 .. Len(s)
          /\ 4 * n - 1 \in 1 .. Len(s) /\ 4 * n \in 1 .. Len(s)
      BY <1>2, <1>3, <3>1
    <3>3. \A i \in 1 .. Len(s) : u[i] = s[i]
      BY <1>2, <1>5
    <3>4. /\ u[4 * n - 3] = s[4 * n - 3] /\ u[4 * n - 2] = s[4 * n - 2]
          /\ u[4 * n - 1] = s[4 * n - 1] /\ u[4 * n] = s[4 * n]
      BY <3>2, <3>3
    <3>5. Quadruple(n)
      BY <3>1 DEF k
    <3> QED BY <3>4, <3>5 DEF Quadruple, MaybeNote, s, u
  <2> QED BY <2>1, <2>2
<1>8. u # <<>>
  BY <1>2, <1>5
<1>9. u[1] = IF s = <<>> THEN pre ELSE s[1]
  <2>1. CASE s = <<>>
    <3>1. Len(s) = 0
      BY <2>1
    <3>2. u[1] = t[1 - 0]
      BY <1>5, <3>1
    <3> QED BY <1>1, <2>1, <3>2
  <2>2. CASE s # <<>>
    <3>1. Len(s) # 0
      BY <1>2, <2>2, EmptySeq
    <3> QED BY <1>2, <1>5, <2>2, <3>1
  <2> QED BY <2>1, <2>2
<1> QED BY <1>5, <1>6, <1>7, <1>8, <1>9 DEF s, u

LEMMA Unchanged ==
  ASSUME UNCHANGED <<style, text_cites, raw_cites>>
  PROVE  Output' = Output /\ Count' = Count /\ \A n : Quadruple(n)' <=> Quadruple(n)
<1>1. style' = style /\ text_cites' = text_cites /\ raw_cites' = raw_cites
  OBVIOUS
<1>2. Output' = Output
  BY <1>1 DEF Output, Cites, Cite, LatexCites, NatbibCites, NatbibSingle, NatbibComplex, BiblatexCites,
     GenericCites, GenericEach
<1> QED BY <1>1, <1>2 DEF Count, Quadruple, MaybeNote

LEMMA NextIInv == IInv /\ [Next]_vars => IInv'
<1> SUFFICES ASSUME IInv, [Next]_vars PROVE IInv'
  OBVIOUS
<1>1. /\ style \in Styles /\ text_cites \in BOOLEAN
      /\ raw_cites \in Seq(Captures) /\ Len(raw_cites) = 4 * Count
      /\ \A n \in 1 .. Count : Quadruple(n)
      /\ text_cites /\ raw_cites # <<>> => raw_cites[1] = Empty
      /\ out # None => raw_cites # <<>> /\ out = Output
  BY DEF IInv
<1>2. CASE TextCitation
  <2>1. PICK dash \in {Empty, Dash}, key \in Keys, post \in MaybeNote : raw_cites' = <<Empty, dash, key, post>>
    BY <1>2 DEF TextCitation
  <2>2. raw_cites = <<>> /\ out = None /\ UNCHANGED <<style, text_cites, out>>
    BY <1>1, <1>2 DEF TextCitation
  <2>3. Empty \in MaybeNote
    BY DEF MaybeNote
  <2>4. raw_cites' = raw_cites \o <<Empty, dash, key, post>>
    <3> DEFINE t == <<Empty, dash, key, post>>
    <3>1. t \in Seq(Captures)
      BY DEF MaybeNote, Captures
    <3> HIDE DEF t
    <3>2. <<>> \o t = t
      BY <3>1
    <3> QED BY <2>1, <2>2, <3>2 DEF t
  <2>5. /\ raw_cites' \in Seq(Captures) /\ Len(raw_cites') = 4 * Count'
        /\ \A n \in 1 .. Count' : Quadruple(n)'
        /\ raw_cites'[1] = Empty
    BY <1>1, <2>2, <2>3, <2>4, OneMore
  <2> QED BY <1>1, <2>2, <2>5 DEF IInv
<1>3. CASE BodyChunk
  <2>1. PICK pre \in MaybeNote, post \in MaybeNote, dash \in {Empty, Dash}, key \in Keys :
          raw_cites' = raw_cites \o <<pre, dash, key, post>>
    BY <1>3 DEF BodyChunk
  <2>2. out = None /\ UNCHANGED <<style, text_cites, out>> /\ (text_cites => raw_cites # <<>>)
    BY <1>3 DEF BodyChunk
  <2>3. /\ raw_cites' \in Seq(Captures) /\ Len(raw_cites') = 4 * Count'
        /\ \A n \in 1 .. Count' : Quadruple(n)'
        /\ raw_cites'[1] = IF raw_cites = <<>> THEN pre ELSE raw_cites[1]
    BY <1>1, <2>1, OneMore
  <2> QED BY <1>1, <2>2, <2>3 DEF IInv
<1>4. CASE WriteCitations
  <2>1. UNCHANGED <<style, text_cites, raw_cites>> /\ raw_cites # <<>> /\ out' = Output
    BY <1>4 DEF WriteCitations, Output
  <2>2. Output' = Output /\ Count' = Count /\ \A n : Quadruple(n)' <=> Quadruple(n)
    BY <2>1, Unchanged
  <2> QED BY <1>1, <2>1, <2>2 DEF IInv
<1>5. CASE UNCHANGED vars
  <2>1. UNCHANGED <<style, text_cites, raw_cites, out>>
    BY <1>5 DEF vars
  <2>2. Output' = Output /\ Count' = Count /\ \A n : Quadruple(n)' <=> Quadruple(n)
    BY <2>1, Unchanged
  <2> QED BY <1>1, <2>1, <2>2 DEF IInv
<1> QED BY <1>2, <1>3, <1>4, <1>5 DEF Next

LEMMA SpecIInv == Spec => []IInv
<1>1. Init => IInv
  BY InitIInv
<1>2. IInv /\ [Next]_vars => IInv'
  BY NextIInv
<1> QED BY <1>1, <1>2, PTL DEF Spec

-----------------------------------------------------------------------------
(* The tables larsers.citations makes of the captures.                     *)
LEMMA Normalized ==
  ASSUME NEW x \in MaybeNote PROVE normalize(x) \in MaybeNoted /\ (normalize(x) = None <=> x = Empty)
BY CapturesDiffer DEF normalize, MaybeNote, MaybeNoted

LEMMA CitesTyped ==
  ASSUME IInv
  PROVE  /\ Cites \in Seq(Citation) /\ Len(Cites) = Count /\ Count \in Nat
         /\ \A n \in 1 .. Count :
              /\ Cites[n].prenote = normalize(raw_cites[4 * n - 3])
              /\ Cites[n].name = raw_cites[4 * n - 1]
              /\ Cites[n].postnote = normalize(raw_cites[4 * n])
              /\ Cites[n].suppress_author \in BOOLEAN
              /\ Cites[n].suppress_author <=> raw_cites[4 * n - 2] = Dash
<1>1. Count \in Nat
  <2>1. Len(raw_cites) \in Nat
    BY LenProperties DEF IInv
  <2> QED BY <2>1, Quarter DEF Count
<1> DEFINE cite(n) == Cite(4 * n - 3)
           tables == [n \in 1 .. Count |-> cite(n)]
<1>2. Cites = tables
  BY DEF Cites, Count
<1>3. ASSUME NEW n \in 1 .. Count
      PROVE  /\ cite(n) \in Citation
             /\ cite(n).prenote = normalize(raw_cites[4 * n - 3])
             /\ cite(n).name = raw_cites[4 * n - 1]
             /\ cite(n).postnote = normalize(raw_cites[4 * n])
             /\ cite(n).suppress_author \in BOOLEAN
             /\ cite(n).suppress_author <=> raw_cites[4 * n - 2] = Dash
  <2> DEFINE pre == raw_cites[4 * n - 3]
             dash == raw_cites[4 * n - 2]
             key == raw_cites[4 * n - 1]
             post == raw_cites[4 * n]
  <2>1. pre \in MaybeNote /\ key \in Keys /\ post \in MaybeNote
    BY DEF IInv, Quadruple
  <2>2. (4 * n - 3) + 1 = 4 * n - 2 /\ (4 * n - 3) + 2 = 4 * n - 1 /\ (4 * n - 3) + 3 = 4 * n
    BY <1>1
  <2>3. cite(n) = [prenote |-> normalize(pre), name |-> key, suppress_author |-> dash = Dash,
                   postnote |-> normalize(post)]
    BY <2>2 DEF Cite
  <2>4. normalize(pre) \in MaybeNoted /\ normalize(post) \in MaybeNoted
    BY <2>1, Normalized
  <2> HIDE DEF cite, pre, dash, key, post
  <2>5. cite(n) \in Citation
    BY <2>1, <2>3, <2>4 DEF Citation
  <2>6. /\ cite(n).prenote = normalize(pre) /\ cite(n).name = key /\ cite(n).postnote = normalize(post)
        /\ cite(n).suppress_author = (dash = Dash)
    BY <2>3
  <2> QED BY <2>5, <2>6 DEF pre, dash, key, post
<1> HIDE DEF cite
<1>4. tables \in Seq(Citation) /\ Len(tables) = Count /\ \A n \in 1 .. Count : tables[n] = cite(n)
  BY <1>1, <1>3
<1> HIDE DEF tables
<1> QED BY <1>1, <1>2, <1>3, <1>4

(* The citations as the reader of the output knows them.                   *)
AsRead(cites) == IF NoBracket(cites) THEN Bares(cites) ELSE cites

LEMMA AsReadTyped ==
  ASSUME NEW cites \in Seq(Citation)
  PROVE  /\ AsRead(cites) \in Seq(Citation) /\ Len(AsRead(cites)) = Len(cites)
         /\ \A n \in 1 .. Len(cites) :
              /\ AsRead(cites)[n].name = cites[n].name
              /\ AsRead(cites)[n].prenote = IF NoBracket(cites) THEN None ELSE cites[n].prenote
              /\ AsRead(cites)[n].postnote = IF NoBracket(cites) THEN None ELSE cites[n].postnote
<1>1. CASE ~NoBracket(cites)
  BY <1>1 DEF AsRead
<1>2. CASE NoBracket(cites)
  <2> DEFINE K == Len(cites)
             b(n) == Bare(cites[n])
  <2>1. K \in Nat /\ \A n \in 1 .. K : cites[n] \in Citation
    BY LenProperties, ElementOfSeq
  <2>2. \A n \in 1 .. K : b(n) \in Citation
    BY <2>1, BareTyped
  <2>3. \A n \in 1 .. K : b(n).name = cites[n].name /\ b(n).prenote = None /\ b(n).postnote = None
    BY DEF Bare
  <2>4. AsRead(cites) = [n \in 1 .. K |-> b(n)]
    BY <1>2 DEF AsRead, Bares
  <2> HIDE DEF b, K
  <2>5. /\ [n \in 1 .. K |-> b(n)] \in Seq(Citation) /\ Len([n \in 1 .. K |-> b(n)]) = K
        /\ \A n \in 1 .. K : [j \in 1 .. K |-> b(j)][n] = b(n)
    BY <2>1, <2>2
  <2> QED BY <1>2, <2>3, <2>4, <2>5 DEF K
<1> QED BY <1>1, <1>2

(* What the reader makes of the output.                                    *)
LEMMA OutputRead ==
  ASSUME IInv, out # None
  PROVE  \E bare, joined :
           /\ ReadsAs(out, AsRead(Cites), bare, joined)
           /\ style = "generic" \/ (style = "natbib" /\ (~text_cites \/ Len(Cites) # 1)) => bare = Suppressed(Cites)
           /\ style = "latex" => joined = Sharing(Cites)
           /\ style = "natbib" /\ Len(Cites) # 1 =>
                joined = IF IsComplex(Cites) THEN Constant(Off, Len(Cites)) ELSE Later(Len(Cites))
<1>1. Cites \in Seq(Citation) /\ Len(Cites) = Count /\ Count \in Nat
  BY CitesTyped
<1>2. Cites # <<>>
  <2>1. raw_cites # <<>> /\ raw_cites \in Seq(Captures) /\ Len(raw_cites) = 4 * Count
    BY DEF IInv
  <2>2. Len(raw_cites) # 0
    BY <2>1, EmptySeq
  <2>3. Count # 0
    BY <2>1, <2>2
  <2> QED BY <1>1, <2>3, EmptySeq
<1>3. Len(Cites) \in Nat \ {0} /\ Len(Cites) = Count
  BY <1>1, <1>2, EmptySeq
<1>4. text_cites => Cites[1].prenote = None
  <2>1. 1 \in 1 .. Count /\ 4 * 1 - 3 = 1
    BY <1>3
  <2>2. Cites[1].prenote = normalize(raw_cites[1])
    BY <2>1, CitesTyped
  <2>3. text_cites => raw_cites[1] = Empty
    BY DEF IInv
  <2> QED BY <2>2, <2>3 DEF normalize
<1>5. style \in Styles /\ text_cites \in BOOLEAN /\ out = Output
  BY DEF IInv
<1> DEFINE cites == Cites
           K == Len(cites)
<1> HIDE DEF cites
<1>10. ~NoBracket(cites) => AsRead(cites) = cites
  BY DEF AsRead
<1>11. style # "generic" => ~NoBracket(cites)
  BY DEF NoBracket
<1>6. CASE style = "latex"
  <2>1. out = LatexCites(cites)
    BY <1>5, <1>6 DEF Output, cites
  <2>2. ReadsAs(out, cites, Constant(Off, K), Sharing(cites))
    BY <1>1, <1>2, <1>6, <2>1, ReadsLatex DEF cites
  <2> QED BY <1>6, <1>10, <1>11, <2>2 DEF cites
<1>7. CASE style = "biblatex"
  <2>1. out = BiblatexCites(cites)
    BY <1>5, <1>7 DEF Output, cites
  <2>2. ReadsAs(out, cites, Constant(Off, K), Constant(Off, K))
    BY <1>1, <1>2, <1>7, <2>1, ReadsBiblatex DEF cites
  <2> QED BY <1>7, <1>10, <1>11, <2>2 DEF cites
<1>8. CASE style = "generic"
  <2>1. out = GenericCites(cites)
    BY <1>5, <1>8 DEF Output, cites
  <2>2. ReadsAs(out, AsRead(cites), Suppressed(cites), Constant(Off, K))
    <3>1. CASE NoBracket(cites)
      <4>1. ReadsAs(out, Bares(cites), Suppressed(cites), Constant(Off, K))
        BY <1>1, <1>2, <2>1, <3>1, ReadsGenericBare DEF cites
      <4> QED BY <3>1, <4>1 DEF AsRead
    <3>2. CASE ~NoBracket(cites)
      <4>1. text_cites => cites[1].prenote = None /\ cites[1].postnote # None
        BY <1>4, <1>8, <3>2 DEF NoBracket, cites
      <4>2. ReadsAs(out, cites, Suppressed(cites), Constant(Off, K))
        BY <1>1, <1>2, <1>5, <1>8, <2>1, <4>1, ReadsGenericCites DEF cites
      <4> QED BY <1>10, <3>2, <4>2
    <3> QED BY <3>1, <3>2
  <2> QED BY <1>8, <2>2 DEF cites
<1>9. CASE style = "natbib"
  <2>1. out = NatbibCites(cites)
    BY <1>5, <1>9 DEF Output, cites
  <2>2. CASE K = 1
    <3> DEFINE bare == [n \in 1 .. 1 |-> Mark(~text_cites /\ cites[1].suppress_author)]
    <3>1. ReadsAs(out, cites, bare, Constant(Off, 1))
      BY <1>1, <1>9, <2>1, <2>2, ReadsNatbibSingle DEF cites
    <3>2. ~text_cites => bare = Suppressed(cites)
      BY <2>2 DEF Suppressed, Mark
    <3> HIDE DEF bare
    <3> QED BY <1>9, <1>10, <1>11, <2>2, <3>1, <3>2 DEF cites
  <2>3. CASE K # 1 /\ IsComplex(cites)
    <3>1. ReadsAs(out, cites, Suppressed(cites), Constant(Off, K))
      BY <1>1, <1>2, <1>9, <2>1, <2>3, ReadsNatbibComplex DEF cites
    <3> QED BY <1>9, <1>10, <1>11, <2>3, <3>1 DEF cites
  <2>4. CASE K # 1 /\ ~IsComplex(cites)
    <3>1. ReadsAs(out, cites, Suppressed(cites), Later(K))
      BY <1>1, <1>2, <1>9, <2>1, <2>4, ReadsNatbibSimple DEF cites
    <3> QED BY <1>9, <1>10, <1>11, <2>4, <3>1 DEF cites
  <2> QED BY <2>2, <2>3, <2>4
<1> QED BY <1>5, <1>6, <1>7, <1>8, <1>9 DEF Styles

LEMMA ReadFound ==
  ASSUME NEW tokens, NEW cites \in Seq(Citation), NEW bare, NEW joined, ReadsAs(tokens, cites, bare, joined)
  PROVE  /\ Scan(Fresh, tokens).nested /\ Scan(Fresh, tokens).open = <<>>
         /\ Len(Scan(Fresh, tokens).found) = Len(cites)
         /\ DOMAIN Scan(Fresh, tokens).found = 1 .. Len(cites)
         /\ \A n \in 1 .. Len(cites) :
              /\ Scan(Fresh, tokens).found[n].prenote = cites[n].prenote
              /\ Scan(Fresh, tokens).found[n].name = cites[n].name
              /\ Scan(Fresh, tokens).found[n].postnote = cites[n].postnote
              /\ Scan(Fresh, tokens).found[n].bare = bare[n]
              /\ Scan(Fresh, tokens).found[n].joined = joined[n]
<1> DEFINE K == Len(cites)
           found == FoundOf(cites, bare, joined, K)
<1>1. PICK a, x, b, m, h : Reads(Fresh, tokens, State(<<>>, a, x, b, m, h, found))
  BY DEF ReadsAs
<1>2. Scan(Fresh, tokens) = State(<<>>, a, x, b, m, h, found)
  BY <1>1 DEF Reads
<1>3. K \in Nat
  BY LenProperties
<1>4. found = [n \in 1 .. K |-> Entry(cites[n], bare[n], joined[n])]
  BY DEF FoundOf
<1> HIDE DEF found, K
<1>5. Len(found) = K /\ DOMAIN found = 1 .. K /\ \A n \in 1 .. K : found[n] = Entry(cites[n], bare[n], joined[n])
  <2>1. PICK S : found \in Seq(S)
    <3>1. \E S : FoundOf(cites, bare, joined, K) \in Seq(S)
      BY <1>3, FoundIsSequence
    <3> QED BY <3>1 DEF found
  <2>2. DOMAIN found = 1 .. K /\ \A n \in 1 .. K : found[n] = Entry(cites[n], bare[n], joined[n])
    BY <1>4
  <2>3. Len(found) \in Nat /\ DOMAIN found = 1 .. Len(found)
    BY <2>1, LenProperties
  <2>4. Len(found) = K
    BY <1>3, <2>2, <2>3
  <2> QED BY <2>2, <2>4
<1> DEFINE r == Scan(Fresh, tokens)
<1>6. r.nested = TRUE /\ r.open = <<>> /\ r.found = found
  BY <1>2 DEF State, Reader
<1> HIDE DEF r
<1>7. ASSUME NEW n \in 1 .. K
      PROVE  /\ r.found[n].prenote = cites[n].prenote /\ r.found[n].name = cites[n].name
             /\ r.found[n].postnote = cites[n].postnote
             /\ r.found[n].bare = bare[n] /\ r.found[n].joined = joined[n]
  BY <1>5, <1>6 DEF Entry
<1> QED BY <1>5, <1>6, <1>7 DEF r, K

(* What is found, and the marks of it that count.                          *)
LEMMA FoundRead ==
  ASSUME IInv, out # None
  PROVE  /\ Scan(Fresh, out).nested /\ Scan(Fresh, out).open = <<>>
         /\ Len(Found) = Count /\ DOMAIN Found = 1 .. Count
         /\ \A n \in 1 .. Count :
              /\ Found[n].name = Cites[n].name
              /\ Found[n].prenote = IF NoBracket(Cites) THEN None ELSE Cites[n].prenote
              /\ Found[n].postnote = IF NoBracket(Cites) THEN None ELSE Cites[n].postnote
         /\ style = "generic" \/ (style = "natbib" /\ (~text_cites \/ Count # 1)) =>
              \A n \in 1 .. Count : Found[n].bare = Mark(Cites[n].suppress_author)
         /\ style = "latex" =>
              \A n \in 2 .. Count : Found[n].joined = Mark(~HasNotes(Cites[n - 1]) /\ ~HasNotes(Cites[n]))
         /\ style = "natbib" => \A n \in 2 .. Count : Found[n].joined = Mark(~IsComplex(Cites))
<1>1. Cites \in Seq(Citation) /\ Len(Cites) = Count /\ Count \in Nat
  BY CitesTyped
<1>2. PICK bare, joined :
        /\ ReadsAs(out, AsRead(Cites), bare, joined)
        /\ style = "generic" \/ (style = "natbib" /\ (~text_cites \/ Len(Cites) # 1)) => bare = Suppressed(Cites)
        /\ style = "latex" => joined = Sharing(Cites)
        /\ style = "natbib" /\ Len(Cites) # 1 =>
             joined = IF IsComplex(Cites) THEN Constant(Off, Len(Cites)) ELSE Later(Len(Cites))
  BY OutputRead
<1>3. /\ Scan(Fresh, out).nested /\ Scan(Fresh, out).open = <<>>
      /\ Len(Found) = Count /\ DOMAIN Found = 1 .. Count
      /\ \A n \in 1 .. Count :
           /\ Found[n].name = Cites[n].name
           /\ Found[n].prenote = IF NoBracket(Cites) THEN None ELSE Cites[n].prenote
           /\ Found[n].postnote = IF NoBracket(Cites) THEN None ELSE Cites[n].postnote
           /\ Found[n].bare = bare[n] /\ Found[n].joined = joined[n]
  <2> DEFINE read == AsRead(Cites)
  <2>1. /\ read \in Seq(Citation) /\ Len(read) = Count
        /\ \A n \in 1 .. Count :
             /\ read[n].name = Cites[n].name
             /\ read[n].prenote = IF NoBracket(Cites) THEN None ELSE Cites[n].prenote
             /\ read[n].postnote = IF NoBracket(Cites) THEN None ELSE Cites[n].postnote
    BY <1>1, AsReadTyped
  <2>2. ReadsAs(out, read, bare, joined)
    BY <1>2
  <2> HIDE DEF read
  <2>3. /\ Scan(Fresh, out).nested /\ Scan(Fresh, out).open = <<>>
        /\ Len(Found) = Len(read) /\ DOMAIN Found = 1 .. Len(read)
        /\ \A n \in 1 .. Len(read) :
             /\ Found[n].prenote = read[n].prenote /\ Found[n].name = read[n].name
             /\ Found[n].postnote = read[n].postnote
             /\ Found[n].bare = bare[n] /\ Found[n].joined = joined[n]
    BY <2>1, <2>2, ReadFound DEF Found
  <2> QED BY <2>1, <2>3
<1>4. ASSUME style = "generic" \/ (style = "natbib" /\ (~text_cites \/ Count # 1)), NEW n \in 1 .. Count
      PROVE  Found[n].bare = Mark(Cites[n].suppress_author)
  <2>1. bare = Suppressed(Cites)
    BY <1>1, <1>2, <1>4
  <2>2. Suppressed(Cites)[n] = Mark(Cites[n].suppress_author)
    BY <1>1 DEF Suppressed
  <2> QED BY <1>3, <2>1, <2>2
<1>5. ASSUME style = "latex", NEW n \in 2 .. Count
      PROVE  Found[n].joined = Mark(~HasNotes(Cites[n - 1]) /\ ~HasNotes(Cites[n]))
  <2>1. n \in 1 .. Count /\ n # 1
    BY <1>1
  <2>2. joined = Sharing(Cites)
    BY <1>2, <1>5
  <2>3. Sharing(Cites)[n] = Mark(n # 1 /\ ~HasNotes(Cites[n - 1]) /\ ~HasNotes(Cites[n]))
    BY <1>1, <2>1 DEF Sharing
  <2>4. Mark(n # 1 /\ ~HasNotes(Cites[n - 1]) /\ ~HasNotes(Cites[n]))
          = Mark(~HasNotes(Cites[n - 1]) /\ ~HasNotes(Cites[n]))
    BY <2>1 DEF Mark
  <2>5. Found[n].joined = joined[n]
    BY <1>3, <2>1
  <2> QED BY <2>2, <2>3, <2>4, <2>5
<1>6. ASSUME style = "natbib", NEW n \in 2 .. Count PROVE Found[n].joined = Mark(~IsComplex(Cites))
  <2>1. n \in 1 .. Count /\ n # 1 /\ Count # 1 /\ Count \in Nat \ {0}
    BY <1>1
  <2>2. joined = IF IsComplex(Cites) THEN Constant(Off, Count) ELSE Later(Count)
    BY <1>1, <1>2, <1>6, <2>1
  <2>3. Constant(Off, Count)[n] = Off
    BY <2>1, Begins
  <2>4. Later(Count)[n] = On
    BY <2>1 DEF Later, Mark
  <2>5. Found[n].joined = joined[n]
    BY <1>3, <2>1
  <2>6. CASE IsComplex(Cites)
    BY <2>2, <2>3, <2>5, <2>6 DEF Mark
  <2>7. CASE ~IsComplex(Cites)
    BY <2>2, <2>4, <2>5, <2>7 DEF Mark
  <2> QED BY <2>6, <2>7
<1> QED BY <1>3, <1>4, <1>5, <1>6

-----------------------------------------------------------------------------
(* Whatever the writer opens for the citations of a string - the braces of *)
(* a \cite that collects keys, the bracket of the generic writer that      *)
(* stays open after the first citation - it closes, innermost first, in    *)
(* every style and for every number of citations.                          *)
THEOREM CitationsAreWellBraced == Spec => []WellBraced
<1>1. IInv => WellBraced
  <2> SUFFICES ASSUME IInv, out # None PROVE LET end == Scan(Fresh, out) IN end.nested /\ end.open = <<>>
    BY DEF WellBraced
  <2> QED BY FoundRead
<1> QED BY <1>1, SpecIInv, PTL

(* A reader of the output finds the citations of the document: as many,    *)
(* in their order, each key with the note before it and the note after it. *)
(* None of the four ways to write them drops, moves or swaps a note, but   *)
(* for the generic writer in the text, when the first citation has no note *)
(* after its key: then no bracket is opened, and no key has a note left.   *)
THEOREM CitationsAreAllWritten == Spec => []NotesKept
<1>1. IInv => NotesKept
  <2> SUFFICES ASSUME IInv, out # None
               PROVE  /\ Len(Found) = Len(raw_cites) \div 4
                      /\ \A n \in DOMAIN Found :
                           /\ Found[n].name = raw_cites[4 * n - 1]
                           /\ Found[n].prenote =
                                IF Bracketless THEN None ELSE normalize(raw_cites[4 * n - 3])
                           /\ Found[n].postnote =
                                IF Bracketless THEN None ELSE normalize(raw_cites[4 * n])
    BY DEF NotesKept
  <2>1. Len(Found) = Count /\ DOMAIN Found = 1 .. Count
    BY FoundRead
  <2>2. ASSUME NEW n \in 1 .. Count PROVE NoBracket(Cites) = Bracketless
    <3>1. 1 \in 1 .. Count /\ 4 * 1 = 4
      <4>1. Count \in Nat
        BY CitesTyped
      <4> QED BY <4>1
    <3>2. Cites[1].postnote = normalize(raw_cites[4])
      BY <3>1, CitesTyped
    <3>3. raw_cites[4] \in MaybeNote
      BY <3>1 DEF IInv, Quadruple
    <3>4. Cites[1].postnote = None <=> raw_cites[4] = Empty
      BY <3>2, <3>3, Normalized
    <3> QED BY ZenonT(60), <3>4 DEF NoBracket, Bracketless
  <2>3. ASSUME NEW n \in 1 .. Count
        PROVE  /\ Found[n].name = raw_cites[4 * n - 1]
               /\ Found[n].prenote = IF Bracketless THEN None ELSE normalize(raw_cites[4 * n - 3])
               /\ Found[n].postnote = IF Bracketless THEN None ELSE normalize(raw_cites[4 * n])
    <3>1. /\ Found[n].name = Cites[n].name
          /\ Found[n].prenote = IF NoBracket(Cites) THEN None ELSE Cites[n].prenote
          /\ Found[n].postnote = IF NoBracket(Cites) THEN None ELSE Cites[n].postnote
      BY FoundRead
    <3>2. /\ Cites[n].prenote = normalize(raw_cites[4 * n - 3])
          /\ Cites[n].name = raw_cites[4 * n - 1]
          /\ Cites[n].postnote = normalize(raw_cites[4 * n])
      BY CitesTyped
    <3> QED BY <2>2, <3>1, <3>2
  <2> QED BY <2>1, <2>3 DEF Count
<1> QED BY <1>1, SpecIInv, PTL

(* In Markdown, and with natbib but for a single citation in the text, the *)
(* author is left out exactly of the citations that have a dash.           *)
THEOREM DashesSuppressAuthors == Spec => []AuthorsSuppressed
<1>1. IInv => AuthorsSuppressed
  <2> SUFFICES ASSUME IInv, out # None,
                      style = "generic" \/ (style = "natbib" /\ (~text_cites \/ Len(raw_cites) > 4))
               PROVE  \A n \in DOMAIN Found : Found[n].bare <=> raw_cites[4 * n - 2] = Dash
    BY DEF AuthorsSuppressed
  <2>1. Len(raw_cites) > 4 => Count # 1
    <3>1. Len(raw_cites) = 4 * Count
      BY DEF IInv
    <3>2. Count \in Nat
      BY CitesTyped
    <3> QED BY <3>1, <3>2
  <2>2. DOMAIN Found = 1 .. Count /\ \A n \in 1 .. Count : Found[n].bare = Mark(Cites[n].suppress_author)
    BY <2>1, FoundRead
  <2>3. ASSUME NEW n \in 1 .. Count PROVE Found[n].bare <=> raw_cites[4 * n - 2] = Dash
    <3>1. Cites[n].suppress_author <=> raw_cites[4 * n - 2] = Dash
      BY CitesTyped
    <3>2. Found[n].bare = Mark(Cites[n].suppress_author)
      BY <2>2
    <3>3. CASE raw_cites[4 * n - 2] = Dash
      <4>1. Found[n].bare = On
        BY <3>1, <3>2, <3>3 DEF Mark
      <4> QED BY <3>3, <4>1, OnOff
    <3>4. CASE raw_cites[4 * n - 2] # Dash
      <4>1. Found[n].bare = Off
        BY <3>1, <3>2, <3>4 DEF Mark
      <4> QED BY <3>4, <4>1, OnOff
    <3> QED BY <3>3, <3>4
  <2> QED BY <2>2, <2>3
<1> QED BY <1>1, SpecIInv, PTL

(* LaTeX puts two neighbours under one command exactly if neither has a    *)
(* note, and natbib a string of several exactly if no citation of it has   *)
(* a note or a dash: the scan that compares each dash with the last one    *)
(* finds the first dash there is.                                          *)
THEOREM CommandsAreShared == Spec => []Grouping
<1>1. IInv => Grouping
  <2> SUFFICES ASSUME IInv, out # None, style \in {"latex", "natbib"}, NEW n \in 2 .. Len(Found)
               PROVE  Found[n].joined
                        <=> IF style = "latex" THEN Plain(n - 1) /\ Plain(n)
                            ELSE \A m \in DOMAIN Found : Plain(m) /\ raw_cites[4 * m - 2] = Empty
    BY DEF Grouping
  <2>1. Len(Found) = Count /\ DOMAIN Found = 1 .. Count
    BY FoundRead
  <2>2. Cites \in Seq(Citation) /\ Len(Cites) = Count /\ Count \in Nat
    BY CitesTyped
  <2>3. ASSUME NEW m \in 1 .. Count PROVE Plain(m) <=> ~HasNotes(Cites[m])
    <3>1. raw_cites[4 * m - 3] \in MaybeNote /\ raw_cites[4 * m] \in MaybeNote
      BY DEF IInv, Quadruple
    <3>2. Cites[m].prenote = normalize(raw_cites[4 * m - 3]) /\ Cites[m].postnote = normalize(raw_cites[4 * m])
      BY CitesTyped
    <3> QED BY <3>1, <3>2, Normalized DEF Plain, HasNotes
  <2>4. ASSUME NEW m \in 1 .. Count PROVE raw_cites[4 * m - 2] = Empty <=> ~Cites[m].suppress_author
    <3>1. raw_cites[4 * m - 2] \in {Empty, Dash}
      BY DEF IInv, Quadruple
    <3>2. Cites[m].suppress_author <=> raw_cites[4 * m - 2] = Dash
      BY CitesTyped
    <3> QED BY <3>1, <3>2, CapturesDiffer
  <2>5. n \in 2 .. Count /\ n \in 1 .. Count /\ n - 1 \in 1 .. Count
    BY <2>1, <2>2
  <2>6. CASE style = "latex"
    <3>1. Found[n].joined = Mark(~HasNotes(Cites[n - 1]) /\ ~HasNotes(Cites[n]))
      BY <2>5, <2>6, FoundRead
    <3>2. Plain(n - 1) /\ Plain(n) <=> ~HasNotes(Cites[n - 1]) /\ ~HasNotes(Cites[n])
      BY <2>3, <2>5
    <3>3. CASE Plain(n - 1) /\ Plain(n)
      <4>1. Found[n].joined = On
        BY <3>1, <3>2, <3>3 DEF Mark
      <4> QED BY <2>6, <3>3, <4>1, OnOff
    <3>4. CASE ~(Plain(n - 1) /\ Plain(n))
      <4>1. Found[n].joined = Off
        BY <3>1, <3>2, <3>4 DEF Mark
      <4> QED BY <2>6, <3>4, <4>1, OnOff
    <3> QED BY <3>3, <3>4
  <2>7. CASE style = "natbib"
    <3> DEFINE plain == \A m \in 1 .. Count : Plain(m) /\ raw_cites[4 * m - 2] = Empty
    <3>1. Found[n].joined = Mark(~IsComplex(Cites))
      BY <2>5, <2>7, FoundRead
    <3>2. ASSUME ~IsComplex(Cites) PROVE plain
      <4>1. \A m \in 1 .. Count : ~HasNotes(Cites[m]) /\ ~Cites[m].suppress_author
        BY <2>2, <3>2, SimpleMeansPlain
      <4> QED BY <2>3, <2>4, <4>1
    <3>3. ASSUME plain PROVE ~IsComplex(Cites)
      <4>1. ASSUME NEW m \in DOMAIN Cites
            PROVE  ~HasNotes(Cites[m]) /\ Cites[m].suppress_author # ~LastSuppressed(Cites, m)
        <5>1. m \in 1 .. Count
          BY <2>2, LenProperties
        <5>2. ~HasNotes(Cites[m]) /\ ~Cites[m].suppress_author
          BY <2>3, <2>4, <3>3, <5>1
        <5>3. ~LastSuppressed(Cites, m)
          <6>1. CASE m > 1
            <7>1. m - 1 \in 1 .. Count
              BY <2>2, <5>1, <6>1
            <7>2. ~Cites[m - 1].suppress_author
              BY <2>4, <3>3, <7>1
            <7> QED BY <7>2 DEF LastSuppressed
          <6>2. CASE ~(m > 1)
            BY <6>2 DEF LastSuppressed
          <6> QED BY <6>1, <6>2
        <5> QED BY <5>2, <5>3
      <4> QED BY <4>1 DEF IsComplex
    <3> HIDE DEF plain
    <3>4. Found[n].joined <=> plain
      <4>1. CASE plain
        <5>1. Found[n].joined = On
          BY <3>1, <3>3, <4>1 DEF Mark
        <5> QED BY <4>1, <5>1, OnOff
      <4>2. CASE ~plain
        <5>1. Found[n].joined = Off
          BY <3>1, <3>2, <4>2 DEF Mark
        <5> QED BY <4>2, <5>1, OnOff
      <4> QED BY <4>1, <4>2
    <3> QED BY <2>1, <2>7, <3>4 DEF plain
  <2> QED BY <2>6, <2>7
<1> QED BY <1>1, SpecIInv, PTL

=============================================================================
