----------------------------- MODULE DataProofs -----------------------------
(***************************************************************************)
(* Proofs about the data of one thread.  Buffer and BufferChain, for any   *)
(* sizes and any number of buffers that share blocks: the invariant says   *)
(* which bytes each view of a block shows.  Generator, for any values.     *)
(* IdlParser, for documents of any length.                                 *)
(***************************************************************************)
EXTENDS MCData, TLAPS

Text == Seq(Bytes)
Memory == Seq(Text)
View == [block : Nat, r : Nat, w : Nat]
\* the positions of v are within its block, and the bytes between them are u
Within(bs, v) ==
  /\ v \in View /\ v.block \in 0..Len(bs) /\ v.r <= v.w
  /\ v.w <= IF v.block = 0 THEN 0 ELSE Len(bs[v.block])
Holds(bs, v, u) ==
  /\ Len(u) = v.w - v.r
  /\ v.block # 0 => \A j \in 1..Len(u) : u[j] = bs[v.block][v.r + j]

BufTypes ==
  /\ blocks \in Memory /\ buf \in [Buffers -> View] /\ chain \in Seq(View)
  /\ unread \in [Buffers -> Text] /\ linked \in Memory /\ Len(linked) = Len(chain)
  /\ spoiled \in BOOLEAN
  /\ \A b \in Buffers : Within(blocks, buf[b])
  /\ \A i \in 1..Len(chain) : Within(blocks, chain[i])
ViewsHold ==
  /\ \A b \in Buffers : Holds(blocks, buf[b], unread[b])
  /\ \A i \in 1..Len(chain) : Holds(blocks, chain[i], linked[i])
BufInv == BufTypes /\ (~spoiled => ViewsHold)
\* async_read() keeps a pointer into a block that may have no holder any more
ReadsInv == \A p \in reads : p.block \in 1..Len(blocks) /\ p.at \in Nat

LEMMA SameSeq ==
  ASSUME NEW s \in Text, NEW r \in Text, Len(s) = Len(r), \A j \in 1..Len(s) : s[j] = r[j]
  PROVE  s = r
BY DEF Text

LEMMA Part ==
  ASSUME NEW s \in Text, NEW m \in Nat, NEW n \in Nat, m <= n, n <= Len(s)
  PROVE  /\ SubSeq(s, m + 1, n) \in Text /\ Len(SubSeq(s, m + 1, n)) = n - m
         /\ \A j \in 1..(n - m) : SubSeq(s, m + 1, n)[j] = s[m + j]
<1>1. SubSeq(s, m + 1, n) \in Text
  BY DEF Text
<1>2. Len(SubSeq(s, m + 1, n)) = n - m
  BY DEF Text
<1>3. \A j \in 1..(n - m) : SubSeq(s, m + 1, n)[j] = s[m + j]
  BY DEF Text
<1> QED
  BY <1>1, <1>2, <1>3, Zenon

LEMMA Joined ==
  ASSUME NEW s \in Text, NEW r \in Text
  PROVE  /\ s \o r \in Text /\ Len(s \o r) = Len(s) + Len(r)
         /\ \A j \in 1..Len(s) : (s \o r)[j] = s[j]
         /\ \A j \in 1..Len(r) : (s \o r)[Len(s) + j] = r[j]
<1>1. s \o r \in Text /\ Len(s \o r) = Len(s) + Len(r)
  BY DEF Text
<1>2. \A j \in 1..Len(s) : (s \o r)[j] = s[j]
  BY DEF Text
<1>3. \A j \in 1..Len(r) : (s \o r)[Len(s) + j] = r[j]
  BY DEF Text
<1> QED
  BY <1>1, <1>2, <1>3, Zenon
\* A step may add blocks and rewrite some, of the same size; what v shows stays.
Grows(bs, cs) ==
  /\ bs \in Memory /\ cs \in Memory /\ Len(bs) <= Len(cs)
  /\ \A k \in 1..Len(bs) : Len(cs[k]) = Len(bs[k])
Shows(bs, cs, v) == v.block # 0 => \A j \in (v.r + 1)..v.w : cs[v.block][j] = bs[v.block][j]

LEMMA WithinGrown ==
  ASSUME NEW bs, NEW cs, NEW v, Grows(bs, cs), Within(bs, v)
  PROVE  Within(cs, v)
BY DEF Grows, Within, View

LEMMA HoldsShown ==
  ASSUME NEW bs, NEW cs, NEW v, NEW u \in Text, Within(bs, v), Shows(bs, cs, v), Holds(bs, v, u)
  PROVE  Holds(cs, v, u)
<1> SUFFICES ASSUME v.block # 0, NEW j \in 1..Len(u) PROVE u[j] = cs[v.block][v.r + j]
  BY Zenon DEF Holds
<1>1. v.r \in Nat /\ v.w \in Nat /\ Len(u) = v.w - v.r
  BY Zenon DEF Within, View, Holds
<1>2. v.r + j \in (v.r + 1)..v.w
  BY <1>1
<1> QED
  BY <1>2, Zenon DEF Shows, Holds

\* The other buffers and the chain, when buffer b is changed.
LEMMA OthersKept ==
  ASSUME BufTypes, NEW b \in Buffers, NEW v, NEW u, Grows(blocks, blocks'),
         buf' = [buf EXCEPT ![b] = v], unread' = [unread EXCEPT ![b] = u], u \in Text,
         Within(blocks', v), UNCHANGED <<chain, linked>>, spoiled' \in BOOLEAN,
         ~spoiled' => /\ ViewsHold /\ Holds(blocks', v, u)
                      /\ \A c \in Buffers \ {b} : Shows(blocks, blocks', buf[c])
                      /\ \A i \in 1..Len(chain) : Shows(blocks, blocks', chain[i])
  PROVE  BufInv'
<1>1. /\ v \in View /\ buf' \in [Buffers -> View] /\ buf'[b] = v
      /\ \A c \in Buffers \ {b} : buf'[c] = buf[c]
  BY Zenon DEF Within, BufTypes
<1>2. /\ unread' \in [Buffers -> Text] /\ unread'[b] = u
      /\ \A c \in Buffers \ {b} : unread'[c] = unread[c]
  BY Zenon DEF BufTypes
<1>3. BufTypes'
  <2>1. \A c \in Buffers : Within(blocks', buf'[c])
    BY <1>1, WithinGrown, Zenon DEF BufTypes
  <2>2. \A i \in 1..Len(chain) : Within(blocks', chain[i])
    BY WithinGrown, Zenon DEF BufTypes
  <2> QED
    BY <1>1, <1>2, <2>1, <2>2, Zenon DEF BufTypes, Grows
<1>4. ASSUME ~spoiled' PROVE ViewsHold'
  <2>1. ASSUME NEW c \in Buffers, c # b PROVE Holds(blocks', buf'[c], unread'[c])
    <3>1. Within(blocks, buf[c]) /\ Shows(blocks, blocks', buf[c]) /\ Holds(blocks, buf[c], unread[c])
      BY <1>4, <2>1, Zenon DEF BufTypes, ViewsHold
    <3>2. unread[c] \in Text /\ buf'[c] = buf[c] /\ unread'[c] = unread[c]
      BY <1>1, <1>2, <2>1, Zenon DEF BufTypes
    <3> QED
      BY <3>1, <3>2, HoldsShown, Zenon
  <2>2. ASSUME NEW i \in 1..Len(chain) PROVE Holds(blocks', chain[i], linked[i])
    <3>1. Within(blocks, chain[i]) /\ Shows(blocks, blocks', chain[i]) /\ Holds(blocks, chain[i], linked[i])
      BY <1>4, Zenon DEF BufTypes, ViewsHold
    <3>2. linked[i] \in Text
      BY DEF BufTypes, Memory
    <3> QED
      BY <3>1, <3>2, HoldsShown, Zenon
  <2> QED
    BY <1>1, <1>2, <1>4, <2>1, <2>2, Zenon DEF ViewsHold
<1> QED
  BY <1>3, <1>4, Zenon DEF BufInv

\* ... when no block is written.
LEMMA BlocksKept ==
  ASSUME BufTypes, blocks' = blocks
  PROVE  /\ Grows(blocks, blocks')
         /\ \A v : Shows(blocks, blocks', v)
BY DEF Grows, Shows, BufTypes

-----------------------------------------------------------------------------
LEMMA ViewFields ==
  ASSUME BufTypes, NEW b \in Buffers
  PROVE  /\ buf[b] \in View /\ buf[b].block \in Nat /\ buf[b].r \in Nat /\ buf[b].w \in Nat
         /\ buf[b].r <= buf[b].w /\ unread[b] \in Text
         /\ buf[b].block = 0 => buf[b].r = 0 /\ buf[b].w = 0
         /\ buf[b].block # 0 => /\ buf[b].block \in 1..Len(blocks) /\ blocks[buf[b].block] \in Text
                                /\ buf[b].w <= Len(blocks[buf[b].block])
         /\ Within(blocks, buf[b])
BY DEF BufTypes, Within, View, Memory

LEMMA ReadStep ==
  ASSUME BufInv, NEW b \in Buffers, NEW n \in Nat, B!read(b, n)
  PROVE  BufInv'
<1>1. PICK v : v = buf[b]
  BY Zenon
<1>2. PICK k : k = B!Taken(v, n)
  BY Zenon
<1>3. /\ BufTypes /\ ~spoiled /\ ViewsHold /\ v.block # 0 /\ v \in View /\ v.r \in Nat /\ v.w \in Nat /\ v.r <= v.w
      /\ unread[b] \in Text /\ Holds(blocks, v, unread[b]) /\ Within(blocks, v)
  BY <1>1, ViewFields, Zenon DEF BufInv, B!read, ViewsHold
<1>4. Len(unread[b]) = v.w - v.r /\ k \in 0..(v.w - v.r) /\ k = B!Least(n, Len(unread[b]))
  BY <1>2, <1>3 DEF Holds, B!Taken, B!Least, B!readable
<1>5. PICK u : u = B!Drop(unread[b], k)
  BY Zenon
<1>6. u \in Text /\ Len(u) = Len(unread[b]) - k /\ \A j \in 1..Len(u) : u[j] = unread[b][k + j]
  <2>1. k \in Nat /\ Len(unread[b]) \in Nat /\ k <= Len(unread[b])
    BY <1>3, <1>4
  <2>2. u = SubSeq(unread[b], k + 1, Len(unread[b]))
    BY <1>5, Zenon DEF B!Drop
  <2> QED
    BY <1>3, <2>1, <2>2, Part, SMTT(20)
<1>7. PICK x : x = [v EXCEPT !.r = @ + k]
  BY Zenon
<1>8. x \in View /\ x.block = v.block /\ x.w = v.w /\ x.r = v.r + k
  BY <1>3, <1>4, <1>7, SMTT(20) DEF View
<1>9. Within(blocks, x) /\ Holds(blocks, x, u)
  <2>1. Within(blocks, x)
    BY <1>3, <1>4, <1>8 DEF Within
  <2>2. \A j \in 1..Len(u) : k + j \in 1..Len(unread[b]) /\ v.r + (k + j) = x.r + j
    <3>1. PICK m, lo, all : m = Len(u) /\ lo = v.r /\ all = Len(unread[b])
      BY Zenon
    <3>2. m \in Nat /\ k \in Nat /\ lo \in Nat /\ all = m + k /\ x.r = lo + k
      BY <1>3, <1>4, <1>6, <1>8, <3>1
    <3>3. \A j \in 1..m : k + j \in 1..all /\ lo + (k + j) = (lo + k) + j
      BY <3>2
    <3> QED
      BY <3>1, <3>2, <3>3, Zenon
  <2>3. ASSUME NEW j \in 1..Len(u) PROVE u[j] = blocks[x.block][x.r + j]
    BY <1>3, <1>6, <1>8, <2>2, <2>3, Zenon DEF Holds
  <2>4. Len(u) = x.w - x.r
    BY <1>3, <1>4, <1>6, <1>8
  <2> QED
    BY <2>1, <2>3, <2>4, Zenon DEF Holds
<1>10. /\ buf' = [buf EXCEPT ![b] = x] /\ unread' = [unread EXCEPT ![b] = u]
       /\ UNCHANGED <<blocks, chain, linked, spoiled>>
  BY <1>1, <1>2, <1>4, <1>5, <1>7, Zenon DEF B!read
<1>11. /\ Grows(blocks, blocks') /\ \A y : Shows(blocks, blocks', y)
       /\ Within(blocks', x) /\ Holds(blocks', x, u) /\ spoiled' \in BOOLEAN
  BY <1>3, <1>9, <1>10, BlocksKept, Zenon DEF BufTypes
<1> QED
  BY <1>3, <1>6, <1>10, <1>11, OthersKept, Zenon

LEMMA RetreatStep ==
  ASSUME BufInv, NEW b \in Buffers, NEW n \in Nat, B!retreat(b, n)
  PROVE  BufInv'
<1>1. PICK v : v = buf[b]
  BY Zenon
<1>2. PICK k : k = B!Least(n, v.r)
  BY Zenon
<1>3. /\ BufTypes /\ ~spoiled /\ ViewsHold /\ v \in View /\ v.block \in Nat /\ v.r \in Nat /\ v.w \in Nat /\ v.r <= v.w
      /\ unread[b] \in Text /\ Holds(blocks, v, unread[b]) /\ Within(blocks, v)
      /\ v.block = 0 => v.r = 0
      /\ v.block # 0 => blocks[v.block] \in Text /\ v.w <= Len(blocks[v.block])
  BY <1>1, ViewFields, Zenon DEF BufInv, B!retreat, ViewsHold
<1>4. k \in Nat /\ k <= v.r
  BY <1>2, <1>3 DEF B!Least
<1>5. PICK x : x = [v EXCEPT !.r = @ - k]
  BY Zenon
<1>6. x \in View /\ x.block = v.block /\ x.w = v.w /\ x.r = v.r - k /\ x.r \in Nat
  BY <1>3, <1>4, <1>5 DEF View
<1>7. PICK u : u = IF k = 0 THEN unread[b] ELSE SubSeq(blocks[v.block], x.r + 1, v.r) \o unread[b]
  BY Zenon
<1>8. Within(blocks, x)
  BY <1>3, <1>4, <1>6 DEF Within
<1>9. u \in Text /\ Holds(blocks, x, u)
  <2>1. CASE k = 0
    BY <1>3, <1>6, <1>7, <2>1, SMTT(20) DEF Holds
  <2>2. CASE k # 0
    <3>1. v.block # 0 /\ x.r <= v.r /\ v.r <= Len(blocks[v.block])
      BY <1>3, <1>4, <1>6, <2>2
    <3>2. PICK p : p = SubSeq(blocks[v.block], x.r + 1, v.r)
      BY Zenon
    <3>3. p \in Text /\ Len(p) = k /\ \A j \in 1..k : p[j] = blocks[v.block][x.r + j]
      <4>1. v.r - x.r = k
        BY <1>3, <1>4, <1>6
      <4>2. blocks[v.block] \in Text /\ v.r \in Nat /\ x.r \in Nat
        BY <1>3, <1>6, <3>1, Zenon
      <4>3. p \in Text /\ Len(p) = v.r - x.r /\ \A j \in 1..(v.r - x.r) : p[j] = blocks[v.block][x.r + j]
        <5>1. PICK block : block = blocks[v.block]
          BY Zenon
        <5>2. PICK lo, hi : lo = x.r /\ hi = v.r
          BY Zenon
        <5>3. block \in Text /\ lo \in Nat /\ hi \in Nat /\ lo <= hi /\ hi <= Len(block)
          BY <3>1, <4>2, <5>1, <5>2, Zenon
        <5>4. p = SubSeq(block, lo + 1, hi)
          BY <3>2, <5>1, <5>2, Zenon
        <5>5. p \in Text /\ Len(p) = hi - lo /\ \A j \in 1..(hi - lo) : p[j] = block[lo + j]
          BY <5>3, <5>4, Part, ZenonT(30)
        <5> QED
          BY <5>1, <5>2, <5>5, Zenon
      <4> QED
        BY <4>1, <4>3, Zenon
    <3>4. u = p \o unread[b]
      BY <1>7, <2>2, <3>2, Zenon
    <3>5. u \in Text /\ Len(u) = k + Len(unread[b])
      BY <1>3, <3>3, <3>4, Joined, Zenon
    <3>6. Len(u) = x.w - x.r
      BY <1>3, <1>4, <1>6, <3>5, SMTT(20) DEF Holds
    <3>7. ASSUME NEW j \in 1..Len(u) PROVE u[j] = blocks[x.block][x.r + j]
      <4>1. CASE j <= k
        <5>1. j \in 1..k /\ u[j] = p[j]
          BY <1>3, <1>4, <3>3, <3>4, <3>5, <3>7, <4>1
        <5> QED
          BY <1>6, <3>3, <5>1, Zenon
      <4>2. CASE j > k
        <5>1. j - k \in 1..Len(unread[b]) /\ k + (j - k) = j /\ v.r + (j - k) = x.r + j
          BY <1>3, <1>4, <1>6, <3>5, <3>7, <4>2, SMTT(30) DEF Text
        <5>2. u[j] = unread[b][j - k]
          <6>1. p \in Text /\ unread[b] \in Text /\ Len(p) = k
            BY <1>3, <3>3, Zenon
          <6>2. (p \o unread[b])[Len(p) + (j - k)] = unread[b][j - k]
            BY <5>1, <6>1, Joined, ZenonT(30)
          <6> QED
            BY <3>4, <5>1, <6>1, <6>2, Zenon
        <5> QED
          BY <1>3, <1>6, <3>1, <5>1, <5>2, Zenon DEF Holds
      <4> QED
        BY <1>4, <4>1, <4>2
    <3> QED
      BY <3>5, <3>6, <3>7, Zenon DEF Holds
  <2> QED
    BY <2>1, <2>2, Zenon
<1>10. /\ buf' = [buf EXCEPT ![b] = x] /\ unread' = [unread EXCEPT ![b] = u]
       /\ UNCHANGED <<blocks, chain, linked, spoiled>>
  <2>1. v.r - k + 1 = x.r + 1
    BY <1>6, Zenon
  <2> QED
    BY <1>1, <1>2, <1>5, <1>7, <2>1, Zenon DEF B!retreat
<1>11. /\ Grows(blocks, blocks') /\ \A y : Shows(blocks, blocks', y)
       /\ Within(blocks', x) /\ Holds(blocks', x, u) /\ spoiled' \in BOOLEAN
  BY <1>3, <1>8, <1>9, <1>10, BlocksKept, Zenon DEF BufTypes
<1> QED
  BY <1>3, <1>9, <1>10, <1>11, OthersKept, Zenon

LEMMA ClearStep ==
  ASSUME BufInv, NEW b \in Buffers, B!clear(b)
  PROVE  BufInv'
<1>1. BufTypes /\ ~spoiled /\ ViewsHold /\ spoiled' \in BOOLEAN
  BY Zenon DEF BufInv, B!clear, BufTypes
<1>2. PICK x : x = [buf[b] EXCEPT !.r = 0, !.w = 0]
  BY Zenon
<1>3. x \in View /\ x.block = buf[b].block /\ x.r = 0 /\ x.w = 0
  BY <1>1, <1>2, ViewFields, Zenon DEF View
<1>4. PICK u : u = <<>>
  BY Zenon
<1>5. u \in Text /\ Len(u) = 0
  BY <1>4 DEF Text
<1>6. Within(blocks, x) /\ Holds(blocks, x, u)
  BY <1>1, <1>3, <1>5, ViewFields DEF Within, Holds
<1>7. /\ buf' = [buf EXCEPT ![b] = x] /\ unread' = [unread EXCEPT ![b] = u]
      /\ UNCHANGED <<blocks, chain, linked, spoiled>>
  BY <1>1, <1>2, <1>4, Zenon DEF B!clear, BufTypes
<1>8. /\ Grows(blocks, blocks') /\ \A y : Shows(blocks, blocks', y)
      /\ Within(blocks', x) /\ Holds(blocks', x, u)
  BY <1>1, <1>6, <1>7, BlocksKept, Zenon
<1> QED
  BY <1>1, <1>5, <1>7, <1>8, OthersKept, Zenon

LEMMA AssignStep ==
  ASSUME BufInv, NEW b \in Buffers, NEW c \in Buffers, B!Assign(b, c)
  PROVE  BufInv'
<1>1. BufTypes /\ ~spoiled /\ ViewsHold /\ spoiled' \in BOOLEAN
  BY Zenon DEF BufInv, B!Assign, BufTypes
<1>2. unread[c] \in Text /\ Within(blocks, buf[c]) /\ Holds(blocks, buf[c], unread[c])
  BY <1>1, ViewFields, Zenon DEF ViewsHold
<1>3. /\ buf' = [buf EXCEPT ![b] = buf[c]] /\ unread' = [unread EXCEPT ![b] = unread[c]]
      /\ UNCHANGED <<blocks, chain, linked, spoiled>>
  BY Zenon DEF B!Assign
<1>4. /\ Grows(blocks, blocks') /\ \A y : Shows(blocks, blocks', y)
      /\ Within(blocks', buf[c]) /\ Holds(blocks', buf[c], unread[c])
  BY <1>1, <1>2, <1>3, BlocksKept, Zenon
<1> QED
  BY <1>1, <1>2, <1>3, <1>4, OthersKept, Zenon

LEMMA AppendStep ==
  ASSUME BufInv, NEW b \in Buffers, B!append(b)
  PROVE  BufInv'
<1>1. /\ BufTypes /\ ~spoiled /\ ViewsHold /\ chain \in Seq(View) /\ linked \in Memory /\ Len(linked) = Len(chain)
      /\ buf[b] \in View /\ unread[b] \in Text /\ Within(blocks, buf[b]) /\ Holds(blocks, buf[b], unread[b])
  BY ViewFields, Zenon DEF BufInv, B!append, BufTypes, ViewsHold
<1>2. /\ chain' = Append(chain, buf[b]) /\ linked' = Append(linked, unread[b])
      /\ UNCHANGED <<blocks, buf, unread, spoiled>>
  BY Zenon DEF B!append
<1>3. /\ chain' \in Seq(View) /\ linked' \in Memory /\ Len(linked') = Len(chain')
      /\ Len(chain') = Len(chain) + 1
  BY <1>1, <1>2 DEF Memory
<1>4. \A i \in 1..Len(chain') :
        \/ i \in 1..Len(chain) /\ chain'[i] = chain[i] /\ linked'[i] = linked[i]
        \/ chain'[i] = buf[b] /\ linked'[i] = unread[b]
  BY <1>1, <1>2
<1>5. BufTypes'
  BY <1>1, <1>2, <1>3, <1>4, Zenon DEF BufTypes
<1>6. ViewsHold'
  BY <1>1, <1>2, <1>4, Zenon DEF ViewsHold
<1> QED
  BY <1>5, <1>6, Zenon DEF BufInv

LEMMA ClearChainStep ==
  ASSUME BufInv, B!clearChain
  PROVE  BufInv'
<1>1. BufTypes /\ ~spoiled /\ ViewsHold /\ chain' = <<>> /\ linked' = <<>> /\ UNCHANGED <<blocks, buf, unread, spoiled>>
  BY Zenon DEF BufInv, B!clearChain
<1>2. Len(chain') = 0 /\ Len(linked') = 0 /\ chain' \in Seq(View) /\ linked' \in Memory
  BY <1>1 DEF Memory
<1>3. BufTypes'
  BY <1>1, <1>2 DEF BufTypes
<1>4. ViewsHold'
  BY <1>1, <1>2 DEF ViewsHold
<1> QED
  BY <1>3, <1>4, Zenon DEF BufInv

-----------------------------------------------------------------------------
\* The steps that write a block.
LEMMA Copies ==
  ASSUME NEW block \in Text, NEW at \in Nat, NEW data \in Text
  PROVE  /\ B!Copied(block, at, data) \in Text /\ Len(B!Copied(block, at, data)) = Len(block)
         /\ \A j \in 1..Len(block) : j <= at => B!Copied(block, at, data)[j] = block[j]
         /\ \A j \in 1..Len(data) : at + j <= Len(block) => B!Copied(block, at, data)[at + j] = data[j]
<1>1. PICK c : c = B!Copied(block, at, data)
  BY Zenon
<1>2. c = [i \in 1..Len(block) |-> IF i - at \in 1..Len(data) THEN data[i - at] ELSE block[i]]
  BY <1>1 DEF B!Copied, Text
<1>3. \A i \in 1..Len(block) : c[i] \in Bytes
  BY <1>2 DEF Text
<1>4. c \in Text /\ Len(c) = Len(block)
  BY <1>2, <1>3 DEF Text
<1>5. \A j \in 1..Len(block) : j <= at => c[j] = block[j]
  BY <1>2
<1>6. ASSUME NEW j \in 1..Len(data), at + j <= Len(block) PROVE c[at + j] = data[j]
  <2>1. at + j \in 1..Len(block) /\ (at + j) - at = j
    BY <1>6
  <2> QED
    BY <1>2, <2>1, Zenon
<1> QED
  BY <1>1, <1>4, <1>5, <1>6, Zenon

Put(bs, k, block) == [bs EXCEPT ![k] = block]
LEMMA Rewritten ==
  ASSUME NEW bs \in Memory, NEW k \in 1..Len(bs), NEW block \in Text, Len(block) = Len(bs[k])
  PROVE  /\ Grows(bs, Put(bs, k, block)) /\ Len(Put(bs, k, block)) = Len(bs) /\ Put(bs, k, block)[k] = block
         /\ \A l \in 1..Len(bs) : l # k => Put(bs, k, block)[l] = bs[l]
<1>1. Put(bs, k, block) \in Memory /\ Len(Put(bs, k, block)) = Len(bs)
  BY DEF Put, Memory
<1>2. Put(bs, k, block)[k] = block /\ \A l \in 1..Len(bs) : l # k => Put(bs, k, block)[l] = bs[l]
  BY DEF Put
<1> QED
  BY <1>1, <1>2 DEF Grows

LEMMA Added ==
  ASSUME NEW bs \in Memory, NEW block \in Text
  PROVE  /\ Grows(bs, Append(bs, block)) /\ Len(Append(bs, block)) = Len(bs) + 1
         /\ Append(bs, block)[Len(bs) + 1] = block /\ \A l \in 1..Len(bs) : Append(bs, block)[l] = bs[l]
<1>1. Append(bs, block) \in Memory /\ Len(Append(bs, block)) = Len(bs) + 1
  BY DEF Memory
<1>2. Append(bs, block)[Len(bs) + 1] = block /\ \A l \in 1..Len(bs) : Append(bs, block)[l] = bs[l]
  OBVIOUS
<1> QED
  BY <1>1, <1>2 DEF Grows

LEMMA NewBlock ==
  ASSUME Bytes # {}, NEW n \in Nat
  PROVE  B!Junk(n) \in Text /\ Len(B!Junk(n)) = n
<1>1. PICK x : x = CHOOSE y \in Bytes : TRUE
  BY Zenon
<1>2. x \in Bytes
  BY <1>1, Zenon
<1>3. B!Junk(n) = [i \in 1..n |-> x]
  BY <1>1 DEF B!Junk
<1> QED
  BY <1>2, <1>3 DEF Text

\* No other holder of the block of b; none reads beyond the end of b.
Alone(b) ==
  /\ \A c \in Buffers \ {b} : buf[c].block # buf[b].block
  /\ \A i \in 1..Len(chain) : chain[i].block # buf[b].block
Ahead(b) ==
  /\ \A c \in Buffers \ {b} : buf[c].block = buf[b].block => buf[c].w <= buf[b].w
  /\ \A i \in 1..Len(chain) : chain[i].block = buf[b].block => chain[i].w <= buf[b].w

LEMMA NotOverwritten ==
  ASSUME BufTypes, NEW b \in Buffers
  PROVE  /\ ~B!Overwrites(b, TRUE) => Ahead(b)
         /\ ~B!Overwrites(b, FALSE) => Alone(b) \/ buf[b].r = 0
<1>1. \A c \in Buffers \ {b} : buf[c].block = buf[b].block => buf[c] \in B!Holders(b)
  BY Zenon DEF B!Holders
<1>2. \A i \in 1..Len(chain) : chain[i].block = buf[b].block => chain[i] \in B!Holders(b)
  <2>1. DOMAIN chain = 1..Len(chain)
    BY DEF BufTypes
  <2> QED
    BY <2>1, Zenon DEF B!Holders
<1>3. buf[b].r \in Nat /\ buf[b].w \in Nat
  BY ViewFields, Zenon
<1>4. (\A c \in Buffers : buf[c].w \in Nat) /\ (\A i \in 1..Len(chain) : chain[i].w \in Nat)
  <2>1. (\A c \in Buffers : buf[c] \in View) /\ (\A i \in 1..Len(chain) : chain[i] \in View)
    BY Zenon DEF BufTypes, Within
  <2> QED
    BY <2>1, Zenon DEF View
<1>5. ~B!Overwrites(b, TRUE) => \A h \in B!Holders(b) : ~(h.w > buf[b].w)
  BY Zenon DEF B!Overwrites
<1>6. ~B!Overwrites(b, FALSE) => buf[b].r = 0 \/ \A h : h \notin B!Holders(b)
  BY <1>3 DEF B!Overwrites
<1>7. ~B!Overwrites(b, TRUE) => Ahead(b)
  BY <1>1, <1>2, <1>3, <1>4, <1>5 DEF Ahead
<1>8. ~B!Overwrites(b, FALSE) => Alone(b) \/ buf[b].r = 0
  BY <1>1, <1>2, <1>6, Zenon DEF Alone
<1> QED
  BY <1>7, <1>8, Zenon

\* A step on the block of b leaves what the other holders show.
Spares(cs, b) ==
  /\ \A l \in 1..Len(blocks) : l # buf[b].block => cs[l] = blocks[l]
  /\ \/ Alone(b)
     \/ cs[buf[b].block] = blocks[buf[b].block]
     \/ Ahead(b) /\ \A j \in 1..Len(blocks[buf[b].block]) :
                       j <= buf[b].w => cs[buf[b].block][j] = blocks[buf[b].block][j]

LEMMA OthersShown ==
  ASSUME BufTypes, NEW b \in Buffers, NEW cs, Spares(cs, b)
  PROVE  /\ \A c \in Buffers \ {b} : Shows(blocks, cs, buf[c])
         /\ \A i \in 1..Len(chain) : Shows(blocks, cs, chain[i])
<1>1. PICK k : k = buf[b].block
  BY Zenon
<1>2. ASSUME NEW v, Within(blocks, v),
             \/ v.block # k
             \/ cs[k] = blocks[k]
             \/ v.w <= buf[b].w /\ \A j \in 1..Len(blocks[k]) : j <= buf[b].w => cs[k][j] = blocks[k][j]
      PROVE  Shows(blocks, cs, v)
  <2> SUFFICES ASSUME v.block # 0, NEW j \in (v.r + 1)..v.w PROVE cs[v.block][j] = blocks[v.block][j]
    BY Zenon DEF Shows
  <2>1. v.block \in 1..Len(blocks) /\ v.w <= Len(blocks[v.block]) /\ v.r \in Nat /\ v.w \in Nat
    BY <1>2 DEF Within, View
  <2>2. Len(blocks[v.block]) \in Nat /\ buf[b].w \in Nat
    BY <2>1, ViewFields DEF BufTypes
  <2>3. j \in 1..Len(blocks[v.block]) /\ j <= v.w
    BY <2>1, <2>2, SMTT(20)
  <2>4. v.block # k => cs[v.block] = blocks[v.block]
    BY <1>1, <2>1, Zenon DEF Spares
  <2> QED
    BY <1>2, <2>1, <2>2, <2>3, <2>4, SMTT(20)
<1>3. \A c \in Buffers : Within(blocks, buf[c])
  BY Zenon DEF BufTypes
<1>4. \A i \in 1..Len(chain) : Within(blocks, chain[i])
  BY Zenon DEF BufTypes
<1>5. \/ Alone(b) \/ cs[k] = blocks[k]
      \/ Ahead(b) /\ \A j \in 1..Len(blocks[k]) : j <= buf[b].w => cs[k][j] = blocks[k][j]
  BY <1>1, Zenon DEF Spares
<1>6. ASSUME NEW c \in Buffers \ {b} PROVE Shows(blocks, cs, buf[c])
  BY <1>1, <1>2, <1>3, <1>5, Zenon DEF Alone, Ahead
<1>7. ASSUME NEW i \in 1..Len(chain) PROVE Shows(blocks, cs, chain[i])
  BY <1>1, <1>2, <1>4, <1>5, Zenon DEF Alone, Ahead
<1> QED
  BY <1>6, <1>7, Zenon

\* The kernel writes behind every view of the block, or spoils it.
LEMMA ReadCompletesStep ==
  ASSUME BufInv, ReadsInv, NEW p, NEW data \in Text, B!ReadCompletes(p, data)
  PROVE  BufInv'
<1>1. PICK k, at : k = p.block /\ at = p.at
  BY Zenon
<1>2. /\ BufTypes /\ ~spoiled /\ ViewsHold /\ blocks \in Memory /\ DOMAIN chain = 1..Len(chain)
      /\ k \in 1..Len(blocks) /\ at \in Nat
  <2>1. p \in reads /\ ~spoiled
    BY Zenon DEF B!ReadCompletes
  <2>2. BufTypes => DOMAIN chain = 1..Len(chain)
    BY DEF BufTypes
  <2> QED
    BY <1>1, <2>1, <2>2, Zenon DEF BufInv, BufTypes, ReadsInv
<1>3. blocks[k] \in Text
  BY <1>2 DEF Memory
<1>4. PICK block : block = B!Copied(blocks[k], at, data)
  BY Zenon
<1>5. /\ block \in Text /\ Len(block) = Len(blocks[k])
      /\ \A j \in 1..Len(blocks[k]) : j <= at => block[j] = blocks[k][j]
  BY <1>2, <1>3, <1>4, Copies, Zenon
<1>6. /\ blocks' = Put(blocks, k, block) /\ UNCHANGED <<buf, chain, unread, linked>>
      /\ spoiled' = (B!Views(k) = {} \/ \E v \in B!Views(k) : v.w > at)
  BY <1>1, <1>4, Zenon DEF B!ReadCompletes, Put
<1>7. Grows(blocks, blocks') /\ blocks'[k] = block /\ \A l \in 1..Len(blocks) : l # k => blocks'[l] = blocks[l]
  BY <1>2, <1>5, <1>6, Rewritten, ZenonT(30)
<1>8. BufTypes'
  <2>1. \A c \in Buffers : Within(blocks', buf[c])
    BY <1>2, <1>7, WithinGrown, Zenon DEF BufTypes
  <2>2. \A i \in 1..Len(chain) : Within(blocks', chain[i])
    BY <1>2, <1>7, WithinGrown, Zenon DEF BufTypes
  <2>3. spoiled' \in BOOLEAN
    BY <1>6, Zenon
  <2> QED
    BY <1>2, <1>6, <1>7, <2>1, <2>2, <2>3, Zenon DEF BufTypes, Grows
<1>9. ASSUME NEW v, NEW u \in Text, Within(blocks, v), Holds(blocks, v, u), v.block = k => ~(v.w > at)
      PROVE  Holds(blocks', v, u)
  <2>1. ASSUME v.block # 0, NEW j \in (v.r + 1)..v.w PROVE blocks'[v.block][j] = blocks[v.block][j]
    <3>1. v.block \in 1..Len(blocks) /\ v.w <= Len(blocks[v.block]) /\ v.r \in Nat /\ v.w \in Nat
      BY <1>9, <2>1 DEF Within, View
    <3>2. Len(blocks[v.block]) \in Nat
      BY <1>2, <3>1 DEF Memory
    <3>3. j \in 1..Len(blocks[v.block]) /\ j <= v.w /\ j \in Int
      BY <2>1, <3>1, <3>2
    <3>4. CASE v.block # k
      BY <1>7, <3>1, <3>4, Zenon
    <3>5. CASE v.block = k
      <4>1. j <= at
        BY <1>2, <1>9, <3>1, <3>3, <3>5
      <4> QED
        BY <1>5, <1>7, <3>3, <3>5, <4>1, Zenon
    <3> QED
      BY <3>4, <3>5, Zenon
  <2>2. Shows(blocks, blocks', v)
    BY <2>1, Zenon DEF Shows
  <2> QED
    BY <1>9, <2>2, HoldsShown, Zenon
<1>10. ASSUME ~spoiled' PROVE ViewsHold'
  <2>1. \A v \in B!Views(k) : ~(v.w > at)
    BY <1>6, <1>10, Zenon
  <2>2. ASSUME NEW c \in Buffers PROVE Holds(blocks', buf[c], unread[c])
    <3>1. buf[c].block = k => buf[c] \in B!Views(k)
      BY Zenon DEF B!Views
    <3>2. unread[c] \in Text /\ Within(blocks, buf[c]) /\ Holds(blocks, buf[c], unread[c])
      BY <1>2, Zenon DEF BufTypes, ViewsHold
    <3> QED
      BY <1>9, <2>1, <3>1, <3>2, Zenon
  <2>3. ASSUME NEW i \in 1..Len(chain) PROVE Holds(blocks', chain[i], linked[i])
    <3>1. chain[i].block = k => chain[i] \in B!Views(k)
      BY <1>2, Zenon DEF B!Views
    <3>2. linked[i] \in Text
      BY <1>2 DEF BufTypes, Memory
    <3>3. Within(blocks, chain[i]) /\ Holds(blocks, chain[i], linked[i])
      BY <1>2, Zenon DEF BufTypes, ViewsHold
    <3> QED
      BY <1>9, <2>1, <3>1, <3>2, <3>3, Zenon
  <2> QED
    BY <1>6, <2>2, <2>3, Zenon DEF ViewsHold
<1> QED
  BY <1>8, <1>10, Zenon DEF BufInv

\* compact(): the unread bytes are at the front of the block.
LEMMA Compacted ==
  ASSUME BufTypes, NEW v, Within(blocks, v), v.block # 0
  PROVE  /\ B!Moved(v) \in Text /\ Len(B!Moved(v)) = Len(blocks[v.block])
         /\ \A j \in 1..(v.w - v.r) : B!Moved(v)[j] = blocks[v.block][v.r + j]
         /\ v.r = 0 => B!Moved(v) = blocks[v.block]
<1>1. v.block \in 1..Len(blocks) /\ v.r \in Nat /\ v.w \in Nat /\ v.r <= v.w /\ v.w <= Len(blocks[v.block])
  BY DEF Within, View
<1>2. PICK block, lo, hi : block = blocks[v.block] /\ lo = v.r /\ hi = v.w
  BY Zenon
<1>3. block \in Text /\ lo \in Nat /\ hi \in Nat /\ lo <= hi /\ hi <= Len(block)
  BY <1>1, <1>2 DEF BufTypes, Memory
<1>4. PICK p : p = SubSeq(block, lo + 1, hi)
  BY Zenon
<1>5. p \in Text /\ Len(p) = hi - lo /\ \A j \in 1..(hi - lo) : p[j] = block[lo + j]
  BY <1>3, <1>4, Part, ZenonT(30)
<1>6. CASE lo > 0
  <2>1. B!Moved(v) = B!Copied(block, 0, p)
    BY <1>2, <1>4, <1>6, Zenon DEF B!Moved, B!as_string
  <2>2. /\ B!Copied(block, 0, p) \in Text /\ Len(B!Copied(block, 0, p)) = Len(block)
        /\ \A j \in 1..Len(p) : 0 + j <= Len(block) => B!Copied(block, 0, p)[0 + j] = p[j]
    BY <1>3, <1>5, Copies
  <2>3. \A j \in 1..(hi - lo) : j \in 1..Len(p) /\ 0 + j <= Len(block) /\ 0 + j = j
    BY <1>3, <1>5
  <2>4. \A j \in 1..(hi - lo) : B!Copied(block, 0, p)[j] = block[lo + j]
    BY <1>5, <2>2, <2>3, Zenon
  <2> QED
    BY <1>2, <1>6, <2>1, <2>2, <2>4
<1>7. CASE lo = 0
  <2>1. B!Moved(v) = block
    BY <1>2, <1>7 DEF B!Moved
  <2>2. \A j \in 1..(hi - lo) : lo + j = j
    BY <1>3, <1>7
  <2> QED
    BY <1>2, <1>3, <2>1, <2>2, Zenon
<1> QED
  BY <1>3, <1>6, <1>7

\* compact() as a call of its own.
LEMMA CompactStep ==
  ASSUME BufInv, NEW b \in Buffers, B!Compact(b)
  PROVE  BufInv'
<1>1. PICK v, k, block : v = buf[b] /\ k = buf[b].block /\ block = B!Moved(buf[b])
  BY Zenon
<1>2. /\ BufTypes /\ ~spoiled /\ ViewsHold /\ v \in View /\ v.r \in Nat /\ v.w \in Nat /\ v.r <= v.w /\ v.r > 0
      /\ Within(blocks, v) /\ unread[b] \in Text /\ Holds(blocks, v, unread[b])
      /\ blocks \in Memory /\ v.block = k
  BY <1>1, ViewFields, Zenon DEF BufInv, B!Compact, ViewsHold, BufTypes
<1>3. k # 0 /\ k \in 1..Len(blocks) /\ blocks[k] \in Text /\ v.w <= Len(blocks[k])
  BY <1>1, <1>2, ViewFields
<1>4. /\ block \in Text /\ Len(block) = Len(blocks[k])
      /\ \A j \in 1..(v.w - v.r) : block[j] = blocks[k][v.r + j]
  <2>1. BufTypes /\ Within(blocks, v) /\ v.block # 0 /\ v.block = k
    BY <1>2, <1>3, Zenon
  <2>2. /\ B!Moved(v) \in Text /\ Len(B!Moved(v)) = Len(blocks[v.block])
        /\ \A j \in 1..(v.w - v.r) : B!Moved(v)[j] = blocks[v.block][v.r + j]
    BY <2>1, Compacted, Zenon
  <2> QED
    BY <1>1, <2>1, <2>2, Zenon
<1>5. PICK x : x = B!compact(v)
  BY Zenon
<1>6. x \in View /\ x.block = k /\ x.r = 0 /\ x.w = v.w - v.r
  <2>1. PICK d : d = v.w - v.r
    BY Zenon
  <2>2. d \in Nat
    BY <1>2, <2>1
  <2>3. x = [v EXCEPT !.r = 0, !.w = d]
    BY <1>5, <2>1, Zenon DEF B!compact, B!readable
  <2> QED
    BY <1>2, <2>1, <2>2, <2>3, Zenon DEF View
<1>7. blocks' = Put(blocks, k, block) /\ spoiled' = B!Overwrites(b, FALSE) /\ UNCHANGED <<chain, unread, linked>>
  BY <1>1, Zenon DEF B!Compact, Put
<1>8. Grows(blocks, blocks') /\ Len(blocks') = Len(blocks) /\ blocks'[k] = block
      /\ \A l \in 1..Len(blocks) : l # k => blocks'[l] = blocks[l]
  BY <1>2, <1>3, <1>4, <1>7, Rewritten
<1>9. Within(blocks', x)
  <2>1. x.block \in 0..Len(blocks') /\ x.r <= x.w /\ x.w <= Len(blocks'[x.block])
    BY <1>2, <1>3, <1>4, <1>6, <1>8
  <2> QED
    BY <1>3, <1>6, <2>1, Zenon DEF Within
<1>10. Holds(blocks', x, unread[b])
  <2>1. Len(unread[b]) = v.w - v.r /\ \A j \in 1..Len(unread[b]) : unread[b][j] = blocks[k][v.r + j]
    BY <1>2, <1>3, Zenon DEF Holds
  <2>2. x.w - x.r = v.w - v.r /\ \A j \in 1..(v.w - v.r) : x.r + j = j
    BY <1>2, <1>6, SMTT(30)
  <2>3. \A j \in 1..Len(unread[b]) : unread[b][j] = blocks'[x.block][x.r + j]
    BY <1>4, <1>6, <1>8, <2>1, <2>2, ZenonT(30)
  <2> QED
    BY <2>1, <2>2, <2>3, Zenon DEF Holds
<1>11. ASSUME ~spoiled'
       PROVE  /\ \A c \in Buffers \ {b} : Shows(blocks, blocks', buf[c])
              /\ \A i \in 1..Len(chain) : Shows(blocks, blocks', chain[i])
  <2>1. ~B!Overwrites(b, FALSE)
    BY <1>7, <1>11, Zenon
  <2>2. buf[b].r # 0
    BY <1>1, <1>2
  <2>3. Alone(b)
    BY <1>2, <2>1, <2>2, NotOverwritten, Zenon
  <2>4. Spares(blocks', b)
    BY <1>1, <1>8, <2>3, Zenon DEF Spares
  <2> QED
    BY <1>2, <2>4, OthersShown, Zenon
<1>12. buf' = [buf EXCEPT ![b] = x] /\ unread' = [unread EXCEPT ![b] = unread[b]]
  BY <1>1, <1>2, <1>5, <1>7, Zenon DEF BufTypes, B!Compact
<1>13. spoiled' \in BOOLEAN
  BY <1>7, Zenon DEF B!Overwrites
<1> QED
  BY <1>2, <1>7, <1>8, <1>9, <1>10, <1>11, <1>12, <1>13, OthersKept, Zenon

\* Buffer(capacity).
LEMMA ConstructStep ==
  ASSUME BufInv, Bytes # {}, NEW b \in Buffers, NEW n \in Nat, B!Construct(b, n)
  PROVE  BufInv'
<1>1. BufTypes /\ ~spoiled /\ ViewsHold /\ blocks \in Memory /\ spoiled' = spoiled /\ spoiled' \in BOOLEAN
  BY Zenon DEF BufInv, B!Construct, BufTypes
<1>2. PICK block : block = B!Junk(n)
  BY Zenon
<1>3. block \in Text /\ Len(block) = n
  BY <1>2, NewBlock, Zenon
<1>4. PICK x : x = [block |-> Len(blocks) + 1, r |-> 0, w |-> 0]
  BY Zenon
<1>5. x \in View /\ x.block = Len(blocks) + 1 /\ x.r = 0 /\ x.w = 0 /\ x.block # 0
  BY <1>1, <1>4 DEF View
<1>6. PICK u : u = <<>>
  BY Zenon
<1>7. u \in Text /\ Len(u) = 0
  BY <1>6 DEF Text
<1>8. /\ blocks' = Append(blocks, block) /\ buf' = [buf EXCEPT ![b] = x] /\ unread' = [unread EXCEPT ![b] = u]
      /\ UNCHANGED <<chain, linked>>
  BY <1>2, <1>4, <1>6, Zenon DEF B!Construct
<1>9. /\ Grows(blocks, blocks') /\ Len(blocks') = Len(blocks) + 1 /\ blocks'[Len(blocks) + 1] = block
      /\ \A l \in 1..Len(blocks) : blocks'[l] = blocks[l]
  BY <1>1, <1>3, <1>8, Added, Zenon
<1>10. Within(blocks', x) /\ Holds(blocks', x, u)
  BY <1>1, <1>3, <1>5, <1>7, <1>9 DEF Within, Holds
<1>11. /\ \A c \in Buffers \ {b} : Shows(blocks, blocks', buf[c])
       /\ \A i \in 1..Len(chain) : Shows(blocks, blocks', chain[i])
  <2>1. ASSUME NEW y, Within(blocks, y) PROVE Shows(blocks, blocks', y)
    BY <1>9, <2>1 DEF Shows, Within
  <2> QED
    BY <1>1, <2>1, Zenon DEF BufTypes
<1> QED
  BY <1>1, <1>7, <1>8, <1>9, <1>10, <1>11, OthersKept, Zenon

-----------------------------------------------------------------------------
\* write(): the data follow what was there.
LEMMA Shifted ==
  ASSUME NEW m \in Nat, NEW n \in Nat, NEW lo \in Nat, NEW j \in 1..(m + n), j > m
  PROVE  j - m \in 1..n /\ m + (j - m) = j /\ (lo + m) + (j - m) = lo + j
OBVIOUS

\* s is what block has from at on.
Reads(s, block, at) == \A j \in 1..Len(s) : s[j] = block[at + j]

LEMMA Extended ==
  ASSUME NEW block, NEW u \in Text, NEW data \in Text, NEW lo \in Nat, NEW at \in Nat, at = lo + Len(u),
         Reads(u, block, lo), Reads(data, block, at)
  PROVE  u \o data \in Text /\ Len(u \o data) = Len(u) + Len(data) /\ Reads(u \o data, block, lo)
<1>1. PICK s, m, n : s = u \o data /\ m = Len(u) /\ n = Len(data)
  BY Zenon
<1>2. /\ s \in Text /\ Len(s) = Len(u) + Len(data) /\ \A j \in 1..Len(u) : s[j] = u[j]
      /\ \A j \in 1..Len(data) : s[Len(u) + j] = data[j]
  BY <1>1, Joined, Zenon
<1>3. m \in Nat /\ n \in Nat /\ at = lo + m /\ Len(s) = m + n
  BY <1>1, <1>2
<1>4. ASSUME NEW j \in 1..Len(s) PROVE s[j] = block[lo + j]
  <2>1. j \in 1..(m + n)
    BY <1>3, Zenon
  <2>2. CASE j <= m
    <3>1. j \in 1..Len(u)
      BY <1>1, <1>3, <2>1, <2>2
    <3> QED
      BY <1>2, <3>1, Zenon DEF Reads
  <2>3. CASE j > m
    <3>1. j - m \in 1..n /\ m + (j - m) = j /\ at + (j - m) = lo + j
      BY <1>3, <2>1, <2>3, Shifted
    <3>2. s[j] = data[j - m] /\ data[j - m] = block[at + (j - m)]
      BY <1>1, <1>2, <3>1, Zenon DEF Reads
    <3> QED
      BY <3>1, <3>2, Zenon
  <2> QED
    BY <1>3, <2>1, <2>2, <2>3
<1> QED
  BY <1>1, <1>2, <1>4, Zenon DEF Reads

\* What write() finds, the end of the unread bytes being at.
LEMMA WriteFinds ==
  ASSUME BufInv, NEW b \in Buffers, NEW data, B!write(b, data)
  PROVE  /\ BufTypes /\ ~spoiled /\ ViewsHold /\ UNCHANGED <<chain, linked>> /\ spoiled' \in BOOLEAN
         /\ unread' = [unread EXCEPT ![b] = unread[b] \o data]
         /\ buf[b] \in View /\ buf[b].r \in Nat /\ buf[b].w \in Nat /\ buf[b].r <= buf[b].w
         /\ Within(blocks, buf[b]) /\ unread[b] \in Text /\ Holds(blocks, buf[b], unread[b])
         /\ blocks \in Memory
<1>1. BufTypes /\ ~spoiled /\ ViewsHold /\ blocks \in Memory /\ unread \in [Buffers -> Text]
  BY Zenon DEF BufInv, B!write, BufTypes
<1>2. UNCHANGED <<chain, linked>> /\ unread' = [unread EXCEPT ![b] = unread[b] \o data]
  BY <1>1, Zenon DEF B!write
<1>3. spoiled' \in BOOLEAN
  BY Zenon DEF B!write
<1> QED
  BY <1>1, <1>2, <1>3, ViewFields, Zenon DEF ViewsHold

\* ensure_writable() does nothing.
LEMMA WriteInPlace ==
  ASSUME BufInv, NEW b \in Buffers, NEW data \in Text, B!write(b, data),
         buf[b].block # 0, B!writable(buf[b]) >= Len(data)
  PROVE  BufInv'
<1>1. PICK v, k, u, at : v = buf[b] /\ k = buf[b].block /\ u = unread[b] /\ at = buf[b].w
  BY Zenon
<1>2. /\ BufTypes /\ ~spoiled /\ ViewsHold /\ UNCHANGED <<chain, linked>> /\ spoiled' \in BOOLEAN
      /\ unread' = [unread EXCEPT ![b] = u \o data]
      /\ v \in View /\ v.r \in Nat /\ v.w = at /\ at \in Nat /\ v.r <= at /\ v.block = k
      /\ Within(blocks, v) /\ u \in Text /\ Holds(blocks, v, u) /\ blocks \in Memory
  BY <1>1, WriteFinds, Zenon
<1>3. k # 0 /\ k \in 1..Len(blocks) /\ blocks[k] \in Text /\ at + Len(data) <= Len(blocks[k])
  <2>1. k # 0 /\ k \in 1..Len(blocks) /\ blocks[k] \in Text
    BY <1>1, <1>2, ViewFields, Zenon
  <2>2. Len(blocks[k]) - at >= Len(data)
    BY <1>1, Zenon DEF B!writable
  <2> QED
    BY <1>2, <2>1, <2>2, SMTT(30)
<1>4. PICK block : block = B!Copied(blocks[k], at, data)
  BY Zenon
<1>5. /\ block \in Text /\ Len(block) = Len(blocks[k])
      /\ \A j \in 1..Len(blocks[k]) : j <= at => block[j] = blocks[k][j]
      /\ \A j \in 1..Len(data) : at + j <= Len(blocks[k]) => block[at + j] = data[j]
  BY <1>2, <1>3, <1>4, Copies, SMTT(20)
<1>6. PICK x : x = [v EXCEPT !.w = at + Len(data)]
  BY Zenon
<1>7. x \in View /\ x.block = k /\ x.r = v.r /\ x.w = at + Len(data)
  <2>1. at + Len(data) \in Nat
    BY <1>2
  <2> QED
    BY <1>2, <1>6, <2>1, Zenon DEF View
<1>8. blocks' = Put(blocks, k, block) /\ buf' = [buf EXCEPT ![b] = x]
  BY <1>1, <1>2, <1>4, <1>6, Zenon DEF B!write, Put
<1>9. Grows(blocks, blocks') /\ Len(blocks') = Len(blocks) /\ blocks'[k] = block
      /\ \A l \in 1..Len(blocks) : l # k => blocks'[l] = blocks[l]
  BY <1>2, <1>3, <1>5, <1>8, Rewritten, SMTT(30)
<1>10. Within(blocks', x)
  <2>1. Len(data) \in Nat /\ Len(blocks'[k]) = Len(blocks[k])
    BY <1>5, <1>9, SMTT(30) DEF Text
  <2>2. x.r <= x.w
    BY <1>2, <1>7, <2>1, SMTT(30)
  <2>3. x.block \in 0..Len(blocks') /\ x.w <= Len(blocks'[x.block])
    BY <1>3, <1>7, <1>9, <2>1, SMTT(30)
  <2> QED
    BY <1>3, <1>7, <2>2, <2>3, Zenon DEF Within
<1>11. u \o data \in Text /\ Holds(blocks', x, u \o data)
  <2>1. Len(u) = at - v.r /\ \A j \in 1..Len(u) : u[j] = blocks[k][v.r + j]
    BY <1>2, <1>3, Zenon DEF Holds
  <2>2. at = v.r + Len(u)
    BY <1>2, <2>1
  <2>3. \A j \in 1..Len(u) : v.r + j \in 1..Len(blocks[k]) /\ v.r + j <= at
    <3>1. Len(u) \in Nat /\ Len(blocks[k]) \in Nat /\ at <= Len(blocks[k])
      BY <1>2, <1>3, SMTT(30)
    <3> QED
      BY <1>2, <2>2, <3>1, SMTT(20)
  <2>4. \A j \in 1..Len(u) : u[j] = blocks'[x.block][v.r + j]
    BY <1>5, <1>7, <1>9, <2>1, <2>3, Zenon
  <2>5. \A j \in 1..Len(data) : at + j <= Len(blocks[k])
    BY <1>2, <1>3, SMTT(30)
  <2>6. \A j \in 1..Len(data) : data[j] = blocks'[x.block][at + j]
    BY <1>5, <1>7, <1>9, <2>5, Zenon
  <2>7. Reads(u, blocks'[k], v.r) /\ Reads(data, blocks'[k], at)
    BY <1>7, <2>4, <2>6, Zenon DEF Reads
  <2>8. u \in Text /\ v.r \in Nat /\ at \in Nat
    BY <1>2, Zenon
  <2>9. u \o data \in Text /\ Len(u \o data) = Len(u) + Len(data) /\ Reads(u \o data, blocks'[k], v.r)
    BY <2>2, <2>7, <2>8, Extended, Zenon
  <2>10. Len(u \o data) = x.w - x.r
    <3>1. Len(u) \in Nat /\ Len(data) \in Nat
      BY <2>8, SMTT(30)
    <3> QED
      BY <1>7, <2>2, <2>8, <2>9, <3>1, SMTT(20)
  <2> QED
    BY <1>7, <2>9, <2>10, Zenon DEF Holds, Reads
<1>12. ASSUME ~spoiled'
       PROVE  /\ \A c \in Buffers \ {b} : Shows(blocks, blocks', buf[c])
              /\ \A i \in 1..Len(chain) : Shows(blocks, blocks', chain[i])
  <2>1. ~B!Overwrites(b, TRUE)
    BY <1>12, Zenon DEF B!write
  <2>2. Ahead(b)
    BY <1>2, <2>1, NotOverwritten, Zenon
  <2>3. Spares(blocks', b)
    BY <1>1, <1>5, <1>9, <2>2, Zenon DEF Spares
  <2> QED
    BY <1>2, <2>3, OthersShown, Zenon
<1> QED
  BY <1>2, <1>8, <1>9, <1>10, <1>11, <1>12, OthersKept, Zenon

\* compact() as part of write(), with the unread bytes of b found at the front.
LEMMA Packed ==
  ASSUME BufTypes, NEW b \in Buffers, Holds(blocks, buf[b], unread[b]), buf[b].block # 0
  PROVE  LET v == buf[b]  d == Len(unread[b]) IN
         /\ d \in Nat /\ B!compact(v) = [block |-> v.block, r |-> 0, w |-> d] /\ d = v.w - v.r
         /\ v.block \in 1..Len(blocks) /\ blocks[v.block] \in Text /\ d <= Len(blocks[v.block])
         /\ B!Moved(v) \in Text /\ Len(B!Moved(v)) = Len(blocks[v.block])
         /\ \A j \in 1..d : unread[b][j] = B!Moved(v)[j]
         /\ v.r = 0 => B!Moved(v) = blocks[v.block]
<1>1. PICK v, d : v = buf[b] /\ d = Len(unread[b])
  BY Zenon
<1>2. /\ v \in View /\ v.r \in Nat /\ v.w \in Nat /\ v.r <= v.w /\ Within(blocks, v) /\ unread[b] \in Text
      /\ v.block # 0 /\ v.block \in 1..Len(blocks) /\ blocks[v.block] \in Text /\ v.w <= Len(blocks[v.block])
  BY <1>1, ViewFields, Zenon
<1>3. d = v.w - v.r /\ \A j \in 1..d : unread[b][j] = blocks[v.block][v.r + j]
  BY <1>1, Zenon DEF Holds
<1>4. d \in Nat /\ d <= Len(blocks[v.block])
  BY <1>2, <1>3
<1>5. B!compact(v) = [block |-> v.block, r |-> 0, w |-> d]
  <2>1. B!compact(v) = [v EXCEPT !.r = 0, !.w = d]
    BY <1>3, Zenon DEF B!compact, B!readable
  <2> QED
    BY <1>2, <2>1, Zenon DEF View
<1>6. /\ B!Moved(v) \in Text /\ Len(B!Moved(v)) = Len(blocks[v.block])
      /\ \A j \in 1..d : B!Moved(v)[j] = blocks[v.block][v.r + j]
      /\ v.r = 0 => B!Moved(v) = blocks[v.block]
  BY <1>2, <1>3, Compacted, Zenon
<1>7. \A j \in 1..d : unread[b][j] = B!Moved(v)[j]
  BY <1>3, <1>6, Zenon
<1> QED
  BY <1>1, <1>2, <1>3, <1>4, <1>5, <1>6, <1>7, Zenon

\* A buffer whose unread bytes u begin the block and whose data follow.
LEMMA FrontHolds ==
  ASSUME NEW cs \in Memory, NEW k \in 1..Len(cs), NEW u \in Text, NEW data \in Text, NEW x,
         x \in View, x.block = k, x.r = 0, x.w = Len(u) + Len(data), Len(u) + Len(data) <= Len(cs[k]),
         Reads(u, cs[k], 0), Reads(data, cs[k], Len(u))
  PROVE  Within(cs, x) /\ u \o data \in Text /\ Holds(cs, x, u \o data)
<1>1. PICK d, z : d = Len(u) /\ z = 0
  BY Zenon
<1>2. d \in Nat /\ z \in Nat /\ d = z + Len(u) /\ Len(data) \in Nat
  BY <1>1
<1>3. Reads(u, cs[k], z) /\ Reads(data, cs[k], d)
  BY <1>1, Zenon
<1>4. u \o data \in Text /\ Len(u \o data) = Len(u) + Len(data) /\ Reads(u \o data, cs[k], z)
  BY <1>2, <1>3, Extended, Zenon
<1>5. Within(cs, x)
  BY <1>1, <1>2 DEF Within
<1>6. Len(u \o data) = x.w - x.r
  BY <1>1, <1>2, <1>4
<1> QED
  BY <1>1, <1>4, <1>5, <1>6, Zenon DEF Holds, Reads

\* The block has room once the unread bytes are at its front.
LEMMA WritePacked ==
  ASSUME BufInv, NEW b \in Buffers, NEW data \in Text, B!write(b, data),
         buf[b].block # 0, ~(B!writable(buf[b]) >= Len(data)),
         Len(blocks[buf[b].block]) - B!compact(buf[b]).w >= Len(data)
  PROVE  BufInv'
<1>1. PICK v, k, u, p, old, d : /\ v = buf[b] /\ k = buf[b].block /\ u = unread[b] /\ p = B!compact(buf[b])
                                /\ old = B!Moved(buf[b]) /\ d = Len(unread[b])
  BY Zenon
<1>2. /\ BufTypes /\ ~spoiled /\ ViewsHold /\ UNCHANGED <<chain, linked>> /\ spoiled' \in BOOLEAN
      /\ unread' = [unread EXCEPT ![b] = u \o data]
      /\ v.r \in Nat /\ v.w \in Nat /\ u \in Text /\ Holds(blocks, v, u) /\ blocks \in Memory
  BY <1>1, WriteFinds, Zenon
<1>3. /\ d \in Nat /\ p = [block |-> k, r |-> 0, w |-> d] /\ d = v.w - v.r /\ k # 0
      /\ k \in 1..Len(blocks) /\ blocks[k] \in Text
      /\ old \in Text /\ Len(old) = Len(blocks[k]) /\ \A j \in 1..d : u[j] = old[j]
  BY <1>1, <1>2, Packed, Zenon
<1>4. d + Len(data) <= Len(blocks[k]) /\ v.r > 0
  <2>1. p.w = d
    BY <1>3, Zenon
  <2>2. Len(blocks[k]) - d >= Len(data) /\ ~(Len(blocks[k]) - v.w >= Len(data))
    BY <1>1, <1>3, <2>1, Zenon DEF B!writable
  <2>3. Len(blocks[k]) \in Nat /\ Len(data) \in Nat
    BY <1>3, SMTT(30)
  <2>4. d \in Nat /\ d = v.w - v.r /\ v.r \in Nat /\ v.w \in Nat
    BY <1>2, <1>3, Zenon
  <2> QED
    BY <2>2, <2>3, <2>4, SMTT(30)
<1>5. PICK block : block = B!Copied(old, d, data)
  BY Zenon
<1>6. /\ block \in Text /\ Len(block) = Len(blocks[k])
      /\ \A j \in 1..Len(old) : j <= d => block[j] = old[j]
      /\ \A j \in 1..Len(data) : d + j <= Len(old) => block[d + j] = data[j]
  BY <1>3, <1>5, Copies DEF Text
<1>7. PICK x : x = [p EXCEPT !.w = d + Len(data)]
  BY Zenon
<1>8. x \in View /\ x.block = k /\ x.r = 0 /\ x.w = d + Len(data)
  <2>1. d + Len(data) \in Nat
    BY <1>3, SMTT(30)
  <2> QED
    BY <1>3, <1>7, <2>1, SMTT(30) DEF View, Text
<1>9. blocks' = Put(blocks, k, block) /\ buf' = [buf EXCEPT ![b] = x]
  <2>1. p.w = d
    BY <1>3, Zenon
  <2> QED
    BY <1>1, <1>5, <1>7, <2>1, Zenon DEF B!write, Put
<1>10. Grows(blocks, blocks') /\ Len(blocks') = Len(blocks) /\ blocks'[k] = block
       /\ \A l \in 1..Len(blocks) : l # k => blocks'[l] = blocks[l]
  <2>1. blocks \in Memory /\ k \in 1..Len(blocks) /\ block \in Text /\ Len(block) = Len(blocks[k])
    BY <1>2, <1>3, <1>6, Zenon
  <2> QED
    BY <1>9, <2>1, Rewritten, ZenonT(60)
<1>11. Within(blocks', x) /\ u \o data \in Text /\ Holds(blocks', x, u \o data)
  <2>1. blocks' \in Memory /\ k \in 1..Len(blocks')
    BY <1>3, <1>10, ZenonT(30) DEF Grows
  <2>2. d + Len(data) <= Len(blocks'[k]) /\ x.w = Len(u) + Len(data)
    BY <1>1, <1>4, <1>6, <1>8, <1>10, Zenon
  <2>3. \A j \in 1..d : j \in 1..Len(old) /\ j <= d
    <3>1. d <= Len(old) /\ Len(old) \in Nat
      BY <1>3, <1>4, SMTT(30)
    <3> QED
      BY <1>3, <3>1, SMTT(30)
  <2>4. \A j \in 1..d : u[j] = blocks'[k][j]
    BY <1>3, <1>6, <1>10, <2>3, ZenonT(30)
  <2>5. \A j \in 1..Len(data) : d + j <= Len(old)
    <3>1. d + Len(data) <= Len(old) /\ Len(old) \in Nat /\ Len(data) \in Nat
      BY <1>3, <1>4, SMTT(30)
    <3> QED
      BY <1>3, <3>1, SMTT(20)
  <2>6. \A j \in 1..Len(data) : data[j] = blocks'[k][d + j]
    BY <1>6, <1>10, <2>5, Zenon
  <2>7. d = Len(u)
    BY <1>1, Zenon
  <2>8. Reads(u, blocks'[k], 0) /\ Reads(data, blocks'[k], Len(u))
    <3>1. \A j \in 1..d : 0 + j = j
      BY <1>3
    <3> QED
      BY <2>4, <2>6, <2>7, <3>1, Zenon DEF Reads
  <2>9. u \in Text /\ Len(u) + Len(data) <= Len(blocks'[k])
    BY <1>2, <2>2, <2>7, Zenon
  <2> QED
    BY <1>8, <2>1, <2>2, <2>8, <2>9, FrontHolds, ZenonT(30)
<1>12. ASSUME ~spoiled'
       PROVE  /\ \A c \in Buffers \ {b} : Shows(blocks, blocks', buf[c])
              /\ \A i \in 1..Len(chain) : Shows(blocks, blocks', chain[i])
  <2>1. ~B!Overwrites(b, FALSE)
    BY <1>12, Zenon DEF B!write, B!Overwrites
  <2>2. buf[b].r # 0
    BY <1>1, <1>2, <1>4
  <2>3. Alone(b)
    BY <1>2, <2>1, <2>2, NotOverwritten, Zenon
  <2>4. Spares(blocks', b)
    BY <1>1, <1>10, <2>3, Zenon DEF Spares
  <2> QED
    BY <1>2, <2>4, OthersShown, Zenon
<1> QED
  BY <1>2, <1>9, <1>10, <1>11, <1>12, OthersKept, Zenon

\* A new block, of a size that the unread bytes and the data fit.
Carried(size, u, data) == B!Copied(B!Copied(B!Junk(size), 0, u), Len(u), data)
LEMMA NewHolds ==
  ASSUME Bytes # {}, NEW size \in Nat, NEW u \in Text, NEW data \in Text, Len(u) + Len(data) <= size
  PROVE  /\ Carried(size, u, data) \in Text /\ Len(Carried(size, u, data)) = size
         /\ \A j \in 1..Len(u) : u[j] = Carried(size, u, data)[j]
         /\ \A j \in 1..Len(data) : data[j] = Carried(size, u, data)[Len(u) + j]
<1>1. PICK new, junk, z, d, block : /\ junk = B!Junk(size) /\ z = 0 /\ new = B!Copied(B!Junk(size), 0, u)
                                    /\ d = Len(u) /\ block = Carried(size, u, data)
  BY Zenon
<1>2. /\ junk \in Text /\ Len(junk) = size /\ z \in Nat /\ new = B!Copied(junk, z, u)
      /\ Len(data) \in Nat /\ d \in Nat /\ d + Len(data) <= size
  BY <1>1, NewBlock
<1>3. /\ new \in Text /\ Len(new) = size
      /\ \A j \in 1..Len(u) : z + j <= Len(junk) => new[z + j] = u[j]
  <2>1. /\ B!Copied(junk, z, u) \in Text /\ Len(B!Copied(junk, z, u)) = Len(junk)
        /\ \A j \in 1..Len(u) : z + j <= Len(junk) => B!Copied(junk, z, u)[z + j] = u[j]
    <3>1. junk \in Text /\ z \in Nat
      BY <1>2, Zenon
    <3> QED
      BY <3>1, Copies, Zenon
  <2> QED
    BY <1>2, <2>1, Zenon
<1>4. block = B!Copied(new, d, data)
  BY <1>1, Zenon DEF Carried
<1>5. /\ block \in Text /\ Len(block) = size
      /\ \A j \in 1..Len(new) : j <= d => block[j] = new[j]
      /\ \A j \in 1..Len(data) : d + j <= Len(new) => block[d + j] = data[j]
  <2>1. /\ B!Copied(new, d, data) \in Text /\ Len(B!Copied(new, d, data)) = Len(new)
        /\ \A j \in 1..Len(new) : j <= d => B!Copied(new, d, data)[j] = new[j]
        /\ \A j \in 1..Len(data) : d + j <= Len(new) => B!Copied(new, d, data)[d + j] = data[j]
    <3>1. new \in Text /\ d \in Nat
      BY <1>2, <1>3, Zenon
    <3> QED
      BY <3>1, Copies, Zenon
  <2> QED
    BY <1>3, <1>4, <2>1, Zenon
<1>6. ASSUME NEW j \in 1..d PROVE u[j] = block[j]
  <2>1. d <= size
    BY <1>2
  <2>2. j \in 1..Len(u) /\ z + j = j /\ j <= Len(junk) /\ j \in 1..Len(new) /\ j <= d
    BY <1>1, <1>2, <1>3, <1>6, <2>1, SMTT(30)
  <2> QED
    BY <1>3, <1>5, <2>2, Zenon
<1>7. ASSUME NEW j \in 1..Len(data) PROVE data[j] = block[d + j]
  <2>1. d + j <= Len(new)
    BY <1>2, <1>3, <1>7
  <2> QED
    BY <1>5, <2>1, Zenon
<1> QED
  BY <1>1, <1>5, <1>6, <1>7, Zenon

LEMMA GrowsTwice ==
  ASSUME NEW bs, NEW cs, NEW ds, Grows(bs, cs), Grows(cs, ds)
  PROVE  Grows(bs, ds)
<1>1. Len(bs) \in Nat /\ Len(cs) \in Nat /\ Len(ds) \in Nat
  BY DEF Grows
<1>2. \A k \in 1..Len(bs) : k \in 1..Len(cs)
  BY <1>1 DEF Grows
<1> QED
  BY <1>1, <1>2 DEF Grows

\* The data go to a new block, after the unread bytes; mid are the blocks before it is added.
LEMMA Moves ==
  ASSUME BufInv, Bytes # {}, NEW b \in Buffers, NEW data \in Text, B!write(b, data), NEW mid, NEW size \in Nat,
         Grows(blocks, mid), Len(mid) = Len(blocks), Len(unread[b]) + Len(data) <= size,
         NEW block, block = Carried(size, unread[b], data), blocks' = Append(mid, block), NEW x,
         x \in View, x.block = Len(blocks) + 1, x.r = 0, x.w = Len(unread[b]) + Len(data),
         buf' = [buf EXCEPT ![b] = x],
         ~spoiled' => mid = blocks \/ Spares(mid, b)
  PROVE  BufInv'
<1>1. PICK u, d, k : u = unread[b] /\ d = Len(unread[b]) /\ k = Len(blocks) + 1
  BY Zenon
<1>2. /\ BufTypes /\ ~spoiled /\ ViewsHold /\ UNCHANGED <<chain, linked>> /\ spoiled' \in BOOLEAN
      /\ unread' = [unread EXCEPT ![b] = u \o data] /\ u \in Text /\ blocks \in Memory
  BY <1>1, WriteFinds, Zenon
<1>3. d \in Nat /\ d = Len(u) /\ Len(data) \in Nat /\ mid \in Memory /\ k \in Nat
  BY <1>1, <1>2 DEF Grows
<1>4. Len(u) + Len(data) <= size /\ block = Carried(size, u, data)
  BY <1>1, Zenon
<1>5. /\ block \in Text /\ Len(block) = size
      /\ \A j \in 1..Len(u) : u[j] = block[j]
      /\ \A j \in 1..Len(data) : data[j] = block[Len(u) + j]
  BY <1>2, <1>4, NewHolds, SMTT(20)
<1>6. /\ Grows(mid, blocks') /\ Len(blocks') = k /\ blocks'[k] = block
      /\ \A l \in 1..Len(mid) : blocks'[l] = mid[l]
  <2>1. /\ Grows(mid, Append(mid, block)) /\ Len(Append(mid, block)) = Len(mid) + 1
        /\ Append(mid, block)[Len(mid) + 1] = block
        /\ \A l \in 1..Len(mid) : Append(mid, block)[l] = mid[l]
    BY <1>3, <1>5, Added, Zenon
  <2> QED
    BY <1>1, <2>1, Zenon
<1>7. Grows(blocks, blocks') /\ blocks' \in Memory /\ k \in 1..Len(blocks')
  <2>1. Grows(blocks, blocks') /\ blocks' \in Memory
    BY <1>6, GrowsTwice, ZenonT(30) DEF Grows
  <2>2. k \in 1..Len(blocks')
    BY <1>1, <1>2, <1>6
  <2> QED
    BY <2>1, <2>2, Zenon
<1>8. Within(blocks', x) /\ u \o data \in Text /\ Holds(blocks', x, u \o data)
  <2>1. x \in View /\ x.block = k /\ x.r = 0 /\ x.w = Len(u) + Len(data) /\ Len(u) + Len(data) <= Len(blocks'[k])
    BY <1>1, <1>4, <1>5, <1>6, ZenonT(30)
  <2>2. (\A j \in 1..Len(u) : u[j] = blocks'[k][j]) /\ (\A j \in 1..Len(data) : data[j] = blocks'[k][Len(u) + j])
    BY <1>3, <1>5, <1>6, ZenonT(30)
  <2>3. \A j \in 1..Len(u) : 0 + j = j
    BY <1>3
  <2>4. Reads(u, blocks'[k], 0) /\ Reads(data, blocks'[k], Len(u))
    BY <2>2, <2>3, ZenonT(30) DEF Reads
  <2>5. u \in Text
    BY <1>2, Zenon
  <2> QED
    BY <1>7, <2>1, <2>4, <2>5, FrontHolds, ZenonT(30)
<1>9. ASSUME ~spoiled'
      PROVE  /\ \A c \in Buffers \ {b} : Shows(blocks, blocks', buf[c])
             /\ \A i \in 1..Len(chain) : Shows(blocks, blocks', chain[i])
  <2>1. /\ \A c \in Buffers \ {b} : Shows(blocks, mid, buf[c])
        /\ \A i \in 1..Len(chain) : Shows(blocks, mid, chain[i])
    <3>1. CASE mid = blocks
      BY <3>1, Zenon DEF Shows
    <3>2. CASE Spares(mid, b)
      BY <1>2, <3>2, OthersShown, Zenon
    <3> QED
      BY <1>9, <3>1, <3>2, Zenon
  <2>2. ASSUME NEW y, Within(blocks, y), Shows(blocks, mid, y) PROVE Shows(blocks, blocks', y)
    BY <1>6, <2>2 DEF Shows, Within
  <2> QED
    BY <1>2, <2>1, <2>2, Zenon DEF BufTypes
<1>10. unread' = [unread EXCEPT ![b] = u \o data]
  BY <1>2, Zenon
<1> QED
  BY <1>2, <1>7, <1>8, <1>9, <1>10, OthersKept, Zenon

\* ensure_writable() allocates the first block.
LEMMA WriteFirst ==
  ASSUME BufInv, Bytes # {}, BlockSize \in Nat, NEW b \in Buffers, NEW data \in Text, B!write(b, data),
         buf[b].block = 0
  PROVE  BufInv'
<1>1. PICK v, u, size, p, n : /\ v = buf[b] /\ u = unread[b] /\ size = B!Most(Len(data), BlockSize)
                              /\ p = B!compact(buf[b]) /\ n = Len(data)
  BY Zenon
<1>2. BufTypes /\ v \in View /\ u \in Text /\ Holds(blocks, v, u) /\ blocks \in Memory
  BY <1>1, WriteFinds, Zenon
<1>3. v.block = 0 /\ v.r = 0 /\ v.w = 0 /\ Len(u) = 0
  BY <1>1, <1>2, ViewFields, SMTT(30) DEF Holds
<1>4. u = <<>> /\ n \in Nat
  BY <1>1, <1>2, <1>3
<1>5. p = [block |-> 0, r |-> 0, w |-> 0]
  <2>1. p = [v EXCEPT !.r = 0, !.w = 0]
    BY <1>1, <1>3 DEF B!compact, B!readable
  <2> QED
    BY <1>2, <1>3, <2>1, Zenon DEF View
<1>6. size \in Nat /\ Len(unread[b]) + n <= size
  BY <1>1, <1>3, <1>4 DEF B!Most
<1>7. PICK x : x = [[p EXCEPT !.block = Len(blocks) + 1] EXCEPT !.w = @ + n]
  BY Zenon
<1>8. x \in View /\ x.block = Len(blocks) + 1 /\ x.r = 0 /\ x.w = n
  <2>1. Len(blocks) + 1 \in Nat /\ p.w + n = n /\ p.w = 0
    BY <1>2, <1>4, <1>5
  <2>2. x = [block |-> Len(blocks) + 1, r |-> 0, w |-> n]
    BY <1>5, <1>7, <2>1, Zenon
  <2> QED
    BY <1>4, <2>1, <2>2, Zenon DEF View
<1>9. PICK block : block = Carried(size, unread[b], data)
  BY Zenon
<1>10. block = B!Copied(B!Copied(B!Junk(size), 0, <<>>), p.w, data)
  <2>1. p.w = Len(u)
    BY <1>3, <1>5, Zenon
  <2> QED
    BY <1>1, <1>4, <1>9, <2>1, Zenon DEF Carried
<1>11. buf' = [buf EXCEPT ![b] = x] /\ blocks' = Append(blocks, block)
  BY <1>1, <1>7, <1>10, Zenon DEF B!write
<1>12. Grows(blocks, blocks) /\ Len(blocks) = Len(blocks) /\ x.w = Len(unread[b]) + Len(data)
  BY <1>1, <1>2, <1>3, <1>4, <1>8 DEF Grows
<1>13. Len(unread[b]) + Len(data) <= size
  BY <1>1, <1>6, Zenon
<1> QED
  BY <1>6, <1>8, <1>9, <1>11, <1>12, <1>13, Moves, Zenon

\* ensure_writable() compacts and then allocates a larger block.
LEMMA WriteGrown ==
  ASSUME BufInv, Bytes # {}, NEW b \in Buffers, NEW data \in Text, B!write(b, data),
         buf[b].block # 0, ~(B!writable(buf[b]) >= Len(data)),
         ~(Len(blocks[buf[b].block]) - B!compact(buf[b]).w >= Len(data))
  PROVE  BufInv'
<1>1. PICK v, k, u, p, old, d, size :
          /\ v = buf[b] /\ k = buf[b].block /\ u = unread[b] /\ p = B!compact(buf[b])
          /\ old = B!Moved(buf[b]) /\ d = Len(unread[b]) /\ size = B!Grown(B!compact(buf[b]), Len(data))
  BY Zenon
<1>2. /\ BufTypes /\ u \in Text /\ Holds(blocks, v, u) /\ blocks \in Memory /\ v.block = k /\ k # 0
  BY <1>1, WriteFinds, Zenon
<1>3. /\ d \in Nat /\ p = [block |-> k, r |-> 0, w |-> d]
      /\ k \in 1..Len(blocks) /\ blocks[k] \in Text /\ d <= Len(blocks[k])
      /\ old \in Text /\ Len(old) = Len(blocks[k]) /\ (\A j \in 1..d : u[j] = old[j])
      /\ v.r = 0 => old = blocks[k]
  BY <1>1, <1>2, Packed, Zenon
<1>4. p.block = k /\ p.w = d
  BY <1>3, Zenon
<1>5. size \in Nat /\ d + Len(data) <= size
  <2>1. size = B!Most(2 * Len(blocks[k]), d + Len(data))
    BY <1>1, <1>4, Zenon DEF B!Grown
  <2>2. Len(blocks[k]) \in Nat /\ Len(data) \in Nat
    BY <1>3
  <2> QED
    BY <1>3, <2>1, <2>2, SMTT(30) DEF B!Most
<1>6. SubSeq(old, 1, d) = u
  <2>1. PICK z : z = 0
    BY Zenon
  <2>2. PICK q : q = SubSeq(old, z + 1, d)
    BY Zenon
  <2>3. z \in Nat /\ z <= d /\ d <= Len(old) /\ old \in Text /\ d \in Nat
    BY <1>3, <2>1
  <2>4. q \in Text /\ Len(q) = d - z /\ \A j \in 1..(d - z) : q[j] = old[z + j]
    BY <2>2, <2>3, Part, Zenon
  <2>5. d - z = d /\ z + 1 = 1 /\ \A j \in 1..d : z + j = j
    BY <1>3, <2>1, SMTT(30)
  <2>6. Len(q) = Len(u) /\ \A j \in 1..Len(q) : q[j] = u[j]
    BY <1>1, <1>3, <2>4, <2>5, ZenonT(60)
  <2>7. q = u
    BY <1>2, <2>4, <2>6, SameSeq, Zenon
  <2> QED
    BY <2>2, <2>5, <2>7, Zenon
<1>7. PICK x : x = [[p EXCEPT !.block = Len(blocks) + 1] EXCEPT !.w = @ + Len(data)]
  BY Zenon
<1>8. x \in View /\ x.block = Len(blocks) + 1 /\ x.r = 0 /\ x.w = d + Len(data)
  <2>1. d + Len(data) \in Nat /\ Len(blocks) + 1 \in Nat
    BY <1>2, <1>3
  <2> QED
    BY <1>3, <1>7, <2>1, Zenon DEF View
<1>9. PICK block, mid : block = Carried(size, unread[b], data) /\ mid = Put(blocks, k, old)
  BY Zenon
<1>10. block = B!Copied(B!Copied(B!Junk(size), 0, SubSeq(old, 1, p.w)), p.w, data)
  BY <1>1, <1>4, <1>6, <1>9, Zenon DEF Carried
<1>11. buf' = [buf EXCEPT ![b] = x] /\ blocks' = Append(mid, block)
  BY <1>1, <1>2, <1>7, <1>9, <1>10, Zenon DEF B!write, Put
<1>12. /\ Grows(blocks, mid) /\ Len(mid) = Len(blocks) /\ mid[k] = old
       /\ \A l \in 1..Len(blocks) : l # k => mid[l] = blocks[l]
  <2>1. /\ Grows(blocks, Put(blocks, k, old)) /\ Len(Put(blocks, k, old)) = Len(blocks)
        /\ Put(blocks, k, old)[k] = old
        /\ \A l \in 1..Len(blocks) : l # k => Put(blocks, k, old)[l] = blocks[l]
    <3>1. blocks \in Memory /\ k \in 1..Len(blocks) /\ old \in Text /\ Len(old) = Len(blocks[k])
      BY <1>2, <1>3, Zenon
    <3> QED
      BY <3>1, Rewritten, ZenonT(60)
  <2> QED
    BY <1>9, <2>1, Zenon
<1>13. ASSUME ~spoiled' PROVE Spares(mid, b)
  <2>1. ~B!Overwrites(b, FALSE)
    BY <1>13, Zenon DEF B!write, B!Overwrites
  <2>2. Alone(b) \/ buf[b].r = 0
    BY <1>2, <2>1, NotOverwritten, ZenonT(30)
  <2>3. Alone(b) \/ mid[k] = blocks[k]
    BY <1>1, <1>3, <1>12, <2>2, Zenon
  <2> QED
    BY <1>1, <1>12, <2>3, Zenon DEF Spares
<1>14. x.w = Len(unread[b]) + Len(data) /\ Len(unread[b]) + Len(data) <= size
  BY <1>1, <1>5, <1>8, Zenon
<1> QED
  BY <1>5, <1>8, <1>9, <1>11, <1>12, <1>13, <1>14, Moves, Zenon

LEMMA WriteStep ==
  ASSUME BufInv, B!BufferAssumption, NEW b \in Buffers, NEW data \in Text, B!write(b, data)
  PROVE  BufInv'
<1>1. Bytes # {} /\ BlockSize \in Nat
  BY Zenon DEF B!BufferAssumption
<1> QED
  BY <1>1, WriteFirst, WriteInPlace, WritePacked, WriteGrown, Zenon

\* No step takes a block away, so that the pointers of async_read() stay within the memory.
LEMMA ReadsKept ==
  ASSUME BufInv, ReadsInv, Len(blocks) <= Len(blocks'), reads' \subseteq reads
  PROVE  ReadsInv'
<1>1. Len(blocks) \in Nat
  BY DEF BufInv, BufTypes, Memory
<1> QED
  BY <1>1 DEF ReadsInv

LEMMA MemoryKept ==
  ASSUME NEW bs \in Memory
  PROVE  /\ \A k, block : Len([bs EXCEPT ![k] = block]) = Len(bs)
         /\ \A block : Len(bs) <= Len(Append(bs, block))
         /\ \A k, block, added : Len(bs) <= Len(Append([bs EXCEPT ![k] = block], added))
<1>1. \A k, block : Len([bs EXCEPT ![k] = block]) = Len(bs)
  BY DEF Memory
<1>2. \A block : Len(bs) <= Len(Append(bs, block))
  BY DEF Memory
<1>3. \A k, block, added : Len(bs) <= Len(Append([bs EXCEPT ![k] = block], added))
  BY DEF Memory
<1> QED
  BY <1>1, <1>2, <1>3, Zenon

LEMMA ReadsNext ==
  ASSUME BufInv, ReadsInv, [B!Next]_B!vars
  PROVE  ReadsInv'
<1>1. blocks \in Memory
  BY Zenon DEF BufInv, BufTypes
<1>2. Len(blocks) \in Nat
  BY <1>1 DEF Memory
<1>3. blocks' = blocks => Len(blocks) <= Len(blocks')
  BY <1>2
<1>4. ASSUME NEW b \in Buffers, B!async_read(b) PROVE ReadsInv'
  <2>1. PICK k, w : k = buf[b].block /\ w = buf[b].w
    BY Zenon
  <2>2. k # 0
    BY <1>4, <2>1, SMTT(30) DEF B!async_read, B!writable
  <2>3. k \in 1..Len(blocks) /\ w \in Nat
    BY <2>1, <2>2, ViewFields, Zenon DEF BufInv
  <2>4. PICK q : q = [block |-> k, at |-> w, size |-> B!writable(buf[b])]
    BY Zenon
  <2>5. q.block = k /\ q.at = w
    BY <2>4, Zenon
  <2>6. (\A p \in reads' : p \in reads \/ p = q) /\ blocks' = blocks
    BY <1>4, <2>1, <2>4, Zenon DEF B!async_read
  <2> QED
    BY <2>3, <2>5, <2>6, Zenon DEF ReadsInv
<1>5. ASSUME NEW b \in Buffers, NEW data, B!write(b, data) PROVE ReadsInv'
  <2>1. Len(blocks) <= Len(blocks')
    BY <1>1, <1>2, <1>5, MemoryKept, SMTT(30) DEF B!write
  <2> QED
    BY <1>5, <2>1, ReadsKept, Zenon DEF B!write
<1>6. ASSUME NEW p \in reads, B!ReadFails(p) PROVE ReadsInv'
  BY <1>3, <1>6, ReadsKept, Zenon DEF B!ReadFails
<1>7. ASSUME NEW p \in reads, NEW data, B!ReadCompletes(p, data) PROVE ReadsInv'
  <2>1. Len(blocks) <= Len(blocks')
    BY <1>1, <1>2, <1>7, MemoryKept, SMTT(30) DEF B!ReadCompletes
  <2> QED
    BY <1>7, <2>1, ReadsKept, Zenon DEF B!ReadCompletes
<1>8. ASSUME NEW b \in Buffers, B!clear(b) \/ B!append(b) \/ (\E n : B!read(b, n) \/ B!retreat(b, n)) \/ (\E c : B!Assign(b, c))
      PROVE  ReadsInv'
  BY <1>3, <1>8, ReadsKept, Zenon DEF B!clear, B!append, B!read, B!retreat, B!Assign
<1>9. ASSUME NEW b \in Buffers, B!Compact(b) PROVE ReadsInv'
  <2>1. Len(blocks) <= Len(blocks')
    BY <1>1, <1>2, <1>9, MemoryKept, SMTT(30) DEF B!Compact
  <2> QED
    BY <1>9, <2>1, ReadsKept, Zenon DEF B!Compact
<1>10. ASSUME NEW b \in Buffers, NEW n, B!Construct(b, n) PROVE ReadsInv'
  BY <1>1, <1>10, MemoryKept, ReadsKept, Zenon DEF B!Construct
<1>11. ASSUME B!clearChain \/ UNCHANGED B!vars PROVE ReadsInv'
  BY <1>3, <1>11, ReadsKept, Zenon DEF B!clearChain, B!vars
<1> QED
  BY <1>4, <1>5, <1>6, <1>7, <1>8, <1>9, <1>10, <1>11, Zenon DEF B!Next

LEMMA BufNext ==
  ASSUME B!BufferAssumption, BufInv, ReadsInv, [B!Next]_B!vars
  PROVE  BufInv'
<1>1. MaxSize \in Nat /\ Bytes # {} /\ Capacities \subseteq Nat
  BY Zenon DEF B!BufferAssumption
<1>2. ASSUME NEW b \in Buffers, B!clear(b) \/ B!Compact(b) \/ B!append(b) PROVE BufInv'
  BY <1>2, ClearStep, CompactStep, AppendStep, Zenon
<1>3. ASSUME NEW data \in B!Data,
             (\E b \in Buffers : B!write(b, data)) \/ (\E p \in reads : B!ReadCompletes(p, data))
      PROVE  BufInv'
  <2>1. PICK n \in 1..MaxSize : data \in [1..n -> Bytes]
    BY Zenon DEF B!Data
  <2>2. data \in Text
    BY <1>1, <2>1 DEF Text
  <2> QED
    BY <1>3, <2>2, WriteStep, ReadCompletesStep, Zenon
<1>4. ASSUME NEW b \in Buffers, NEW n \in 1..MaxSize, B!read(b, n) \/ B!retreat(b, n) PROVE BufInv'
  <2>1. n \in Nat
    BY <1>1
  <2> QED
    BY <1>4, <2>1, ReadStep, RetreatStep, Zenon
<1>5. ASSUME NEW b \in Buffers, NEW n \in Capacities, B!Construct(b, n) PROVE BufInv'
  BY <1>1, <1>5, ConstructStep, Zenon
<1>6. ASSUME NEW b \in Buffers, NEW c \in Buffers, B!Assign(b, c) PROVE BufInv'
  BY <1>6, AssignStep, Zenon
<1>7. ASSUME B!clearChain PROVE BufInv'
  BY <1>7, ClearChainStep, Zenon
<1>8. ASSUME (\E b \in Buffers : B!async_read(b)) \/ (\E p \in reads : B!ReadFails(p)) \/ UNCHANGED B!vars
      PROVE  BufInv'
  <2>1. UNCHANGED <<blocks, buf, chain, unread, linked, spoiled>>
    BY <1>8, Zenon DEF B!async_read, B!ReadFails, B!vars
  <2> QED
    BY <2>1, Zenon DEF BufInv, BufTypes, ViewsHold
<1> QED
  BY <1>2, <1>3, <1>4, <1>5, <1>6, <1>7, <1>8, Zenon DEF B!Next

LEMMA BufInit ==
  ASSUME B!Init
  PROVE  BufInv /\ ReadsInv
<1>1. /\ blocks = <<>> /\ chain = <<>> /\ linked = <<>> /\ buf = [b \in Buffers |-> B!Fresh]
      /\ unread = [b \in Buffers |-> <<>>] /\ spoiled = FALSE
  BY Zenon DEF B!Init
<1>2. /\ blocks \in Memory /\ chain \in Seq(View) /\ linked \in Memory
      /\ Len(chain) = 0 /\ Len(linked) = 0
  BY <1>1 DEF Memory
<1>3. \A b \in Buffers : buf[b] \in View /\ buf[b].block = 0 /\ buf[b].r = 0 /\ buf[b].w = 0
  BY <1>1, Zenon DEF B!Fresh, View
<1>4. \A b \in Buffers : unread[b] \in Text /\ Len(unread[b]) = 0
  <2>1. PICK none : none = <<>>
    BY Zenon
  <2>2. none \in Text /\ Len(none) = 0
    BY <2>1 DEF Text
  <2> QED
    BY <1>1, <2>1, <2>2, Zenon
<1>5. buf \in [Buffers -> View] /\ unread \in [Buffers -> Text]
  BY <1>1, <1>3, <1>4, Zenon
<1>6. ASSUME NEW b \in Buffers PROVE Within(blocks, buf[b]) /\ Holds(blocks, buf[b], unread[b])
  <2>1. PICK v, u : v = buf[b] /\ u = unread[b]
    BY Zenon
  <2>2. v \in View /\ v.block = 0 /\ v.r = 0 /\ v.w = 0 /\ Len(u) = 0 /\ Len(blocks) \in Nat
    BY <1>2, <1>3, <1>4, <2>1 DEF Memory
  <2>3. Within(blocks, v) /\ Holds(blocks, v, u)
    BY <2>2 DEF Within, Holds
  <2> QED
    BY <2>1, <2>3, Zenon
<1>7. \A i \in 1..Len(chain) : FALSE
  BY <1>2
<1>8. BufTypes
  BY <1>1, <1>2, <1>5, <1>6, <1>7, Zenon DEF BufTypes
<1>9. ViewsHold
  BY <1>6, <1>7, Zenon DEF ViewsHold
<1>10. ReadsInv
  BY Zenon DEF B!Init, ReadsInv
<1> QED
  BY <1>8, <1>9, <1>10, Zenon DEF BufInv

\* as_string() gives the bytes between the two positions.
LEMMA AsString ==
  ASSUME BufTypes, NEW v, NEW u \in Text, Within(blocks, v), Holds(blocks, v, u), v.block # 0
  PROVE  B!as_string(v) = u
<1>1. PICK block, lo, hi : block = blocks[v.block] /\ lo = v.r /\ hi = v.w
  BY Zenon
<1>2. block \in Text /\ lo \in Nat /\ hi \in Nat /\ lo <= hi /\ hi <= Len(block)
  BY <1>1, SMTT(30) DEF BufTypes, Within, View, Memory
<1>3. PICK q : q = SubSeq(block, lo + 1, hi)
  BY Zenon
<1>4. q \in Text /\ Len(q) = hi - lo /\ \A j \in 1..(hi - lo) : q[j] = block[lo + j]
  BY <1>2, <1>3, Part, ZenonT(30)
<1>5. Len(u) = hi - lo /\ \A j \in 1..Len(u) : u[j] = block[lo + j]
  BY <1>1, Zenon DEF Holds
<1>6. q = u
  BY <1>4, <1>5, SameSeq, Zenon
<1> QED
  BY <1>1, <1>3, <1>6, Zenon DEF B!as_string

LEMMA BufSound ==
  ASSUME BufInv
  PROVE  B!TypeOK /\ B!HoldsUnread
<1>1. B!TypeOK
  <2>1. \A i \in DOMAIN blocks : blocks[i] \in Text
    BY DEF BufInv, BufTypes, Memory
  <2>2. ASSUME NEW b \in Buffers
        PROVE  /\ buf[b].block \in 0..Len(blocks) /\ 0 <= buf[b].r /\ buf[b].r <= buf[b].w
               /\ buf[b].w <= IF buf[b].block = 0 THEN 0 ELSE Len(blocks[buf[b].block])
    BY SMTT(30) DEF BufInv, BufTypes, Within, View
  <2> QED
    BY <2>1, <2>2, Zenon DEF B!TypeOK, Text
<1>2. ASSUME ~spoiled, NEW b \in Buffers
      PROVE  IF buf[b].block = 0 THEN unread[b] = <<>> ELSE B!as_string(buf[b]) = unread[b]
  <2>1. BufTypes /\ unread[b] \in Text /\ Within(blocks, buf[b]) /\ Holds(blocks, buf[b], unread[b])
    BY <1>2, Zenon DEF BufInv, BufTypes, ViewsHold
  <2>2. CASE buf[b].block = 0
    <3>1. Len(unread[b]) = 0
      BY <2>1, <2>2 DEF Within, Holds, View
    <3>2. unread[b] = <<>>
      BY <2>1, <3>1 DEF Text
    <3> QED
      BY <2>2, <3>2, Zenon
  <2>3. CASE buf[b].block # 0
    BY <2>1, <2>3, AsString, Zenon
  <2> QED
    BY <2>2, <2>3, Zenon
<1>3. ASSUME ~spoiled, \A i \in DOMAIN chain : chain[i].block # 0 PROVE B!to_string = B!Flat(linked)
  <2>1. PICK shown : shown = [i \in DOMAIN chain |-> B!as_string(chain[i])]
    BY Zenon
  <2>2. DOMAIN chain = 1..Len(chain) /\ linked \in [1..Len(chain) -> Text]
    BY DEF BufInv, BufTypes, Memory
  <2>3. ASSUME NEW i \in 1..Len(chain) PROVE B!as_string(chain[i]) = linked[i]
    <3>1. BufTypes /\ linked[i] \in Text /\ Within(blocks, chain[i]) /\ chain[i].block # 0
      BY <1>3, <2>2, Zenon DEF BufInv, BufTypes
    <3>2. Holds(blocks, chain[i], linked[i])
      BY <1>3, Zenon DEF BufInv, ViewsHold
    <3> QED
      BY <3>1, <3>2, AsString, Zenon
  <2>4. shown = linked
    BY <2>1, <2>2, <2>3, Zenon
  <2> QED
    BY <2>1, <2>4, Zenon DEF B!to_string
<1> QED
  BY <1>1, <1>2, <1>3, Zenon DEF B!HoldsUnread

\* For every set of buffers, alphabet and sizes: the positions of a buffer stay within its
\* block, and a buffer or a chain gives out exactly what was written and not read, as long as
\* no holder of a shared block compacts it or writes below another holder's end, and no
\* async_read() under way completes below one or on a block that is gone (net/buffer.hpp,
\* net/connection.hpp).
THEOREM BufferHoldsUnread == B!Spec => []HoldsUnread
<1>1. B!Init => BufInv /\ ReadsInv
  BY BufInit, BuffersAssumption, Zenon
<1>2. BufInv /\ ReadsInv /\ [B!Next]_B!vars => BufInv' /\ ReadsInv'
  BY BufNext, ReadsNext, BuffersAssumption, Zenon
<1>3. BufInv => HoldsUnread
  BY BufSound, BuffersAssumption, ZenonT(30) DEF HoldsUnread
<1> QED
  BY <1>1, <1>2, <1>3, PTL DEF B!Spec

-----------------------------------------------------------------------------
(***************************************************************************)
(* Generator.  What is yielded is what was read, and the value at hand if  *)
(* the innermost loop is about to read it.  A body is done only after a    *)
(* loop has come to its end, and holds an exception only if it is done.    *)
(***************************************************************************)
GenTypes ==
  /\ body \in {"created", "suspended", "done"} /\ current_value \in Values \cup {None}
  /\ exception \in BOOLEAN /\ reading \in BOOLEAN
  /\ begins \in 0..MaxLoops /\ depth \in 0..begins
GenInv ==
  /\ GenTypes
  /\ yielded = IF reading THEN Append(seen, current_value) ELSE seen
  /\ body = "done" => finished
  /\ body # "done" => ~exception
  /\ undefined => finished
  /\ ~caught

LEMMA GeneratorResumed ==
  ASSUME GenInv, ~reading, body # "done", G!resume
  PROVE  /\ body' \in {"suspended", "done"} /\ exception' \in BOOLEAN
         /\ current_value' \in Values \cup {None}
         /\ body' = "done" => yielded' = seen
         /\ body' # "done" => yielded' = Append(seen, current_value') /\ ~exception'
<1>1. yielded = seen
  BY Zenon DEF GenInv
<1>2. CASE body' = "done" /\ exception' \in BOOLEAN /\ UNCHANGED <<current_value, yielded>>
  BY <1>1, <1>2, Zenon DEF GenInv, GenTypes
<1>3. ASSUME NEW v \in Values, current_value' = v, yielded' = Append(yielded, v), body' = "suspended",
             UNCHANGED exception
      PROVE  /\ body' = "suspended" /\ exception' \in BOOLEAN /\ ~exception' /\ current_value' \in Values
             /\ yielded' = Append(seen, current_value')
  BY <1>1, <1>3, Zenon DEF GenInv, GenTypes
<1> QED
  BY <1>2, <1>3, Zenon DEF G!resume

\* A loop, the d-th, that begins or goes on.
LEMMA GeneratorLoops ==
  ASSUME GenInv, ~reading, body # "done", G!resume, NEW d \in Nat, d > 0, G!LoopAt(d),
         begins' \in 0..MaxLoops, d <= begins', seen' = seen, undefined' = undefined, ~caught'
  PROVE  GenInv'
<1>1. /\ depth' = IF body' = "done" THEN d - 1 ELSE d
      /\ reading' = (body' # "done") /\ finished' = (finished \/ body' = "done")
  BY Zenon DEF G!LoopAt
<1>2. /\ body' \in {"suspended", "done"} /\ exception' \in BOOLEAN
      /\ current_value' \in Values \cup {None}
      /\ body' = "done" => yielded' = seen
      /\ body' # "done" => yielded' = Append(seen, current_value') /\ ~exception'
  BY GeneratorResumed, Zenon
<1>3. depth' \in 0..begins'
  BY <1>1
<1>4. GenTypes'
  BY <1>1, <1>2, <1>3, Zenon DEF GenTypes
<1> QED
  BY <1>1, <1>2, <1>4, Zenon DEF GenInv

LEMMA GenNext == GenInv /\ [G!Next]_(G!vars) => GenInv'
<1> SUFFICES ASSUME GenInv, [G!Next]_(G!vars) PROVE GenInv'
  BY Zenon
<1>1. begins \in Nat /\ depth \in Nat /\ depth <= begins
  BY DEF GenInv, GenTypes
<1>2. ASSUME body = "done", G!ResumeDone, seen' = seen, begins' \in 0..MaxLoops, depth \in 0..begins' PROVE GenInv'
  BY <1>2, Zenon DEF G!ResumeDone, GenInv, GenTypes
<1>3. CASE G!begin
  <2>1. /\ ~reading /\ begins < MaxLoops /\ begins' = begins + 1 /\ seen' = seen
        /\ \/ body = "done" /\ G!ResumeDone
           \/ /\ body # "done" /\ G!resume /\ G!LoopAt(depth + 1) /\ undefined' = undefined
              /\ caught' = (caught \/ (body' # "done" /\ exception'))
    BY <1>3, Zenon DEF G!begin
  <2>2. begins' \in 0..MaxLoops /\ depth \in 0..begins' /\ depth + 1 \in Nat /\ depth + 1 > 0 /\ depth + 1 <= begins'
    BY <1>1, <2>1, ValuesAssumption DEF G!GeneratorAssumption
  <2>3. CASE body = "done" /\ G!ResumeDone
    BY <1>2, <2>1, <2>2, <2>3, Zenon
  <2>4. CASE /\ body # "done" /\ G!resume /\ G!LoopAt(depth + 1) /\ undefined' = undefined
             /\ caught' = (caught \/ (body' # "done" /\ exception'))
    <3>1. body' # "done" => ~exception'
      BY <2>1, <2>4, GeneratorResumed, Zenon
    <3>2. ~caught'
      BY <2>4, <3>1, Zenon DEF GenInv
    <3> QED
      BY <2>1, <2>2, <2>4, <3>2, GeneratorLoops, Zenon
  <2> QED
    BY <2>1, <2>3, <2>4, Zenon
<1>4. CASE G!increment
  <2>1. /\ ~reading /\ depth > 0 /\ begins' = begins /\ seen' = seen
        /\ \/ body = "done" /\ G!ResumeDone
           \/ body # "done" /\ G!resume /\ G!LoopAt(depth) /\ undefined' = undefined /\ caught' = caught
    BY <1>4, Zenon DEF G!increment
  <2>2. CASE body = "done" /\ G!ResumeDone
    BY <1>2, <2>1, <2>2, Zenon DEF GenInv, GenTypes
  <2>3. CASE body # "done" /\ G!resume /\ G!LoopAt(depth) /\ undefined' = undefined /\ caught' = caught
    BY <1>1, <2>1, <2>3, GeneratorLoops, Zenon DEF GenInv, GenTypes
  <2> QED
    BY <2>1, <2>2, <2>3, Zenon
<1>5. CASE G!dereference
  BY <1>5, Zenon DEF G!dereference, GenInv, GenTypes
<1>6. CASE G!leave
  <2>1. /\ depth' = depth - 1 /\ depth > 0
        /\ UNCHANGED <<body, current_value, exception, reading, yielded, seen, begins, finished, caught, undefined>>
    BY <1>6, Zenon DEF G!leave
  <2>2. depth' \in 0..begins
    BY <1>1, <2>1
  <2> QED
    BY <2>1, <2>2, Zenon DEF GenInv, GenTypes
<1>7. CASE UNCHANGED G!vars
  BY <1>7, Zenon DEF G!vars, GenInv, GenTypes
<1> QED
  BY <1>3, <1>4, <1>5, <1>6, <1>7, Zenon DEF G!Next

\* The range-for loops over a Generator, any number of them, left early, taken up again or
\* nested: together they read every value its body yields, once and in order; a body that
\* is done is resumed only after a loop has come to the end; and no loop learns that the
\* body has thrown, neither from begin() nor from operator++.
THEOREM GeneratorSeesAll == G!Spec => []SeesAll
<1>1. G!Init => GenInv
  <2> SUFFICES ASSUME G!Init PROVE GenInv
    BY Zenon
  <2>1. begins \in 0..MaxLoops /\ depth \in 0..begins
    BY ValuesAssumption DEF G!Init, G!GeneratorAssumption
  <2> QED
    BY <2>1, Zenon DEF G!Init, GenInv, GenTypes
<1>2. GenInv => SeesAll
  <2> SUFFICES ASSUME GenInv PROVE SeesAll
    BY Zenon
  <2>1. depth \in 0..MaxLoops
    BY ValuesAssumption DEF GenInv, GenTypes, G!GeneratorAssumption
  <2> QED
    BY <2>1, Zenon DEF GenInv, GenTypes, G!TypeOK, G!SeesAll, SeesAll
<1> QED
  BY <1>1, <1>2, GenNext, PTL DEF G!Spec

-----------------------------------------------------------------------------
(***************************************************************************)
(* IdlParser.  What a document defines is stated by counting its headers   *)
(* and by the last header before a line; the invariant says what one more  *)
(* line adds to each.                                                      *)
(***************************************************************************)
Document == Seq(I!Lines)

\* Of a document s: the lines that begin a block, their number, the lines that begin or end
\* one, the last of these before line i, and the members of the block that begins at line i.
Heads(s) == {i \in DOMAIN s : s[i] \in I!Headers}
UpTo(s, i) == {j \in Heads(s) : j <= i}
Marks(s, i) == {j \in 1..(i - 1) : s[j] \in I!Headers \cup {"quoted"}}
Last(S) == IF S = {} THEN 0 ELSE CHOOSE j \in S : \A k \in S : k <= j
LastMark(s, i) == Last(Marks(s, i))
Members(s, i) == {k \in DOMAIN s : s[k] = I!Member(s[i]) /\ LastMark(s, k) = i}
Nth(s, n) == CHOOSE i \in Heads(s) : I!Cardinality(UpTo(s, i)) = n
Block(s, i) == [kind |-> s[i], members |-> [m \in 1..I!Cardinality(Members(s, i)) |-> I!Member(s[i])]]
Blocks(s) == [n \in 1..I!Cardinality(Heads(s)) |-> Block(s, Nth(s, n))]

Good(s) ==
  \A i \in DOMAIN s :
    LET j == LastMark(s, i)
        open == j # 0 /\ s[j] \in I!Headers
    IN /\ s[i] \in I!Headers \cup {"namespace"} => ~open
       /\ s[i] = "quoted" => open
       /\ s[i] \in {"field", "method"} => open /\ s[i] = I!Member(s[j])
       /\ s[i] \in I!Headers \cup {"namespace", "blank", "field", "method", "quoted"}

LEMMA DefinedIs == I!Defined("quoted") = Blocks(lines) /\ I!WellFormed("quoted") = Good(lines)
BY Zenon DEF I!Defined, I!WellFormed, Good, Blocks, Block, Nth, Members, Heads, UpTo, I!Before, LastMark, Last, Marks

LEMMA DefinedNext == I!Defined("quoted")' = Blocks(lines') /\ I!WellFormed("quoted")' = Good(lines')
BY Zenon DEF I!Defined, I!WellFormed, Good, Blocks, Block, Nth, Members, Heads, UpTo, I!Before, LastMark, Last, Marks,
     I!Headers, I!Member, I!Cardinality

-----------------------------------------------------------------------------
\* A document and the next line.
Follows(s, l, t) == s \in Document /\ l \in I!Lines /\ t = Append(s, l)

LEMMA OneMore ==
  ASSUME NEW s, NEW l, NEW t, Follows(s, l, t)
  PROVE  /\ s \in Document /\ l \in I!Lines /\ t \in Document
         /\ Len(s) \in Nat /\ Len(t) = Len(s) + 1 /\ t[Len(s) + 1] = l
         /\ DOMAIN s = 1..Len(s) /\ DOMAIN t = 1..(Len(s) + 1)
         /\ \A i \in 1..Len(s) : t[i] = s[i] /\ i # Len(s) + 1 /\ i < Len(s) + 1
         /\ \A i : i \in 1..Len(t) <=> i \in 1..Len(s) \/ i = Len(s) + 1
BY DEF Document, Follows

LEMMA DocumentLength == ASSUME NEW s \in Document PROVE Len(s) \in Nat /\ DOMAIN s = 1..Len(s)
BY DEF Document

LEMMA MarksKept ==
  ASSUME NEW s, NEW l, NEW t, Follows(s, l, t), NEW i \in 1..(Len(s) + 1)
  PROVE  Marks(t, i) = Marks(s, i) /\ LastMark(t, i) = LastMark(s, i)
<1>1. \A j \in 1..(i - 1) : j \in 1..Len(s)
  BY OneMore
<1>2. \A j \in 1..(i - 1) : t[j] = s[j]
  BY <1>1, OneMore
<1>3. Marks(t, i) = Marks(s, i)
  BY <1>2, Zenon DEF Marks
<1> QED
  BY <1>3, Zenon DEF LastMark

LEMMA Greatest ==
  ASSUME NEW S, NEW m \in S, \A k \in S : k <= m, \A j \in S : (\A k \in S : k <= j) => j = m
  PROVE  Last(S) = m
BY Zenon DEF Last

\* The last mark of the whole document.
End(s) == LastMark(s, Len(s) + 1)
AllMarks(s) == Marks(s, Len(s) + 1)
Marked(s) ==
  AllMarks(s) # {} => End(s) \in AllMarks(s) /\ \A k \in AllMarks(s) : k <= End(s)

LEMMA MarkAdded ==
  ASSUME NEW s, NEW l, NEW t, Follows(s, l, t), Marked(s)
  PROVE  /\ Marked(t)
         /\ l \in I!Headers \cup {"quoted"} => End(t) = Len(s) + 1
         /\ l \notin I!Headers \cup {"quoted"} => End(t) = End(s)
<1>1. PICK n \in Nat : n = Len(s)
  BY OneMore, Zenon
<1>2. Len(t) = n + 1 /\ t[n + 1] = l /\ \A i \in 1..n : t[i] = s[i]
  BY <1>1, OneMore
<1>3. (n + 1) - 1 = n /\ ((n + 1) + 1) - 1 = n + 1 /\ \A i : i \in 1..(n + 1) <=> i \in 1..n \/ i = n + 1
  OBVIOUS
<1>4. /\ AllMarks(s) = {j \in 1..n : s[j] \in I!Headers \cup {"quoted"}}
      /\ AllMarks(t) = {j \in 1..(n + 1) : t[j] \in I!Headers \cup {"quoted"}}
  BY <1>1, <1>2, <1>3, Zenon DEF AllMarks, Marks
<1>5. CASE l \in I!Headers \cup {"quoted"}
  <2>1. n + 1 \in AllMarks(t) /\ \A k \in AllMarks(t) : k <= n + 1
    <3>1. \A k \in 1..(n + 1) : k <= n + 1
      OBVIOUS
    <3>2. n + 1 \in 1..(n + 1)
      OBVIOUS
    <3> QED
      BY <1>2, <1>4, <1>5, <3>1, <3>2, Zenon
  <2>2. \A j \in AllMarks(t) : (\A k \in AllMarks(t) : k <= j) => j = n + 1
    <3>1. \A j \in 1..(n + 1) : n + 1 <= j => j = n + 1
      OBVIOUS
    <3> QED
      BY <1>4, <2>1, <3>1, Zenon
  <2>3. End(t) = n + 1
    BY <2>1, <2>2, Greatest, Zenon DEF End, AllMarks, LastMark
  <2> QED
    BY <1>1, <1>5, <2>1, <2>3, Zenon DEF Marked
<1>6. CASE l \notin I!Headers \cup {"quoted"}
  <2>1. AllMarks(t) = AllMarks(s)
    BY <1>2, <1>3, <1>4, <1>6, Zenon
  <2>2. End(t) = End(s)
    BY <2>1, Zenon DEF End, AllMarks, LastMark
  <2> QED
    BY <1>6, <2>1, <2>2, Zenon DEF Marked
<1> QED
  BY <1>5, <1>6, Zenon

Ranged(s) == \A k \in 1..(Len(s) + 1) : LastMark(s, k) \in 0..Len(s)

LEMMA RangeKept ==
  ASSUME NEW s, NEW l, NEW t, Follows(s, l, t), Marked(s), Ranged(s)
  PROVE  Ranged(t)
<1>1. PICK n \in Nat : n = Len(s)
  BY OneMore, Zenon
<1>2. Len(t) = n + 1
  BY <1>1, OneMore, Zenon
<1>3. ASSUME NEW k \in 1..(n + 1) PROVE LastMark(t, k) \in 0..n
  BY <1>1, <1>3, MarksKept, ZenonT(60) DEF Ranged
<1>4. End(t) \in 0..(n + 1)
  <2>1. End(s) \in 0..n
    <3>1. n + 1 \in 1..(n + 1)
      OBVIOUS
    <3> QED
      BY <1>1, <3>1, Zenon DEF Ranged, End
  <2>2. n + 1 \in 0..(n + 1) /\ \A i \in 0..n : i \in 0..(n + 1)
    OBVIOUS
  <2> QED
    BY <1>1, <2>1, <2>2, MarkAdded, Zenon
<1>5. \A k \in 1..((n + 1) + 1) : k \in 1..(n + 1) \/ k = (n + 1) + 1
  OBVIOUS
<1>6. \A i \in 0..n : i \in 0..(n + 1)
  OBVIOUS
<1> QED
  BY <1>2, <1>3, <1>4, <1>5, <1>6, Zenon DEF Ranged, End

-----------------------------------------------------------------------------
INSTANCE FiniteSetTheorems

\* Counting.
LEMMA CountAdd ==
  ASSUME NEW S, IsFiniteSet(S), NEW x, x \notin S
  PROVE  IsFiniteSet(S \cup {x}) /\ I!Cardinality(S \cup {x}) = I!Cardinality(S) + 1
<1>1. \A T : I!Cardinality(T) = Cardinality(T)
  BY Zenon DEF I!Cardinality, Cardinality
<1> QED
  BY <1>1, FS_AddElement, Zenon

LEMMA CountNone == IsFiniteSet({}) /\ I!Cardinality({}) = 0
<1>1. \A T : I!Cardinality(T) = Cardinality(T)
  BY Zenon DEF I!Cardinality, Cardinality
<1> QED
  BY <1>1, FS_EmptySet, Zenon

LEMMA CountIsNat == ASSUME NEW S, IsFiniteSet(S) PROVE I!Cardinality(S) \in Nat
<1>1. \A T : I!Cardinality(T) = Cardinality(T)
  BY Zenon DEF I!Cardinality, Cardinality
<1> QED
  BY <1>1, FS_CardinalityType, Zenon

Total(s) == I!Cardinality(Heads(s))
Number(s, i) == I!Cardinality(UpTo(s, i))
Numbered(s) ==
  /\ IsFiniteSet(Heads(s)) /\ Total(s) \in Nat
  /\ \A i \in Heads(s) : Number(s, i) \in 1..Total(s)
  /\ \A m \in 1..Total(s) : \E i \in Heads(s) : Number(s, i) = m
  /\ \A i, k \in Heads(s) : Number(s, i) = Number(s, k) => i = k

\* The n-th of the lines that begin a block.
LEMMA NthIs ==
  ASSUME NEW s, Numbered(s)
  PROVE  /\ \A m \in 1..Total(s) : Nth(s, m) \in Heads(s) /\ Number(s, Nth(s, m)) = m
         /\ \A i \in Heads(s) : Nth(s, Number(s, i)) = i
<1>1. ASSUME NEW m \in 1..Total(s) PROVE Nth(s, m) \in Heads(s) /\ Number(s, Nth(s, m)) = m
  BY Zenon DEF Numbered, Nth, Number
<1> QED
  BY <1>1, Zenon DEF Numbered

LEMMA HeadsInside ==
  ASSUME NEW s, NEW l, NEW t, Follows(s, l, t)
  PROVE  \A i \in Heads(s) : i \in 1..Len(s)
BY OneMore, Zenon DEF Heads

LEMMA HeadsKept ==
  ASSUME NEW s, NEW l, NEW t, Follows(s, l, t), l \notin I!Headers, Numbered(s)
  PROVE  Heads(t) = Heads(s) /\ Total(t) = Total(s) /\ Numbered(t) /\ \A m \in 1..Total(s) : Nth(t, m) = Nth(s, m)
<1>1. Heads(t) = Heads(s)
  BY OneMore DEF Heads
<1>2. \A i : UpTo(t, i) = UpTo(s, i)
  BY <1>1, Zenon DEF UpTo
<1>3. Total(t) = Total(s) /\ \A i : Number(t, i) = Number(s, i)
  BY <1>1, <1>2, Zenon DEF Total, Number
<1>4. Numbered(t)
  BY <1>1, <1>3, Zenon DEF Numbered
<1>5. ASSUME NEW m \in 1..Total(s) PROVE Nth(t, m) = Nth(s, m)
  <2>1. Nth(s, m) \in Heads(t) /\ Number(t, Nth(s, m)) = m
    BY <1>1, <1>3, NthIs, Zenon
  <2> QED
    BY <1>4, <2>1, NthIs, Zenon
<1> QED
  BY <1>1, <1>3, <1>4, <1>5, Zenon

LEMMA HeadAdded ==
  ASSUME NEW s, NEW l \in I!Headers, NEW t, Follows(s, l, t), Numbered(s)
  PROVE  /\ Heads(t) = Heads(s) \cup {Len(s) + 1} /\ Len(s) + 1 \notin Heads(s)
         /\ \A i \in Heads(s) : Number(t, i) = Number(s, i)
         /\ Number(t, Len(s) + 1) = Total(s) + 1 /\ Total(t) = Total(s) + 1
         /\ Numbered(t)
<1>1. PICK n \in Nat : n = Len(s)
  BY OneMore, Zenon
<1>3. /\ DOMAIN t = 1..(n + 1) /\ DOMAIN s = 1..n /\ t[n + 1] = l
      /\ \A i \in 1..n : t[i] = s[i]
  BY <1>1, OneMore
<1>4. \A i : i \in 1..(n + 1) <=> i \in 1..n \/ i = n + 1
  OBVIOUS
<1>5. ~(n + 1 \in 1..n) /\ \A i \in 1..n : ~(n + 1 <= i) /\ i <= n + 1
  OBVIOUS
<1>6. Heads(t) = Heads(s) \cup {n + 1} /\ n + 1 \notin Heads(s) /\ Heads(s) \subseteq 1..n
  <2>1. /\ \A i : i \in Heads(s) <=> i \in 1..n /\ s[i] \in I!Headers
        /\ \A i : i \in Heads(t) <=> i \in 1..(n + 1) /\ t[i] \in I!Headers
    BY <1>3, Zenon DEF Heads
  <2>2. \A i : i \in Heads(t) <=> i \in Heads(s) \/ i = n + 1
    BY <1>3, <1>4, <2>1, Zenon
  <2> QED
    BY <1>5, <2>1, <2>2, Zenon
<1>7. ASSUME NEW i \in Heads(s) PROVE Number(t, i) = Number(s, i)
  <2>1. UpTo(t, i) = UpTo(s, i)
    BY <1>5, <1>6, <1>7, Zenon DEF UpTo
  <2> QED
    BY <2>1, Zenon DEF Number
<1>8. Number(t, n + 1) = Total(s) + 1 /\ Total(t) = Total(s) + 1 /\ IsFiniteSet(Heads(t))
  <2>1. UpTo(t, n + 1) = Heads(t)
    <3>1. n + 1 <= n + 1
      OBVIOUS
    <3> QED
      BY <1>5, <1>6, <3>1, Zenon DEF UpTo
  <2>2. IsFiniteSet(Heads(s))
    BY Zenon DEF Numbered
  <2>3. /\ IsFiniteSet(Heads(s) \cup {n + 1})
        /\ I!Cardinality(Heads(s) \cup {n + 1}) = I!Cardinality(Heads(s)) + 1
    BY <1>6, <2>2, CountAdd, Zenon
  <2> QED
    BY <1>6, <2>1, <2>3, Zenon DEF Number, Total
<1>9. Numbered(t)
  <2>1. PICK c \in Nat : c = Total(s)
    BY Zenon DEF Numbered
  <2>2. /\ c + 1 \in Nat /\ \A m : m \in 1..(c + 1) <=> m \in 1..c \/ m = c + 1
        /\ ~(c + 1 \in 1..c)
    OBVIOUS
  <2>3. Total(t) = c + 1 /\ Number(t, n + 1) = c + 1
    BY <1>8, <2>1, Zenon
  <2>4. \A i \in Heads(s) : Number(t, i) \in 1..c
    BY <1>7, <2>1, Zenon DEF Numbered
  <2>5. \A i \in Heads(t) : Number(t, i) \in 1..(c + 1)
    BY <1>6, <2>2, <2>3, <2>4, Zenon
  <2>6. \A m \in 1..(c + 1) : \E i \in Heads(t) : Number(t, i) = m
    <3>1. ASSUME NEW m \in 1..c PROVE \E i \in Heads(t) : Number(t, i) = m
      <4>1. PICK i \in Heads(s) : Number(s, i) = m
        BY <2>1, Zenon DEF Numbered
      <4> QED
        BY <1>6, <1>7, <4>1, Zenon
    <3> QED
      BY <1>6, <2>2, <2>3, <3>1, Zenon
  <2>7. ASSUME NEW i \in Heads(t), NEW k \in Heads(t), Number(t, i) = Number(t, k) PROVE i = k
    <3>1. CASE i \in Heads(s) /\ k \in Heads(s)
      BY <1>7, <2>7, <3>1, Zenon DEF Numbered
    <3>2. CASE i = n + 1 /\ k \in Heads(s)
      BY <2>2, <2>3, <2>4, <2>7, <3>2, Zenon
    <3>3. CASE i \in Heads(s) /\ k = n + 1
      BY <2>2, <2>3, <2>4, <2>7, <3>3, Zenon
    <3> QED
      BY <1>6, <3>1, <3>2, <3>3, Zenon
  <2> QED
    BY <1>8, <2>2, <2>3, <2>5, <2>6, <2>7, Zenon DEF Numbered
<1> QED
  BY <1>1, <1>6, <1>7, <1>8, <1>9, Zenon

-----------------------------------------------------------------------------
\* The members of a block, before and after the next line.
Finite(s) == \A i : IsFiniteSet(Members(s, i))

LEMMA MembersFinite == ASSUME NEW s \in Document PROVE Finite(s)
<1>1. IsFiniteSet(1..Len(s))
  BY DocumentLength, FS_Interval
<1>2. \A i : Members(s, i) \subseteq 1..Len(s)
  BY DocumentLength, Zenon DEF Members
<1> QED
  BY <1>1, <1>2, FS_Subset, Zenon DEF Finite

LEMMA MembersNext ==
  ASSUME NEW s, NEW l, NEW t, Follows(s, l, t), NEW i \in 1..Len(s)
  PROVE  /\ l = I!Member(s[i]) /\ End(s) = i => Members(t, i) = Members(s, i) \cup {Len(s) + 1}
         /\ ~(l = I!Member(s[i]) /\ End(s) = i) => Members(t, i) = Members(s, i)
         /\ Len(s) + 1 \notin Members(s, i)
<1>1. PICK n \in Nat : n = Len(s)
  BY OneMore, Zenon
<1>2. /\ DOMAIN t = 1..(n + 1) /\ DOMAIN s = 1..n /\ t[n + 1] = l
      /\ \A k \in 1..n : t[k] = s[k]
  BY <1>1, OneMore
<1>3. /\ \A k : k \in 1..(n + 1) <=> k \in 1..n \/ k = n + 1
      /\ ~(n + 1 \in 1..n)
  OBVIOUS
<1>4. \A k \in 1..(n + 1) : LastMark(t, k) = LastMark(s, k)
  BY <1>1, MarksKept, Zenon
<1>5. End(s) = LastMark(s, n + 1)
  BY <1>1, Zenon DEF End
<1>6. t[i] = s[i]
  BY <1>1, <1>2, Zenon
<1>7. n + 1 \notin Members(s, i)
  BY <1>2, <1>3, Zenon DEF Members
<1>8. ASSUME NEW k PROVE k \in Members(t, i) <=> k \in Members(s, i) \/ (k = n + 1 /\ l = I!Member(s[i]) /\ End(s) = i)
  <2>1. CASE k \in 1..n
    BY <1>2, <1>3, <1>4, <1>6, <2>1, Zenon DEF Members
  <2>2. CASE k = n + 1
    BY <1>2, <1>3, <1>4, <1>5, <1>6, <1>7, <2>2, Zenon DEF Members
  <2>3. CASE k \notin 1..(n + 1)
    BY <1>2, <1>3, <2>3, Zenon DEF Members
  <2> QED
    BY <1>3, <2>1, <2>2, <2>3, Zenon
<1> QED
  BY <1>1, <1>7, <1>8, Zenon

\* A block that begins at the next line has no members yet.
LEMMA NewDefinition ==
  ASSUME NEW s, NEW l, NEW t, Follows(s, l, t), Ranged(s)
  PROVE  Block(t, Len(s) + 1) = [kind |-> l, members |-> <<>>]
<1>1. PICK n \in Nat : n = Len(s)
  BY OneMore, Zenon
<1>2. DOMAIN t = 1..(n + 1) /\ t[n + 1] = l
  BY <1>1, OneMore, Zenon
<1>3. \A k \in 1..(n + 1) : LastMark(t, k) \in 0..n
  BY <1>1, MarksKept DEF Ranged
<1>4. ~(n + 1 \in 0..n)
  OBVIOUS
<1>5. Members(t, n + 1) = {}
  BY <1>2, <1>3, <1>4, Zenon DEF Members
<1>6. I!Cardinality(Members(t, n + 1)) = 0
  BY <1>5, CountNone, Zenon
<1>7. [m \in 1..0 |-> I!Member(l)] = <<>>
  OBVIOUS
<1> QED
  BY <1>1, <1>2, <1>6, <1>7, Zenon DEF Block

LEMMA BlockKept ==
  ASSUME NEW s, NEW l, NEW t, Follows(s, l, t), NEW i \in 1..Len(s),
         ~(l = I!Member(s[i]) /\ End(s) = i)
  PROVE  Block(t, i) = Block(s, i)
<1>1. Members(t, i) = Members(s, i)
  BY MembersNext
<1>2. t[i] = s[i]
  BY OneMore
<1> QED
  BY <1>1, <1>2, Zenon DEF Block

IsBlock(a, k, f) == a = [kind |-> k, members |-> f]

LEMMA RecordGrows ==
  ASSUME NEW k, NEW f, NEW l, NEW a, NEW b, IsBlock(a, k, f), IsBlock(b, k, Append(f, l))
  PROVE  b = [a EXCEPT !.members = Append(@, l)]
<1>1. a.members = f /\ DOMAIN a = {"kind", "members"} /\ a.kind = k
  BY Zenon DEF IsBlock
<1>2. PICK g : g = Append(f, l)
  BY Zenon
<1>3. [a EXCEPT !.members = g] = [kind |-> k, members |-> g]
  BY <1>1 DEF IsBlock
<1>4. b = [a EXCEPT !.members = g]
  BY <1>2, <1>3, Zenon DEF IsBlock
<1> QED
  BY <1>1, <1>2, <1>4, Zenon

LEMMA BlockGrows ==
  ASSUME NEW s, NEW l, NEW t, Follows(s, l, t), NEW i \in 1..Len(s),
         l = I!Member(s[i]), End(s) = i
  PROVE  Block(t, i) = [Block(s, i) EXCEPT !.members = Append(@, l)]
<1>1. PICK c \in Nat : c = I!Cardinality(Members(s, i))
  BY OneMore, MembersFinite, CountIsNat, Zenon DEF Finite
<1>2. t[i] = s[i]
  BY OneMore
<1>3. I!Cardinality(Members(t, i)) = c + 1
  <2>1. Members(t, i) = Members(s, i) \cup {Len(s) + 1} /\ Len(s) + 1 \notin Members(s, i)
    BY MembersNext, ZenonT(30)
  <2>2. IsFiniteSet(Members(s, i))
    BY OneMore, MembersFinite, Zenon DEF Finite
  <2> QED
    BY <1>1, <2>1, <2>2, CountAdd, Zenon
<1>4. PICK f, g : f = [m \in 1..c |-> l] /\ g = [m \in 1..(c + 1) |-> l]
  BY Zenon
<1>5. g = Append(f, l)
  BY <1>4
<1>6. IsBlock(Block(s, i), s[i], f)
  BY <1>1, <1>4, Zenon DEF Block, IsBlock
<1>7. IsBlock(Block(t, i), s[i], Append(f, l))
  BY <1>2, <1>3, <1>4, <1>5, Zenon DEF Block, IsBlock
<1> QED
  BY <1>6, <1>7, RecordGrows, Zenon

-----------------------------------------------------------------------------
\* What the document defines, before and after the next line.
LEMMA BlocksSame ==
  ASSUME NEW s, NEW l, NEW t, Follows(s, l, t), Numbered(s), l \notin I!Headers \cup {"field", "method"}
  PROVE  Blocks(t) = Blocks(s)
<1>1. l \notin I!Headers
  BY Zenon
<1>2. Total(t) = Total(s) /\ \A m \in 1..Total(s) : Nth(t, m) = Nth(s, m)
  BY <1>1, HeadsKept
<1>3. ASSUME NEW n \in 1..Total(s) PROVE Block(t, Nth(t, n)) = Block(s, Nth(s, n))
  <2>1. PICK i : i = Nth(s, n)
    BY Zenon
  <2>2. i \in 1..Len(s)
    BY <2>1, NthIs, HeadsInside, Zenon
  <2>3. l # I!Member(s[i])
    BY Zenon DEF I!Member
  <2>4. Block(t, i) = Block(s, i)
    BY <2>2, <2>3, BlockKept
  <2> QED
    BY <1>2, <2>1, <2>4, Zenon
<1>4. Blocks(t) = [n \in 1..Total(s) |-> Block(t, Nth(t, n))] /\ Blocks(s) = [n \in 1..Total(s) |-> Block(s, Nth(s, n))]
  BY <1>2, Zenon DEF Blocks, Total
<1> QED
  BY <1>3, <1>4, Zenon

Listed(f, c) == f = [m \in 1..c |-> f[m]]

LEMMA ListLength ==
  ASSUME NEW c \in Nat, NEW f, Listed(f, c), NEW S, \A m \in 1..c : f[m] \in S
  PROVE  f \in Seq(S) /\ Len(f) = c
<1>1. f \in [1..c -> S]
  BY Zenon DEF Listed
<1> QED
  BY <1>1

LEMMA Appended ==
  ASSUME NEW c \in Nat, NEW f, NEW g, Listed(f, c), Listed(g, c + 1), \A m \in 1..c : g[m] = f[m]
  PROVE  g = Append(f, g[c + 1])
<1>1. PICK S : S = {g[m] : m \in 1..(c + 1)}
  BY Zenon
<1>2. f \in Seq(S) /\ Len(f) = c /\ g \in Seq(S) /\ Len(g) = c + 1 /\ g[c + 1] \in S
  <2>1. c + 1 \in Nat /\ c + 1 \in 1..(c + 1) /\ \A m \in 1..c : m \in 1..(c + 1)
    OBVIOUS
  <2>2. (\A m \in 1..c : f[m] \in S) /\ \A m \in 1..(c + 1) : g[m] \in S
    BY <1>1, <2>1, Zenon
  <2> QED
    BY <2>1, <2>2, ListLength, Zenon
<1>3. PICK h, x : x = g[c + 1] /\ h = Append(f, x)
  BY Zenon
<1>4. h \in Seq(S) /\ Len(h) = c + 1 /\ h[c + 1] = x /\ \A m \in 1..c : h[m] = f[m]
  BY <1>2, <1>3
<1>5. \A m \in 1..(c + 1) : m \in 1..c \/ m = c + 1
  OBVIOUS
<1>6. \A m \in 1..(c + 1) : h[m] = g[m]
  BY <1>3, <1>4, <1>5, Zenon
<1>7. h = g
  BY <1>2, <1>4, <1>6
<1> QED
  BY <1>3, <1>7, Zenon

LEMMA BlocksAdded ==
  ASSUME NEW s, NEW l \in I!Headers, NEW t, Follows(s, l, t), Numbered(s), Ranged(s)
  PROVE  Blocks(t) = Append(Blocks(s), [kind |-> l, members |-> <<>>])
<1>1. PICK c \in Nat : c = Total(s)
  BY Zenon DEF Numbered
<1>2. Total(t) = c + 1 /\ Numbered(t) /\ Number(t, Len(s) + 1) = c + 1
      /\ Heads(t) = Heads(s) \cup {Len(s) + 1} /\ \A i \in Heads(s) : Number(t, i) = Number(s, i)
  BY <1>1, HeadAdded, ZenonT(60)
<1>3. ASSUME NEW m \in 1..c PROVE Block(t, Nth(t, m)) = Block(s, Nth(s, m))
  <2>1. PICK i : i = Nth(s, m)
    BY Zenon
  <2>2. i \in Heads(s) /\ Number(s, i) = m
    BY <1>1, <2>1, NthIs, Zenon
  <2>3. Number(t, i) = m /\ i \in Heads(t)
    BY <1>2, <2>2, Zenon
  <2>4. Nth(t, m) = i
    BY <1>2, <2>3, NthIs, Zenon
  <2>5. i \in 1..Len(s)
    BY <2>2, HeadsInside, Zenon
  <2>6. l # I!Member(s[i])
    BY Zenon DEF I!Member, I!Headers
  <2>7. Block(t, i) = Block(s, i)
    BY <2>5, <2>6, BlockKept
  <2> QED
    BY <2>1, <2>4, <2>7, Zenon
<1>4. PICK x : x = [kind |-> l, members |-> <<>>]
  BY Zenon
<1>5. Block(t, Nth(t, c + 1)) = x
  <2>1. Nth(t, c + 1) = Len(s) + 1
    BY <1>2, NthIs, Zenon
  <2> QED
    BY <1>4, <2>1, NewDefinition, Zenon
<1>6. PICK f, g : f = Blocks(s) /\ g = Blocks(t)
  BY Zenon
<1>7. f = [m \in 1..c |-> Block(s, Nth(s, m))] /\ g = [m \in 1..(c + 1) |-> Block(t, Nth(t, m))]
  BY <1>1, <1>2, <1>6, Zenon DEF Blocks, Total
<1>8. c + 1 \in 1..(c + 1) /\ \A m \in 1..c : m \in 1..(c + 1)
  OBVIOUS
<1>9. /\ Listed(f, c) /\ Listed(g, c + 1)
      /\ \A m \in 1..c : g[m] = f[m]
      /\ g[c + 1] = x
  BY <1>3, <1>5, <1>7, <1>8, Zenon DEF Listed
<1>10. g = Append(f, g[c + 1])
  BY <1>9, Appended, Zenon
<1> QED
  BY <1>4, <1>6, <1>9, <1>10, Zenon

\* The last block is open at the end of the document.
Open(s) == End(s) # 0 /\ s[End(s)] \in I!Headers

LEMMA LastBlock ==
  ASSUME NEW s \in Document, Marked(s), Ranged(s), Numbered(s), Open(s)
  PROVE  /\ End(s) \in Heads(s) /\ Number(s, End(s)) = Total(s) /\ Total(s) \in 1..Total(s)
         /\ Nth(s, Total(s)) = End(s)
<1>1. PICK n \in Nat : n = Len(s)
  BY DocumentLength, Zenon
<1>2. DOMAIN s = 1..n /\ End(s) \in 1..n
  <2>1. n + 1 \in 1..(n + 1) /\ \A i \in 0..n : i # 0 => i \in 1..n
    OBVIOUS
  <2> QED
    BY <1>1, <2>1, DocumentLength, Zenon DEF Ranged, End, Open
<1>3. End(s) \in Heads(s)
  BY <1>2, Zenon DEF Heads, Open
<1>4. (n + 1) - 1 = n
  OBVIOUS
<1>5. AllMarks(s) = {j \in 1..n : s[j] \in I!Headers \cup {"quoted"}}
  BY <1>1, <1>4, Zenon DEF AllMarks, Marks
<1>6. \A i \in Heads(s) : i <= End(s)
  BY <1>2, <1>5, Zenon DEF Marked, Heads
<1>7. UpTo(s, End(s)) = Heads(s)
  BY <1>6, Zenon DEF UpTo
<1>8. Number(s, End(s)) = Total(s)
  BY <1>7, Zenon DEF Number, Total
<1>9. Total(s) \in 1..Total(s)
  BY <1>3, <1>8, ZenonT(30) DEF Numbered
<1>10. Nth(s, Total(s)) = End(s)
  BY <1>3, <1>8, NthIs, Zenon
<1> QED
  BY <1>3, <1>8, <1>9, <1>10, Zenon

LEMMA BlocksGrow ==
  ASSUME NEW s, NEW l, NEW t, Follows(s, l, t), Marked(s), Ranged(s), Numbered(s), Open(s),
         l = I!Member(s[End(s)])
  PROVE  /\ Blocks(t) = [Blocks(s) EXCEPT ![Total(s)].members = Append(@, l)]
         /\ Len(Blocks(s)) = Total(s)
<1>1. PICK c \in Nat, e \in {End(s)} : c = Total(s) /\ e = End(s)
  BY Zenon DEF Numbered
<1>2. e \in Heads(s) /\ Number(s, e) = c /\ c \in 1..c /\ Nth(s, c) = e
  BY <1>1, LastBlock, OneMore, Zenon
<1>3. l \notin I!Headers
  BY Zenon DEF I!Member, I!Headers
<1>4. Total(t) = c /\ \A m \in 1..c : Nth(t, m) = Nth(s, m)
  BY <1>1, <1>3, HeadsKept
<1>5. \A m \in 1..c : Nth(s, m) \in 1..Len(s) /\ Number(s, Nth(s, m)) = m
  BY <1>1, NthIs, HeadsInside, Zenon
<1>6. PICK f, g : f = Blocks(s) /\ g = Blocks(t)
  BY Zenon
<1>7. f = [m \in 1..c |-> Block(s, Nth(s, m))] /\ g = [m \in 1..c |-> Block(t, Nth(s, m))]
  BY <1>1, <1>4, <1>6, Zenon DEF Blocks, Total
<1>8. ASSUME NEW m \in 1..c, m # c PROVE g[m] = f[m]
  <2>1. PICK i : i = Nth(s, m)
    BY Zenon
  <2>2. i \in 1..Len(s) /\ i # End(s)
    BY <1>1, <1>2, <1>5, <1>8, <2>1, Zenon
  <2>3. Block(t, i) = Block(s, i)
    BY <2>2, BlockKept, Zenon
  <2> QED
    BY <1>7, <2>1, <2>3, Zenon
<1>9. g[c] = [f[c] EXCEPT !.members = Append(@, l)]
  <2>1. e \in 1..Len(s) /\ l = I!Member(s[e]) /\ End(s) = e
    BY <1>1, <1>2, <1>5, Zenon
  <2>2. f[c] = Block(s, e) /\ g[c] = Block(t, e)
    BY <1>2, <1>7, Zenon
  <2>3. Block(t, e) = [Block(s, e) EXCEPT !.members = Append(@, l)]
    BY <2>1, BlockGrows
  <2> QED
    BY <2>2, <2>3, Zenon
<1>10. DOMAIN f = 1..c /\ DOMAIN g = 1..c
  BY <1>7, Zenon
<1>11. g = [f EXCEPT ![c].members = Append(@, l)]
  BY <1>7, <1>8, <1>9, <1>10, Zenon
<1>12. Len(f) = c
  BY <1>10, <1>7, SMTT(30)
<1> QED
  BY <1>1, <1>6, <1>11, <1>12, Zenon

-----------------------------------------------------------------------------
\* A prefix of a well-formed document is one, and the next line fits the open block.
LEMMA GoodNext ==
  ASSUME NEW s, NEW l, NEW t, Follows(s, l, t), Ranged(s), Good(t)
  PROVE  /\ Good(s)
         /\ l \in I!Headers \cup {"namespace"} => ~Open(s)
         /\ l = "quoted" => Open(s)
         /\ l \in {"field", "method"} => Open(s) /\ l = I!Member(s[End(s)])
         /\ l \in I!Headers \cup {"namespace", "blank", "field", "method", "quoted"}
<1>1. PICK n \in Nat : n = Len(s)
  BY OneMore, Zenon
<1>2. /\ DOMAIN t = 1..(n + 1) /\ DOMAIN s = 1..n /\ t[n + 1] = l
      /\ \A i \in 1..n : t[i] = s[i]
  BY <1>1, OneMore
<1>3. /\ n + 1 \in 1..(n + 1) /\ (\A i \in 1..n : i \in 1..(n + 1))
      /\ \A i \in 0..n : i # 0 => i \in 1..n
  OBVIOUS
<1>4. \A i \in 1..(n + 1) : LastMark(t, i) = LastMark(s, i) /\ LastMark(s, i) \in 0..n
  BY <1>1, MarksKept, ZenonT(30) DEF Ranged
<1>5. \A i \in 1..(n + 1) : LastMark(s, i) # 0 => t[LastMark(s, i)] = s[LastMark(s, i)]
  BY <1>2, <1>3, <1>4, Zenon
<1>6. Good(s)
  <2> SUFFICES ASSUME NEW i \in 1..n
               PROVE  LET j == LastMark(s, i)
                          open == j # 0 /\ s[j] \in I!Headers
                      IN /\ s[i] \in I!Headers \cup {"namespace"} => ~open
                         /\ s[i] = "quoted" => open
                         /\ s[i] \in {"field", "method"} => open /\ s[i] = I!Member(s[j])
                         /\ s[i] \in I!Headers \cup {"namespace", "blank", "field", "method", "quoted"}
    BY <1>2, Zenon DEF Good
  <2>1. PICK j : j = LastMark(s, i)
    BY Zenon
  <2>2. i \in DOMAIN t /\ t[i] = s[i] /\ LastMark(t, i) = j /\ (j # 0 => t[j] = s[j])
    BY <1>2, <1>3, <1>4, <1>5, <2>1, Zenon
  <2> QED
    BY <2>1, <2>2, Zenon DEF Good
<1>7. PICK j : j = End(s)
  BY Zenon
<1>8. n + 1 \in DOMAIN t /\ LastMark(t, n + 1) = j /\ (j # 0 => t[j] = s[j])
  BY <1>1, <1>2, <1>3, <1>4, <1>5, <1>7, Zenon DEF End
<1> QED
  BY <1>2, <1>6, <1>7, <1>8, ZenonT(30) DEF Good, Open

\* The block that is open at the end of the document.
At(s) == IF Open(s) THEN s[End(s)] ELSE "top"

LEMMA AtNext ==
  ASSUME NEW s, NEW l, NEW t, Follows(s, l, t), Marked(s), Ranged(s)
  PROVE  /\ l \in I!Headers => At(t) = l
         /\ l = "quoted" => At(t) = "top"
         /\ l \notin I!Headers \cup {"quoted"} => At(t) = At(s)
<1>1. PICK n \in Nat : n = Len(s)
  BY OneMore, Zenon
<1>2. t[n + 1] = l /\ (\A i \in 1..n : t[i] = s[i]) /\ n + 1 # 0
  BY <1>1, OneMore
<1>3. CASE l \in I!Headers \cup {"quoted"}
  <2>1. End(t) = n + 1
    BY <1>1, <1>3, MarkAdded, Zenon
  <2>2. "quoted" \notin I!Headers
    BY Zenon DEF I!Headers
  <2> QED
    BY <1>2, <1>3, <2>1, <2>2, Zenon DEF At, Open
<1>4. CASE l \notin I!Headers \cup {"quoted"}
  <2>1. End(t) = End(s)
    BY <1>4, MarkAdded, Zenon
  <2>2. End(s) \in 0..n
    <3>1. n + 1 \in 1..(n + 1)
      OBVIOUS
    <3> QED
      BY <1>1, <3>1, Zenon DEF Ranged, End
  <2>3. End(s) # 0 => t[End(s)] = s[End(s)]
    <3>1. \A i \in 0..n : i # 0 => i \in 1..n
      OBVIOUS
    <3> QED
      BY <1>2, <2>2, <3>1, Zenon
  <2> QED
    BY <1>4, <2>1, <2>3, Zenon DEF At, Open
<1> QED
  BY <1>3, <1>4, Zenon

-----------------------------------------------------------------------------
IdlInv ==
  /\ lines \in Document /\ Marked(lines) /\ Ranged(lines) /\ Numbered(lines)
  /\ Good(lines) => in_block = At(lines) /\ doc = Blocks(lines)

LEMMA IdlInit == I!Init => IdlInv
<1> SUFFICES ASSUME I!Init PROVE IdlInv
  BY Zenon
<1>1. PICK s : s = lines
  BY Zenon
<1>2. s = <<>> /\ s \in Document /\ Len(s) = 0 /\ DOMAIN s = {} /\ in_block = "top" /\ doc = <<>>
  BY <1>1 DEF I!Init, Document
<1>3. 1..(0 + 1) = {1} /\ 1..(1 - 1) = {} /\ 0 + 1 = 1 /\ 0 \in 0..0 /\ 1..0 = {} /\ 0 \in Nat
  OBVIOUS
<1>4. Marks(s, 1) = {} /\ LastMark(s, 1) = 0
  BY <1>3, Zenon DEF Marks, LastMark, Last
<1>5. AllMarks(s) = {} /\ End(s) = 0 /\ Ranged(s)
  BY <1>2, <1>3, <1>4, Zenon DEF AllMarks, End, Ranged
<1>6. Heads(s) = {} /\ Total(s) = 0
  BY <1>2, CountNone, Zenon DEF Heads, Total
<1>7. Numbered(s)
  BY <1>3, <1>6, CountNone, Zenon DEF Numbered
<1>8. Blocks(s) = <<>>
  <2>1. Blocks(s) = [n \in 1..0 |-> Block(s, Nth(s, n))]
    BY <1>6, Zenon DEF Blocks, Total
  <2> QED
    BY <2>1
<1>9. At(s) = "top" /\ Marked(s)
  BY <1>5, Zenon DEF At, Open, Marked
<1> QED
  BY <1>1, <1>2, <1>5, <1>7, <1>8, <1>9, Zenon DEF IdlInv

\* What the parser does with a line in each of its loops.
LEMMA LineRead ==
  ASSUME NEW l \in I!Lines, I!parse(l) \/ I!parse_struct(l) \/ I!parse_service(l)
  PROVE  /\ lines' = Append(lines, l)
         /\ in_block = "top" /\ l \in I!Headers =>
              in_block' = l /\ doc' = Append(doc, [kind |-> l, members |-> <<>>])
         /\ in_block \in I!Headers /\ l = "quoted" => in_block' = "top" /\ doc' = doc
         /\ in_block \in I!Headers /\ l = I!Member(in_block) =>
              in_block' = in_block /\ doc' = [doc EXCEPT ![Len(doc)].members = Append(@, l)]
         /\ l = "blank" \/ (in_block = "top" /\ l = "namespace") => in_block' = in_block /\ doc' = doc
<1>1. CASE I!parse(l)
  BY <1>1, Zenon DEF I!parse, I!getline, I!Headers
<1>2. CASE I!parse_struct(l)
  BY <1>2, Zenon DEF I!parse_struct, I!getline, I!Headers, I!Ends, I!IsField, I!AddMember, I!Member
<1>3. CASE I!parse_service(l)
  BY <1>3, Zenon DEF I!parse_service, I!getline, I!Headers, I!Ends, I!IsMethod, I!AddMember, I!Member
<1> QED
  BY <1>1, <1>2, <1>3, Zenon

LEMMA IdlStep ==
  ASSUME IdlInv, NEW l \in I!Lines, I!parse(l) \/ I!parse_struct(l) \/ I!parse_service(l)
  PROVE  IdlInv'
<1>1. PICK s, t : s = lines /\ t = lines'
  BY Zenon
<1>2. Marked(s) /\ Ranged(s) /\ Numbered(s) /\ (Good(s) => in_block = At(s) /\ doc = Blocks(s))
  BY <1>1, Zenon DEF IdlInv
<1>3. Follows(s, l, t)
  BY <1>1, LineRead, Zenon DEF IdlInv, Follows
<1>4. t \in Document /\ Marked(t) /\ Ranged(t)
  BY <1>2, <1>3, OneMore, MarkAdded, RangeKept, Zenon
<1>5. Numbered(t)
  BY <1>2, <1>3, HeadsKept, HeadAdded, Zenon
<1>6. ASSUME Good(t) PROVE in_block' = At(t) /\ doc' = Blocks(t)
  <2>1. /\ Good(s)
        /\ l \in I!Headers \cup {"namespace"} => ~Open(s)
        /\ l = "quoted" => Open(s)
        /\ l \in {"field", "method"} => Open(s) /\ l = I!Member(s[End(s)])
        /\ l \in I!Headers \cup {"namespace", "blank", "field", "method", "quoted"}
    BY <1>2, <1>3, <1>6, GoodNext, Zenon
  <2>2. in_block = At(s) /\ doc = Blocks(s)
    BY <1>2, <2>1, Zenon
  <2>3. /\ Open(s) => in_block = s[End(s)] /\ in_block \in I!Headers
        /\ ~Open(s) => in_block = "top"
    BY <2>2, Zenon DEF At, Open
  <2>4. CASE l \in I!Headers
    <3>1. At(t) = l /\ Blocks(t) = Append(Blocks(s), [kind |-> l, members |-> <<>>])
      BY <1>2, <1>3, <2>4, AtNext, BlocksAdded, Zenon
    <3>2. in_block' = l /\ doc' = Append(doc, [kind |-> l, members |-> <<>>])
      BY <2>1, <2>3, <2>4, LineRead, Zenon
    <3> QED
      BY <2>2, <3>1, <3>2, Zenon
  <2>5. CASE l \in {"field", "method"}
    <3>1. l \notin I!Headers \cup {"quoted"}
      BY <2>5, Zenon DEF I!Headers
    <3>2. At(t) = At(s)
      BY <1>2, <1>3, <3>1, AtNext, Zenon
    <3>3. Blocks(t) = [Blocks(s) EXCEPT ![Total(s)].members = Append(@, l)] /\ Len(Blocks(s)) = Total(s)
      BY <1>2, <1>3, <2>1, <2>5, BlocksGrow, Zenon
    <3>4. in_block' = in_block /\ doc' = [doc EXCEPT ![Len(doc)].members = Append(@, l)]
      BY <2>1, <2>3, <2>5, LineRead, Zenon
    <3> QED
      BY <2>2, <3>2, <3>3, <3>4, Zenon
  <2>6. CASE l = "quoted"
    <3>1. l \notin I!Headers \cup {"field", "method"}
      BY <2>6, Zenon DEF I!Headers
    <3>2. At(t) = "top" /\ Blocks(t) = Blocks(s)
      BY <1>2, <1>3, <2>6, <3>1, AtNext, BlocksSame, Zenon
    <3>3. in_block' = "top" /\ doc' = doc
      BY <2>1, <2>3, <2>6, LineRead, Zenon
    <3> QED
      BY <2>2, <3>2, <3>3, Zenon
  <2>7. CASE l \in {"namespace", "blank"}
    <3>1. l \notin I!Headers \cup {"field", "method"} /\ l \notin I!Headers \cup {"quoted"}
      BY <2>7, Zenon DEF I!Headers
    <3>2. At(t) = At(s) /\ Blocks(t) = Blocks(s)
      BY <1>2, <1>3, <3>1, AtNext, BlocksSame, Zenon
    <3>3. in_block' = in_block /\ doc' = doc
      BY <2>1, <2>3, <2>7, LineRead, Zenon
    <3> QED
      BY <2>2, <3>2, <3>3, Zenon
  <2> QED
    BY <2>1, <2>4, <2>5, <2>6, <2>7, Zenon
<1> QED
  BY <1>1, <1>4, <1>5, <1>6, Zenon DEF IdlInv

Definitions == [kind : I!Headers, members : Seq(I!Lines)]
IdlTypes ==
  /\ in_block \in {"top"} \cup I!Headers /\ namespace_name \in BOOLEAN
  /\ doc \in Seq(Definitions)
  /\ in_block # "top" => doc # <<>> /\ doc[Len(doc)].kind = in_block

LEMMA MemberAdded ==
  ASSUME IdlTypes, in_block # "top", NEW l \in I!Lines, I!AddMember(l), in_block' \in {"top", in_block}
  PROVE  doc' \in Seq(Definitions) /\ (in_block' # "top" => doc' # <<>> /\ doc'[Len(doc')].kind = in_block')
<1>1. PICK n \in Nat : n = Len(doc) /\ n \in DOMAIN doc /\ n > 0 /\ doc[n] \in Definitions
  BY DEF IdlTypes
<1>2. PICK d \in Definitions : d = [doc[n] EXCEPT !.members = Append(@, l)] /\ d.kind = doc[n].kind
  <2>1. PICK a : a = Append(doc[n].members, l) /\ a \in Seq(I!Lines)
    <3>1. doc[n].members \in Seq(I!Lines)
      BY <1>1, Zenon DEF Definitions
    <3>2. Append(doc[n].members, l) \in Seq(I!Lines)
      BY <3>1
    <3> QED
      BY <3>2, Zenon
  <2>2. PICK k \in I!Headers : \E q \in Seq(I!Lines) : IsBlock(doc[n], k, q)
    BY <1>1, Zenon DEF Definitions, IsBlock
  <2>3. PICK d : IsBlock(d, k, a)
    BY Zenon DEF IsBlock
  <2>4. d \in Definitions /\ d.kind = k /\ doc[n].kind = k
    BY <2>1, <2>2, <2>3, SMTT(30) DEF Definitions, IsBlock
  <2>5. d = [doc[n] EXCEPT !.members = a]
    BY <2>2, <2>3 DEF IsBlock
  <2> QED
    BY <2>1, <2>4, <2>5, Zenon
<1>3. doc' = [doc EXCEPT ![n] = d]
  <2>1. doc' = [doc EXCEPT ![n].members = Append(@, l)]
    BY <1>1, Zenon DEF I!AddMember
  <2> QED
    BY <1>1, <1>2, <2>1, Zenon
<1>4. doc' \in Seq(Definitions) /\ Len(doc') = n /\ doc'[n] = d
  BY <1>1, <1>3 DEF IdlTypes
<1> QED
  BY <1>1, <1>2, <1>4 DEF IdlTypes

LEMMA IdlTyped ==
  ASSUME IdlTypes, NEW l \in I!Lines, I!parse(l) \/ I!parse_struct(l) \/ I!parse_service(l)
  PROVE  IdlTypes'
<1>1. CASE I!parse(l)
  <2>1. CASE l \in I!Headers
    <3>1. PICK d \in Definitions : d = [kind |-> l, members |-> <<>>] /\ d.kind = l
      <4>1. [kind |-> l, members |-> <<>>] \in Definitions
        BY <2>1 DEF Definitions
      <4> QED
        BY <4>1, Zenon
    <3>2. doc' = Append(doc, d)
      <4>1. doc' = Append(doc, [kind |-> l, members |-> <<>>])
        BY <1>1, <2>1, Zenon DEF I!parse
      <4> QED
        BY <3>1, <4>1, Zenon
    <3>3. doc' \in Seq(Definitions) /\ doc' # <<>> /\ doc'[Len(doc')] = d
      BY <3>1, <3>2 DEF IdlTypes
    <3>4. in_block' = l /\ namespace_name' \in BOOLEAN
      BY <1>1, <2>1, Zenon DEF I!parse, IdlTypes
    <3> QED
      BY <2>1, <3>1, <3>3, <3>4, Zenon DEF IdlTypes
  <2>2. CASE l \notin I!Headers
    <3>1. in_block' = in_block /\ doc' = doc /\ namespace_name' = (namespace_name \/ l = "namespace")
      BY <1>1, <2>2, Zenon DEF I!parse
    <3> QED
      BY <3>1, Zenon DEF IdlTypes
  <2> QED
    BY <2>1, <2>2, Zenon
<1>2. CASE I!parse_struct(l) \/ I!parse_service(l)
  <2>1. /\ in_block # "top" /\ in_block' \in {"top", in_block} /\ namespace_name' = namespace_name
        /\ I!AddMember(l) \/ doc' = doc
    BY <1>2, Zenon DEF I!parse_struct, I!parse_service
  <2>2. doc' \in Seq(Definitions) /\ (in_block' # "top" => doc' # <<>> /\ doc'[Len(doc')].kind = in_block')
    BY <2>1, MemberAdded, Zenon DEF IdlTypes
  <2> QED
    BY <2>1, <2>2, Zenon DEF IdlTypes
<1> QED
  BY <1>1, <1>2, Zenon

\* For documents of any length: the parser finds the definitions of a well-formed document
\* whose blocks end in the line that the code compares with, and the members of each, in
\* the order of the document; inside a block it has a definition to add to.
THEOREM ParserFindsDefinitions == I!Spec => []ParsesQuoted
<1> DEFINE Inv == IdlTypes /\ IdlInv
<1>1. I!Init => Inv
  <2>1. I!Init => IdlTypes
    <3>1. <<>> \in Seq(Definitions)
      OBVIOUS
    <3> QED
      BY <3>1, Zenon DEF I!Init, IdlTypes
  <2> QED
    BY <2>1, IdlInit, Zenon
<1>2. Inv /\ [I!Next]_(I!vars) => Inv'
  <2> SUFFICES ASSUME Inv, [I!Next]_(I!vars) PROVE Inv'
    BY Zenon
  <2>1. CASE I!Next
    <3>1. PICK l \in I!Lines : I!parse(l) \/ I!parse_struct(l) \/ I!parse_service(l)
      BY <2>1, Zenon DEF I!Next
    <3> QED
      BY <3>1, IdlStep, IdlTyped, Zenon
  <2>2. CASE UNCHANGED I!vars
    <3>1. lines' = lines /\ in_block' = in_block /\ namespace_name' = namespace_name /\ doc' = doc
      BY <2>2, Zenon DEF I!vars
    <3> QED
      BY <3>1, Zenon DEF IdlInv, IdlTypes
  <2> QED
    BY <2>1, <2>2, Zenon
<1>3. Inv => ParsesQuoted
  <2>1. IdlTypes => I!TypeOK
    BY Zenon DEF IdlTypes, I!TypeOK
  <2> QED
    BY <2>1, DefinedIs, Zenon DEF IdlInv, I!ParsesQuoted, ParsesQuoted
<1> QED
  BY <1>1, <1>2, <1>3, PTL DEF I!Spec
=============================================================================
