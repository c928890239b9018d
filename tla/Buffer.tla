------------------------------- MODULE Buffer -------------------------------
(***************************************************************************)
(* net/buffer.hpp: buffers over memory blocks that copies share, and the   *)
(* chain that collects copies for scatter/gather output; and               *)
(* Connection::async_read(Buffer&), which hands the free part of a block   *)
(* to the kernel and leaves write_pos_ where it was.                       *)
(***************************************************************************)
EXTENDS Integers, Sequences, FiniteSets

CONSTANTS Buffers, Bytes,
          BlockSize,     \* 4096 in the code: the first block of a buffer that has none
          Capacities,    \* capacities given to the constructor
          MaxSize,       \* bound: bytes per operation
          MaxBlocks, MaxCapacity, MaxChain,   \* bounds
          MaxReads       \* bound: async_read() under way

BufferAssumption == Bytes # {} /\ BlockSize \in Nat /\ Capacities \subseteq Nat /\ MaxSize \in Nat

VARIABLES blocks,    \* the memory blocks, each a sequence of bytes
          buf,       \* buffer -> block_ (0: none), read_pos_, write_pos_
          chain,     \* BufferChain: copies of buffers
          reads,     \* async_read() under way: the block, the position and the size taken
          unread,    \* history: what was written to a buffer and not read since
          linked,    \* history: what the buffers of the chain held when appended
          spoiled    \* history: a block was rewritten under a holder or after the last
                     \* one had gone; the model stops there

vars == <<blocks, buf, chain, reads, unread, linked, spoiled>>

Fresh == [block |-> 0, r |-> 0, w |-> 0]
Init ==
  /\ blocks = <<>> /\ buf = [b \in Buffers |-> Fresh] /\ chain = <<>> /\ reads = {}
  /\ unread = [b \in Buffers |-> <<>>] /\ linked = <<>> /\ spoiled = FALSE

Data == UNION {[1..n -> Bytes] : n \in 1..MaxSize}
Least(m, n) == IF m <= n THEN m ELSE n
Most(m, n) == IF m >= n THEN m ELSE n
Junk(n) == [i \in 1..n |-> CHOOSE x \in Bytes : TRUE]   \* new char[n]
Drop(s, n) == SubSeq(s, n + 1, Len(s))
Flat(ss) == LET f[i \in 0..Len(ss)] == IF i = 0 THEN <<>> ELSE f[i - 1] \o ss[i] IN f[Len(ss)]

readable(v) == v.w - v.r
writable(v) == IF v.block = 0 THEN 0 ELSE Len(blocks[v.block]) - v.w
\* both follow block_, which must not be null
as_string(v) == SubSeq(blocks[v.block], v.r + 1, v.w)
to_string == Flat([i \in DOMAIN chain |-> as_string(chain[i])])
Holders(b) == {buf[c] : c \in {d \in Buffers \ {b} : buf[d].block = buf[b].block}}
              \cup {chain[i] : i \in {j \in DOMAIN chain : chain[j].block = buf[b].block}}

Copied(block, at, data) ==
  [i \in DOMAIN block |-> IF i - at \in DOMAIN data THEN data[i - at] ELSE block[i]]

\* mutant: the unread bytes are moved but write_pos_ stays
compactStay(v) == [v EXCEPT !.r = 0]
\* the positions after compact(); the unread bytes are then at the front of the block
compact(v) == [v EXCEPT !.r = 0, !.w = readable(v)]
Moved(v) == IF v.r > 0 THEN Copied(blocks[v.block], 0, as_string(v)) ELSE blocks[v.block]

Grown(v, size) == Most(2 * Len(blocks[v.block]), v.w + size)

Allocate(n) ==
  /\ Len(blocks) < MaxBlocks /\ n <= MaxCapacity

\* whether another holder may lose bytes: those beyond write_pos_, or, if the unread
\* bytes are moved, any
Overwrites(b, inPlace) ==
  \E h \in Holders(b) : IF inPlace THEN h.w > buf[b].w ELSE buf[b].r > 0

\* ensure_writable(), then the copy: the buffer afterwards, its block, and whether
\* it is a new one
write(b, data) ==
  LET v == buf[b]  n == Len(data)
      put(u, block) == Copied(block, u.w, data)
      done(u) == [u EXCEPT !.w = @ + n]
      fits == v.block # 0 /\ writable(v) >= n
      packed == compact(v)
      fitsPacked == v.block # 0 /\ Len(blocks[v.block]) - packed.w >= n
      size == IF v.block = 0 THEN Most(n, BlockSize) ELSE Grown(packed, n)
      new == Copied(Junk(size), 0, IF v.block = 0 THEN <<>> ELSE SubSeq(Moved(v), 1, packed.w))
  IN
  /\ ~spoiled
  /\ IF fits THEN /\ buf' = [buf EXCEPT ![b] = done(v)]
                  /\ blocks' = [blocks EXCEPT ![v.block] = put(v, @)]
     ELSE IF fitsPacked THEN /\ buf' = [buf EXCEPT ![b] = done(packed)]
                             /\ blocks' = [blocks EXCEPT ![v.block] = put(packed, Moved(v))]
     ELSE /\ Allocate(size)
          /\ buf' = [buf EXCEPT ![b] = done([packed EXCEPT !.block = Len(blocks) + 1])]
          /\ blocks' = Append(IF v.block = 0 THEN blocks ELSE [blocks EXCEPT ![v.block] = Moved(v)],
                              put(packed, new))
  /\ unread' = [unread EXCEPT ![b] = @ \o data]
  /\ spoiled' = (v.block # 0 /\ Overwrites(b, fits))
  /\ UNCHANGED <<chain, reads, linked>>

Taken(v, n) == Least(n, readable(v))

\* read() and skip(); a buffer without a block must not be read
read(b, n) ==
  /\ ~spoiled /\ buf[b].block # 0
  /\ buf' = [buf EXCEPT ![b].r = @ + Taken(buf[b], n)]
  /\ unread' = [unread EXCEPT ![b] = Drop(@, Least(n, Len(@)))]
  /\ UNCHANGED <<blocks, chain, reads, linked, spoiled>>

\* the bytes given back are those that were read last
retreat(b, n) ==
  LET k == Least(n, buf[b].r) IN
  /\ ~spoiled
  /\ buf' = [buf EXCEPT ![b].r = @ - k]
  /\ unread' = [unread EXCEPT ![b] = IF k = 0 THEN @ ELSE SubSeq(blocks[buf[b].block], buf[b].r - k + 1, buf[b].r) \o @]
  /\ UNCHANGED <<blocks, chain, reads, linked, spoiled>>

\* clear() and reset()
clear(b) ==
  /\ ~spoiled
  /\ buf' = [buf EXCEPT ![b].r = 0, ![b].w = 0]
  /\ unread' = [unread EXCEPT ![b] = <<>>]
  /\ UNCHANGED <<blocks, chain, reads, linked, spoiled>>

Compact(b) ==
  /\ ~spoiled /\ buf[b].r > 0
  /\ buf' = [buf EXCEPT ![b] = compact(buf[b])]
  /\ blocks' = [blocks EXCEPT ![buf[b].block] = Moved(buf[b])]
  /\ spoiled' = Overwrites(b, FALSE)
  /\ UNCHANGED <<chain, reads, unread, linked>>

\* Buffer(capacity), over an old value of the variable
Construct(b, n) ==
  /\ ~spoiled /\ Allocate(n)
  /\ blocks' = Append(blocks, Junk(n))
  /\ buf' = [buf EXCEPT ![b] = [block |-> Len(blocks) + 1, r |-> 0, w |-> 0]]
  /\ unread' = [unread EXCEPT ![b] = <<>>]
  /\ UNCHANGED <<chain, reads, linked, spoiled>>

\* copying a Buffer copies the pointer to its block
Assign(b, c) ==
  /\ ~spoiled /\ b # c
  /\ buf' = [buf EXCEPT ![b] = buf[c]]
  /\ unread' = [unread EXCEPT ![b] = unread[c]]
  /\ UNCHANGED <<blocks, chain, reads, linked, spoiled>>

append(b) ==
  /\ ~spoiled /\ Len(chain) < MaxChain
  /\ chain' = Append(chain, buf[b])
  /\ linked' = Append(linked, unread[b])
  /\ UNCHANGED <<blocks, buf, reads, unread, spoiled>>

clearChain ==
  /\ ~spoiled
  /\ chain' = <<>> /\ linked' = <<>>
  /\ UNCHANGED <<blocks, buf, reads, unread, spoiled>>

\* Connection::async_read(Buffer&): the size and write_ptr() are taken, then the
\* coroutine waits; nothing is done when nothing is writable
async_read(b) ==
  /\ ~spoiled /\ writable(buf[b]) > 0 /\ Cardinality(reads) < MaxReads
  /\ reads' = reads \cup {[block |-> buf[b].block, at |-> buf[b].w, size |-> writable(buf[b])]}
  /\ UNCHANGED <<blocks, buf, chain, unread, linked, spoiled>>

\* the views of block k, of buffers and of the chain
Views(k) == {buf[b] : b \in {c \in Buffers : buf[c].block = k}}
            \cup {chain[i] : i \in {j \in DOMAIN chain : chain[j].block = k}}

\* the kernel writes to where write_ptr() was, whatever has become of the buffer
ReadCompletes(p, data) ==
  /\ ~spoiled /\ p \in reads /\ Len(data) <= p.size
  /\ reads' = reads \ {p}
  /\ blocks' = [blocks EXCEPT ![p.block] = Copied(@, p.at, data)]
  /\ spoiled' = (Views(p.block) = {} \/ \E v \in Views(p.block) : v.w > p.at)
  /\ UNCHANGED <<buf, chain, unread, linked>>

ReadFails(p) ==
  /\ ~spoiled /\ p \in reads
  /\ reads' = reads \ {p}
  /\ UNCHANGED <<blocks, buf, chain, unread, linked, spoiled>>

Next ==
  \/ \E b \in Buffers : clear(b) \/ Compact(b) \/ append(b) \/ async_read(b)
  \/ \E b \in Buffers, data \in Data : write(b, data)
  \/ \E p \in reads : ReadFails(p) \/ \E data \in Data : ReadCompletes(p, data)
  \/ \E b \in Buffers, n \in 1..MaxSize : read(b, n) \/ retreat(b, n)
  \/ \E b \in Buffers, n \in Capacities : Construct(b, n)
  \/ \E b, c \in Buffers : Assign(b, c)
  \/ clearChain

Spec == Init /\ [][Next]_vars

-----------------------------------------------------------------------------
\* The positions of every buffer are within its block.
TypeOK ==
  /\ \A i \in DOMAIN blocks : blocks[i] \in Seq(Bytes)
  /\ \A b \in Buffers :
       LET v == buf[b] IN
       /\ v.block \in 0..Len(blocks)
       /\ 0 <= v.r /\ v.r <= v.w
       /\ v.w <= IF v.block = 0 THEN 0 ELSE Len(blocks[v.block])

\* However writes, partial reads, compaction and growth alternate, a buffer holds exactly
\* what was written to it and not read (nothing, if it has no block), as long as no holder
\* of a shared block compacts it or writes below another holder's end, and no async_read()
\* completes below the end of one, or when the block it was given is gone.
\* A chain gives out what its buffers held when they were appended, while their owners
\* go on reading and appending, under the same condition; to_string() follows the block
\* of each, so each must have one.
HoldsUnread ==
  ~spoiled =>
    /\ \A b \in Buffers : IF buf[b].block = 0 THEN unread[b] = <<>> ELSE as_string(buf[b]) = unread[b]
    /\ (\A i \in DOMAIN chain : chain[i].block # 0) => to_string = Flat(linked)
=============================================================================
