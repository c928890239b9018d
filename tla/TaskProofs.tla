----------------------------- MODULE TaskProofs -----------------------------
(***************************************************************************)
(* Task.  SoundIfUsedWell says nothing of the stacks and is not inductive. *)
(* A call is active while its user runs in it; in suspend and transfer the *)
(* user is suspended already, and another thread may resume it.            *)
(***************************************************************************)
EXTENDS MCTask, TLAPS

Acting == {"start", "get", "spin", "ready", "cancel", "suspend", "transfer"}
Calls == [user : T!Users, at : Acting \cup {"body", "final"}, of : Coros \cup {None}]

TaskTypes ==
  /\ state \in [Coros -> {"Created", "Running", "Completed", "Cancelled"}]
  /\ continuation \in [Coros -> Coros \cup {None}] /\ awaits \in [Coros -> Coros \cup {None}]
  /\ point \in [Coros -> {"initial", "await", "io", "none"}]
  /\ calls \in [T!Threads -> Seq(Calls)]
  /\ done \subseteq Coros /\ freed \subseteq Coros
  /\ used \in [Coros -> SUBSET T!Users] /\ \A t \in Coros : IsFiniteSet(used[t])
  /\ eager \in BOOLEAN /\ cancelled \in BOOLEAN /\ abandoned \in BOOLEAN /\ raced \in BOOLEAN
  /\ wrong \subseteq {"twice", "early", "freed"}

\* the calls on the stacks, and those other than the m-th of thread h
Stacked == {k \in Calls : \E g \in T!Threads : \E j \in 1..Len(calls[g]) : calls[g][j] = k}
OthersIn(cs, h, m) ==
  {k \in Calls : \E g \in T!Threads : \E j \in 1..Len(cs[g]) : ~(g = h /\ j = m) /\ cs[g][j] = k}
Others(h, m) == OthersIn(calls, h, m)

Active(c) == c.at \notin {"suspend", "transfer"}
Live(c) == c.at = "transfer" \/ (c.at = "suspend" /\ state[c.of] = "Created")
ActiveCalls == {c \in Calls : Active(c)}
LiveCalls == {c \in Calls : Live(c)}

\* no two of the calls in Q, on the stacks cs, are of the same user
Apart(cs, Q) ==
  \A g, h \in T!Threads : \A i \in 1..Len(cs[g]) : \A j \in 1..Len(cs[h]) :
    cs[g][i] \in Q /\ cs[h][j] \in Q /\ cs[g][i].user = cs[h][j].user => g = h /\ i = j

\* The plain code awaits nothing, and a user that acts on a task is among its users.
CallTyped(c) ==
  /\ c.at \in Acting => c.of \in Coros /\ c.user \in used[c.of]
  /\ c.user = Main => c.at \in {"body", "start", "get", "spin", "cancel"}

\* A coroutine runs in one place at most, and is not suspended then.
Runs(c) == c.user # Main /\ Active(c) => point[c.user] = "none"
ActiveApart == Apart(calls, ActiveCalls)
Waits(u) == awaits[u] # None <=> point[u] = "await"
RunInv == (\A c \in Stacked : Runs(c)) /\ ActiveApart /\ \A u \in Coros : Waits(u)

\* Of a task with one user, awaited before it is started.
Single == \A t \in Coros : \A u, v \in used[t] : u = v
Awaited(t) == continuation[t] # None => point[continuation[t]] = "await" /\ awaits[continuation[t]] = t
CoroSound(t) ==
  /\ state[t] = "Created" => point[t] = "initial"
  /\ state[t] = "Completed" => t \in done
  /\ state[t] = "Cancelled" => cancelled
  /\ t \in done => point[t] = "none"
  /\ t \notin done => Awaited(t)
CallSound(c) ==
  /\ c.at \in {"start", "get", "transfer"} => state[c.of] = "Created"
  /\ c.at = "cancel" => cancelled
  /\ c.at = "final" => Awaited(c.user)
  /\ Active(c) => (c.user \in done <=> c.at = "final")
  /\ Live(c) => point[c.user] = "await" /\ awaits[c.user] = c.of
LiveApart == Apart(calls, LiveCalls)
\* ... and destroyed after its end: no call needs a destroyed frame.
Clean == ~cancelled /\ ~abandoned /\ ~raced
FrameKept(c) ==
  /\ c.at \in Acting /\ (c.at = "suspend" => Live(c)) => c.of \notin freed
  /\ c.at = "final" => c.user \notin freed
SoundInv ==
  /\ \A t \in Coros : CoroSound(t)
  /\ \A c \in Stacked : CallSound(c)
  /\ LiveApart
  /\ Clean => /\ \A t \in freed : t \in done \/ state[t] = "Created"
              /\ \A c \in Stacked : FrameKept(c)

Judged ==
  /\ "twice" \notin wrong
  /\ ~cancelled => "early" \notin wrong
  /\ Clean => "freed" \notin wrong

TaskInv ==
  /\ TaskTypes
  /\ \A c \in Stacked : CallTyped(c)
  /\ wrong = {} => RunInv
  /\ Single /\ ~eager => Judged /\ (wrong = {} => SoundInv)

-----------------------------------------------------------------------------
(* The stacks. *)

\* Sequences and finite sets.
LEMMA SeqFacts ==
  ASSUME NEW X, NEW s \in Seq(X)
  PROVE  /\ Len(s) \in Nat /\ (s # <<>> => Len(s) > 0)
         /\ \A i \in 1..Len(s) : s[i] \in X
OBVIOUS

LEMMA ConcatTwo ==
  ASSUME NEW X, NEW s \in Seq(X), NEW x \in X, NEW y \in X
  PROVE  /\ s \o <<x, y>> \in Seq(X) /\ Len(s \o <<x, y>>) = Len(s) + 2
         /\ (s \o <<x, y>>)[Len(s) + 1] = x /\ (s \o <<x, y>>)[Len(s) + 2] = y
         /\ \A i \in 1..Len(s) : (s \o <<x, y>>)[i] = s[i]
<1>1. <<x, y>> \in Seq(X) /\ Len(<<x, y>>) = 2 /\ <<x, y>>[1] = x /\ <<x, y>>[2] = y
  OBVIOUS
<1> QED
  BY <1>1

LEMMA FiniteEmpty == IsFiniteSet({})
<1>1. <<>> \in Seq({}) /\ \A x \in {} : \E i \in 1..Len(<<>>) : <<>>[i] = x
  OBVIOUS
<1> QED
  BY <1>1, Zenon DEF IsFiniteSet

LEMMA FiniteAdd ==
  ASSUME NEW X, NEW x, IsFiniteSet(X)
  PROVE  IsFiniteSet(X \cup {x})
<1>1. PICK s \in Seq(X) : \A y \in X : \E i \in 1..Len(s) : s[i] = y
  BY Zenon DEF IsFiniteSet
<1>2. Append(s, x) \in Seq(X \cup {x}) /\ Len(Append(s, x)) = Len(s) + 1
  OBVIOUS
<1>3. \A y \in X \cup {x} : \E i \in 1..Len(Append(s, x)) : Append(s, x)[i] = y
  <2>1. \A i \in 1..Len(s) : Append(s, x)[i] = s[i] /\ i \in 1..Len(Append(s, x))
    OBVIOUS
  <2>2. Append(s, x)[Len(s) + 1] = x /\ Len(s) + 1 \in 1..Len(Append(s, x))
    OBVIOUS
  <2> QED
    BY <1>1, <2>1, <2>2, Zenon
<1> QED
  BY <1>2, <1>3, Zenon DEF IsFiniteSet

\* The m-th call of thread h becomes c, or goes; the others stay.
Moves(cs, ds, h, m, c) ==
  \A g \in T!Threads : \A j \in 1..Len(ds[g]) :
    \/ j \in 1..Len(cs[g]) /\ ds[g][j] = cs[g][j] /\ ~(g = h /\ j = m)
    \/ g = h /\ j = m /\ ds[g][j] = c
Becomes(h, m, c) == Moves(calls, calls', h, m, c)

LEMMA TopCall ==
  ASSUME TaskTypes, NEW h \in T!Threads, calls[h] # <<>>
  PROVE  /\ Len(calls[h]) \in Nat /\ Len(calls[h]) > 0
         /\ T!Top(h) \in Stacked /\ T!Top(h) = calls[h][Len(calls[h])] /\ T!Top(h) \in Calls
<1>1. calls[h] \in Seq(Calls)
  BY Zenon DEF TaskTypes
<1>2. Len(calls[h]) \in Nat /\ Len(calls[h]) > 0
  BY <1>1, SeqFacts, Zenon
<1>3. Len(calls[h]) \in 1..Len(calls[h])
  BY <1>2
<1>4. calls[h][Len(calls[h])] \in Calls
  BY <1>1, <1>3, SeqFacts, Zenon
<1> QED
  BY <1>2, <1>3, <1>4, Zenon DEF Stacked, T!Top

LEMMA PopStack ==
  ASSUME TaskTypes, NEW h \in T!Threads, calls[h] # <<>>, T!Stack(h, T!Below(h)), NEW c
  PROVE  calls' \in [T!Threads -> Seq(Calls)] /\ Becomes(h, Len(calls[h]), c)
<1>1. calls[h] \in Seq(Calls) /\ Len(calls[h]) \in Nat /\ Len(calls[h]) > 0
  BY TopCall, Zenon DEF TaskTypes
<1> DEFINE b == T!Below(h)
<1>2. b \in Seq(Calls) /\ Len(b) = Len(calls[h]) - 1 /\ \A j \in 1..Len(b) : b[j] = calls[h][j]
  BY <1>1 DEF T!Below
<1>3. calls' = [calls EXCEPT ![h] = b]
  BY Zenon DEF T!Stack
<1> HIDE DEF b
<1>4. calls'[h] = b /\ \A g \in T!Threads : g # h => calls'[g] = calls[g]
  BY <1>3, Zenon DEF TaskTypes
<1>5. calls' \in [T!Threads -> Seq(Calls)]
  BY <1>2, <1>3, Zenon DEF TaskTypes
<1>6. ASSUME NEW g \in T!Threads, NEW j \in 1..Len(calls'[g])
      PROVE  j \in 1..Len(calls[g]) /\ calls'[g][j] = calls[g][j] /\ ~(g = h /\ j = Len(calls[h]))
  <2>1. CASE g = h
    BY <1>1, <1>2, <1>4, <2>1
  <2>2. CASE g # h
    BY <1>4, <2>2, Zenon
  <2> QED
    BY <2>1, <2>2, Zenon
<1> QED
  BY <1>5, <1>6, Zenon DEF Becomes, Moves

LEMMA GotoStack ==
  ASSUME TaskTypes, NEW h \in T!Threads, calls[h] # <<>>, NEW c \in Calls,
         T!Stack(h, Append(T!Below(h), c))
  PROVE  calls' \in [T!Threads -> Seq(Calls)] /\ Becomes(h, Len(calls[h]), c)
<1>1. calls[h] \in Seq(Calls) /\ Len(calls[h]) \in Nat /\ Len(calls[h]) > 0
  BY TopCall, Zenon DEF TaskTypes
<1> DEFINE b == T!Below(h)  s == Append(b, c)
<1>2. b \in Seq(Calls) /\ Len(b) = Len(calls[h]) - 1 /\ \A j \in 1..Len(b) : b[j] = calls[h][j]
  BY <1>1 DEF T!Below
<1> HIDE DEF b
<1>3. s \in Seq(Calls) /\ Len(s) = Len(calls[h]) /\ s[Len(calls[h])] = c
      /\ \A j \in 1..(Len(calls[h]) - 1) : s[j] = calls[h][j]
  BY <1>1, <1>2
<1>4. calls' = [calls EXCEPT ![h] = s]
  BY Zenon DEF T!Stack, b
<1> HIDE DEF s
<1>5. calls'[h] = s /\ \A g \in T!Threads : g # h => calls'[g] = calls[g]
  BY <1>4, Zenon DEF TaskTypes
<1>6. calls' \in [T!Threads -> Seq(Calls)]
  BY <1>3, <1>4, Zenon DEF TaskTypes
<1>7. ASSUME NEW g \in T!Threads, NEW j \in 1..Len(calls'[g])
      PROVE  \/ j \in 1..Len(calls[g]) /\ calls'[g][j] = calls[g][j] /\ ~(g = h /\ j = Len(calls[h]))
             \/ g = h /\ j = Len(calls[h]) /\ calls'[g][j] = c
  <2>1. CASE g = h
    BY <1>1, <1>3, <1>5, <2>1
  <2>2. CASE g # h
    BY <1>5, <2>2, Zenon
  <2> QED
    BY <2>1, <2>2, Zenon
<1> QED
  BY <1>6, <1>7, Zenon DEF Becomes, Moves

LEMMA PushStack ==
  ASSUME TaskTypes, NEW h \in T!Threads, calls[h] = <<>>, NEW c \in Calls, T!Stack(h, <<c>>)
  PROVE  calls' \in [T!Threads -> Seq(Calls)] /\ Becomes(h, 1, c)
<1>1. calls' = [calls EXCEPT ![h] = <<c>>] /\ <<c>> \in Seq(Calls)
  BY DEF T!Stack
<1>2. calls'[h] = <<c>> /\ \A g \in T!Threads : g # h => calls'[g] = calls[g]
  BY <1>1, ZenonT(30) DEF TaskTypes
<1>3. calls' \in [T!Threads -> Seq(Calls)]
  BY <1>1, Zenon DEF TaskTypes
<1>4. ASSUME NEW g \in T!Threads, NEW j \in 1..Len(calls'[g])
      PROVE  \/ j \in 1..Len(calls[g]) /\ calls'[g][j] = calls[g][j] /\ ~(g = h /\ j = 1)
             \/ g = h /\ j = 1 /\ calls'[g][j] = c
  <2>1. CASE g = h
    BY <1>2, <2>1
  <2>2. CASE g # h
    BY <1>2, <2>2, Zenon
  <2> QED
    BY <2>1, <2>2, Zenon
<1> QED
  BY <1>3, <1>4, Zenon DEF Becomes, Moves

LEMMA SameStack ==
  ASSUME TaskTypes, NEW h \in T!Threads, calls[h] # <<>>, calls' = calls
  PROVE  calls' \in [T!Threads -> Seq(Calls)] /\ Becomes(h, Len(calls[h]), T!Top(h))
<1>1. T!Top(h) = calls[h][Len(calls[h])]
  BY TopCall, Zenon
<1> QED
  BY <1>1, Zenon DEF Becomes, Moves, TaskTypes

\* A task that is started or awaited in get() runs on top of its user.
MovesTwo(cs, ds, h, m, c, d) ==
  \A g \in T!Threads : \A j \in 1..Len(ds[g]) :
    \/ j \in 1..Len(cs[g]) /\ ds[g][j] = cs[g][j] /\ ~(g = h /\ j = m)
    \/ g = h /\ j = m /\ ds[g][j] = c
    \/ g = h /\ j = m + 1 /\ ds[g][j] = d
BecomesTwo(h, m, c, d) == MovesTwo(calls, calls', h, m, c, d)

LEMMA InlineStack ==
  ASSUME TaskTypes, NEW h \in T!Threads, calls[h] # <<>>, NEW c \in Calls, NEW d \in Calls,
         T!Stack(h, T!Below(h) \o <<c, d>>)
  PROVE  calls' \in [T!Threads -> Seq(Calls)] /\ BecomesTwo(h, Len(calls[h]), c, d)
<1>1. calls[h] \in Seq(Calls) /\ Len(calls[h]) \in Nat /\ Len(calls[h]) > 0
  BY TopCall, Zenon DEF TaskTypes
<1> DEFINE b == T!Below(h)  s == b \o <<c, d>>
<1>2. b \in Seq(Calls) /\ Len(b) = Len(calls[h]) - 1 /\ \A j \in 1..Len(b) : b[j] = calls[h][j]
  BY <1>1 DEF T!Below
<1> HIDE DEF b
<1>a. /\ s \in Seq(Calls) /\ Len(s) = Len(b) + 2 /\ s[Len(b) + 1] = c /\ s[Len(b) + 2] = d
      /\ \A j \in 1..Len(b) : s[j] = b[j]
  BY <1>2, ConcatTwo
<1> HIDE DEF s
<1>3. s \in Seq(Calls) /\ Len(s) = Len(calls[h]) + 1 /\ s[Len(calls[h])] = c /\ s[Len(calls[h]) + 1] = d
      /\ \A j \in 1..(Len(calls[h]) - 1) : s[j] = calls[h][j]
  BY <1>1, <1>2, <1>a
<1>4. calls' = [calls EXCEPT ![h] = s]
  BY Zenon DEF T!Stack, b, s
<1>5. calls'[h] = s /\ \A g \in T!Threads : g # h => calls'[g] = calls[g]
  BY <1>4, ZenonT(30) DEF TaskTypes
<1>6. calls' \in [T!Threads -> Seq(Calls)]
  BY <1>3, <1>4, Zenon DEF TaskTypes
<1>7. ASSUME NEW g \in T!Threads, NEW j \in 1..Len(calls'[g])
      PROVE  \/ j \in 1..Len(calls[g]) /\ calls'[g][j] = calls[g][j] /\ ~(g = h /\ j = Len(calls[h]))
             \/ g = h /\ j = Len(calls[h]) /\ calls'[g][j] = c
             \/ g = h /\ j = Len(calls[h]) + 1 /\ calls'[g][j] = d
  <2>1. CASE g = h
    <3>1. PICK n \in Nat : n = Len(calls[h]) /\ n > 0
      BY <1>1, Zenon
    <3>2. \A k \in 1..(n + 1) : \/ k \in 1..(n - 1) /\ k \in 1..n /\ k # n
                                \/ k = n \/ k = n + 1
      BY <3>1
    <3>3. j \in 1..(n + 1) /\ calls'[g] = s
      BY <1>3, <1>5, <2>1, <3>1, Zenon
    <3> QED
      BY <1>3, <2>1, <3>1, <3>2, <3>3, Zenon
  <2>2. CASE g # h
    BY <1>5, <2>2, Zenon
  <2> QED
    BY <2>1, <2>2, Zenon
<1> QED
  BY <1>6, <1>7, Zenon DEF BecomesTwo, MovesTwo

LEMMA StackedNext ==
  ASSUME NEW h \in T!Threads, NEW m, NEW c, Becomes(h, m, c)
  PROVE  \A k \in Stacked' : k \in Others(h, m) \/ k = c
BY Zenon DEF Becomes, Moves, Stacked, Others, OthersIn

LEMMA StackedNextTwo ==
  ASSUME NEW h \in T!Threads, NEW m, NEW c, NEW d, BecomesTwo(h, m, c, d)
  PROVE  \A k \in Stacked' : k \in Others(h, m) \/ k = c \/ k = d
BY Zenon DEF BecomesTwo, MovesTwo, Stacked, Others, OthersIn

LEMMA OthersStacked == \A h, m : \A k \in Others(h, m) : k \in Stacked
BY Zenon DEF Stacked, Others, OthersIn

\* A step that puts c where the user of no other call in Q runs keeps the calls apart.
LEMMA ApartNext ==
  ASSUME NEW cs, NEW ds, NEW Q, NEW R, NEW h \in T!Threads, NEW m, NEW c,
         \A a \in T!Threads : \A p \in 1..Len(cs[a]) : cs[a][p] \in Calls,
         Apart(cs, Q), Moves(cs, ds, h, m, c),
         \A k \in OthersIn(cs, h, m) : k \in R => k \in Q,
         c \in R => \A k \in OthersIn(cs, h, m) : k \in Q => k.user # c.user
  PROVE  Apart(ds, R)
<1> SUFFICES ASSUME NEW f \in T!Threads, NEW g \in T!Threads,
                    NEW i \in 1..Len(ds[f]), NEW j \in 1..Len(ds[g]),
                    ds[f][i] \in R, ds[g][j] \in R, ds[f][i].user = ds[g][j].user
             PROVE  f = g /\ i = j
  BY Zenon DEF Apart
<1> DEFINE Stays(a, p) == p \in 1..Len(cs[a]) /\ ds[a][p] = cs[a][p] /\ ~(a = h /\ p = m)
           New(a, p) == a = h /\ p = m /\ ds[a][p] = c
<1>1. (Stays(f, i) \/ New(f, i)) /\ (Stays(g, j) \/ New(g, j))
  BY Zenon DEF Moves
<1>2. \A a \in T!Threads : \A p \in 1..Len(cs[a]) : Stays(a, p) => ds[a][p] \in OthersIn(cs, h, m)
  BY Zenon DEF OthersIn
<1>3. CASE Stays(f, i) /\ Stays(g, j)
  <2>1. cs[f][i] \in Q /\ cs[g][j] \in Q /\ cs[f][i].user = cs[g][j].user
    BY <1>2, <1>3, Zenon
  <2> QED
    BY <1>3, <2>1 DEF Apart
<1>4. CASE Stays(f, i) /\ New(g, j)
  BY <1>2, <1>4, Zenon
<1>5. CASE New(f, i) /\ Stays(g, j)
  BY <1>2, <1>5, Zenon
<1>6. CASE New(f, i) /\ New(g, j)
  BY <1>6, Zenon
<1> HIDE DEF Stays, New
<1> QED
  BY <1>1, <1>3, <1>4, <1>5, <1>6, Zenon

LEMMA ApartNextTwo ==
  ASSUME NEW cs, NEW ds, NEW Q, NEW R, NEW h \in T!Threads, NEW m, NEW c, NEW d,
         \A a \in T!Threads : \A p \in 1..Len(cs[a]) : cs[a][p] \in Calls,
         Apart(cs, Q), MovesTwo(cs, ds, h, m, c, d),
         \A k \in OthersIn(cs, h, m) : k \in R => k \in Q,
         c \in R => \A k \in OthersIn(cs, h, m) : k \in Q => k.user # c.user,
         d \in R => \A k \in OthersIn(cs, h, m) : k \in Q => k.user # d.user,
         c \in R /\ d \in R => c.user # d.user
  PROVE  Apart(ds, R)
<1> SUFFICES ASSUME NEW f \in T!Threads, NEW g \in T!Threads,
                    NEW i \in 1..Len(ds[f]), NEW j \in 1..Len(ds[g]),
                    ds[f][i] \in R, ds[g][j] \in R, ds[f][i].user = ds[g][j].user
             PROVE  f = g /\ i = j
  BY Zenon DEF Apart
<1> DEFINE Stays(a, p) == p \in 1..Len(cs[a]) /\ ds[a][p] = cs[a][p] /\ ~(a = h /\ p = m)
           New(a, p) == a = h /\ p = m /\ ds[a][p] = c
           Newer(a, p) == a = h /\ p = m + 1 /\ ds[a][p] = d
<1>1. (Stays(f, i) \/ New(f, i) \/ Newer(f, i)) /\ (Stays(g, j) \/ New(g, j) \/ Newer(g, j))
  BY Zenon DEF MovesTwo
<1>2. \A a \in T!Threads : \A p \in 1..Len(cs[a]) : Stays(a, p) => ds[a][p] \in OthersIn(cs, h, m)
  BY Zenon DEF OthersIn
<1>3. CASE Stays(f, i) /\ Stays(g, j)
  <2>1. cs[f][i] \in Q /\ cs[g][j] \in Q /\ cs[f][i].user = cs[g][j].user
    BY <1>2, <1>3, Zenon
  <2> QED
    BY <1>3, <2>1 DEF Apart
<1>4. CASE Stays(f, i) /\ (New(g, j) \/ Newer(g, j))
  <2>1. ds[f][i] \in OthersIn(cs, h, m) /\ ds[f][i] \in Q
    BY <1>2, <1>4, Zenon
  <2> QED
    BY <1>4, <2>1, Zenon
<1>5. CASE (New(f, i) \/ Newer(f, i)) /\ Stays(g, j)
  <2>1. ds[g][j] \in OthersIn(cs, h, m) /\ ds[g][j] \in Q
    BY <1>2, <1>5, Zenon
  <2> QED
    BY <1>5, <2>1, Zenon
<1>6. CASE (New(f, i) \/ Newer(f, i)) /\ (New(g, j) \/ Newer(g, j))
  BY <1>6, Zenon
<1> HIDE DEF Stays, New, Newer
<1> QED
  BY <1>1, <1>3, <1>4, <1>5, <1>6, Zenon

-----------------------------------------------------------------------------
(* What the invariant says of the call on top of a stack and of the other calls. *)

LEMMA StacksOfCalls ==
  ASSUME TaskTypes
  PROVE  \A g \in T!Threads : \A j \in 1..Len(calls[g]) : calls[g][j] \in Calls
BY SeqFacts, Zenon DEF TaskTypes

\* Two calls that are both active, or both live, are of different users.
LEMMA OtherUser ==
  ASSUME TaskTypes, NEW h \in T!Threads, calls[h] # <<>>, NEW Q, Apart(calls, Q), T!Top(h) \in Q,
         NEW k \in Others(h, Len(calls[h])), k \in Q
  PROVE  k.user # T!Top(h).user
<1>1. Len(calls[h]) \in 1..Len(calls[h]) /\ T!Top(h) = calls[h][Len(calls[h])]
  BY TopCall
<1>2. PICK g \in T!Threads : \E j \in 1..Len(calls[g]) : ~(g = h /\ j = Len(calls[h])) /\ calls[g][j] = k
  BY Zenon DEF Others, OthersIn
<1>3. PICK j \in 1..Len(calls[g]) : ~(g = h /\ j = Len(calls[h])) /\ calls[g][j] = k
  BY <1>2, Zenon
<1> QED
  BY <1>1, <1>3 DEF Apart

LEMMA OtherActive ==
  ASSUME TaskTypes, ActiveApart, NEW h \in T!Threads, calls[h] # <<>>, Active(T!Top(h)),
         NEW k \in Others(h, Len(calls[h])), Active(k)
  PROVE  k.user # T!Top(h).user
<1>1. T!Top(h) \in ActiveCalls /\ k \in ActiveCalls
  <2>1. T!Top(h) \in Calls
    BY TopCall, Zenon
  <2>2. k \in Calls
    BY Zenon DEF Others, OthersIn
  <2> QED
    BY <2>1, <2>2, Zenon DEF ActiveCalls
<1> QED
  BY <1>1, OtherUser, Zenon DEF ActiveApart

LEMMA OtherLive ==
  ASSUME TaskTypes, LiveApart, NEW h \in T!Threads, calls[h] # <<>>, Live(T!Top(h)),
         NEW k \in Others(h, Len(calls[h])), Live(k)
  PROVE  k.user # T!Top(h).user
<1>1. T!Top(h) \in LiveCalls /\ k \in LiveCalls
  <2>1. T!Top(h) \in Calls
    BY TopCall, Zenon
  <2>2. k \in Calls
    BY Zenon DEF Others, OthersIn
  <2> QED
    BY <2>1, <2>2, Zenon DEF LiveCalls
<1> QED
  BY <1>1, OtherUser, Zenon DEF LiveApart

\* A coroutine whose call is live is suspended, so no other call of it is active.
LEMMA LiveNotActive ==
  ASSUME \A c \in Stacked : CallTyped(c) /\ Runs(c) /\ CallSound(c),
         NEW c \in Stacked, NEW d \in Stacked, Live(c), Active(d)
  PROVE  c.user # d.user
<1>1. c.user # Main
  BY Zenon DEF CallTyped, Live
<1>2. point[c.user] = "await"
  BY Zenon DEF CallSound
<1> QED
  BY <1>1, <1>2, Zenon DEF Runs

\* With one user per task the call on top is the only one, but for stale awaits, that acts
\* on its user's task.
Present(c) == Active(c) \/ Live(c)
LEMMA OnlyOne ==
  ASSUME TaskTypes, RunInv, SoundInv, \A c \in Stacked : CallTyped(c),
         NEW h \in T!Threads, calls[h] # <<>>, Present(T!Top(h)),
         NEW k \in Others(h, Len(calls[h])), Present(k)
  PROVE  k.user # T!Top(h).user
<1>1. T!Top(h) \in Stacked /\ k \in Stacked
  BY TopCall, OthersStacked, Zenon
<1>2. \A c \in Stacked : CallTyped(c) /\ Runs(c) /\ CallSound(c)
  BY Zenon DEF RunInv, SoundInv
<1>3. CASE Active(T!Top(h)) /\ Active(k)
  BY <1>3, OtherActive, Zenon DEF RunInv
<1>4. CASE Live(T!Top(h)) /\ Live(k)
  BY <1>4, OtherLive, Zenon DEF SoundInv
<1>5. CASE Live(T!Top(h)) /\ Active(k)
  <2>1. T!Top(h).user # k.user
    BY <1>1, <1>2, <1>5, LiveNotActive, Zenon
  <2> QED
    BY <2>1, Zenon
<1>6. CASE Active(T!Top(h)) /\ Live(k)
  BY <1>1, <1>2, <1>6, LiveNotActive, Zenon
<1> QED
  BY <1>3, <1>4, <1>5, <1>6, Zenon DEF Present

LEMMA OnlyUser ==
  ASSUME TaskTypes, RunInv, SoundInv, \A c \in Stacked : CallTyped(c), Single',
         NEW h \in T!Threads, calls[h] # <<>>, Present(T!Top(h)),
         NEW t \in Coros, T!Top(h).user \in used'[t], used[t] \subseteq used'[t],
         NEW k \in Others(h, Len(calls[h])), Present(k), k.at \in Acting
  PROVE  k.of # t
<1>1. k.user # T!Top(h).user
  BY OnlyOne, Zenon
<1>2. k.user \in used[k.of]
  BY OthersStacked, Zenon DEF CallTyped
<1> QED
  BY <1>1, <1>2, Zenon DEF Single

-----------------------------------------------------------------------------
(* What a step has to show. *)

Grows == \A t \in Coros : used[t] \subseteq used'[t]

LEMMA SingleBefore ==
  ASSUME Grows, Single'
  PROVE  Single
BY Zenon DEF Grows, Single

LEMMA StepTyped ==
  ASSUME \A k \in Stacked : CallTyped(k), Grows,
         NEW h \in T!Threads, NEW m, NEW c, Becomes(h, m, c), c \in Calls => CallTyped(c)'
  PROVE  (\A k \in Stacked : CallTyped(k))'
<1>1. ASSUME NEW k \in Stacked' PROVE CallTyped(k)'
  <2>1. CASE k = c
    BY <2>1, Zenon DEF Stacked
  <2>2. CASE k \in Others(h, m)
    <3>1. CallTyped(k)
      BY <2>2, OthersStacked, Zenon
    <3> QED
      BY <3>1, Zenon DEF CallTyped, Grows
  <2> QED
    BY <2>1, <2>2, StackedNext, Zenon
<1> QED
  BY <1>1, Zenon

LEMMA StepRuns ==
  ASSUME TaskTypes, RunInv, NEW h \in T!Threads, NEW m, NEW c, Becomes(h, m, c),
         \A k \in Others(h, m) : Runs(k)',
         c \in Calls => Runs(c)',
         c \in Calls /\ Active(c) => \A k \in Others(h, m) : Active(k) => k.user # c.user,
         \A u \in Coros : Waits(u)'
  PROVE  RunInv'
<1>1. (\A k \in Stacked : Runs(k))'
  <2>1. ASSUME NEW k \in Stacked' PROVE Runs(k)'
    BY StackedNext, ZenonT(30) DEF Stacked
  <2> QED
    BY <2>1, Zenon
<1>2. Apart(calls', ActiveCalls)
  <2>1. \A a \in T!Threads : \A p \in 1..Len(calls[a]) : calls[a][p] \in Calls
    BY StacksOfCalls, Zenon
  <2>2. Apart(calls, ActiveCalls) /\ Moves(calls, calls', h, m, c)
    BY Zenon DEF RunInv, ActiveApart, Becomes
  <2>3. c \in ActiveCalls => \A k \in OthersIn(calls, h, m) : k \in ActiveCalls => k.user # c.user
    BY Zenon DEF ActiveCalls, Others
  <2> QED
    BY <2>1, <2>2, <2>3, ApartNext, Zenon
<1>3. ActiveApart'
  BY <1>2, Zenon DEF ActiveApart, ActiveCalls, Active
<1> QED
  BY <1>1, <1>3, Zenon DEF RunInv

LEMMA StepSound ==
  ASSUME TaskTypes, SoundInv, NEW h \in T!Threads, NEW m, NEW c, Becomes(h, m, c),
         \A t \in Coros : CoroSound(t)',
         \A k \in Others(h, m) : CallSound(k)' /\ (Live(k)' => Live(k)),
         c \in Calls => CallSound(c)',
         c \in Calls /\ Live(c)' => \A k \in Others(h, m) : Live(k) => k.user # c.user,
         Clean' => /\ \A t \in freed' : t \in done' \/ state'[t] = "Created"
                   /\ \A k \in Others(h, m) : FrameKept(k)'
                   /\ c \in Calls => FrameKept(c)'
  PROVE  SoundInv'
<1>1. (\A k \in Stacked : CallSound(k))'
  <2>1. ASSUME NEW k \in Stacked' PROVE CallSound(k)'
    BY StackedNext, ZenonT(30) DEF Stacked
  <2> QED
    BY <2>1, Zenon
<1>2. Apart(calls', LiveCalls')
  <2>1. \A a \in T!Threads : \A p \in 1..Len(calls[a]) : calls[a][p] \in Calls
    BY StacksOfCalls, Zenon
  <2>2. Apart(calls, LiveCalls) /\ Moves(calls, calls', h, m, c)
    BY Zenon DEF SoundInv, LiveApart, Becomes
  <2>3. \A k \in OthersIn(calls, h, m) : k \in LiveCalls' => k \in LiveCalls
    BY Zenon DEF LiveCalls, Others
  <2>4. c \in LiveCalls' => \A k \in OthersIn(calls, h, m) : k \in LiveCalls => k.user # c.user
    BY Zenon DEF LiveCalls, Others
  <2> QED
    BY <2>1, <2>2, <2>3, <2>4, ApartNext, Zenon
<1>3. LiveApart'
  BY <1>2, Zenon DEF LiveApart
<1>4. Clean' => (\A k \in Stacked : FrameKept(k))'
  <2>1. ASSUME Clean', NEW k \in Stacked' PROVE FrameKept(k)'
    BY <2>1, StackedNext, Zenon DEF Stacked
  <2> QED
    BY <2>1, Zenon
<1> QED
  BY <1>1, <1>3, <1>4, Zenon DEF SoundInv

\* The steps of a user that change nothing but its own call and the history.
Quiet ==
  /\ UNCHANGED <<state, continuation, point, awaits, done, freed, eager, abandoned, raced>>
  /\ cancelled => cancelled'

LEMMA QuietCalls ==
  ASSUME Quiet, NEW k
  PROVE  /\ Live(k)' = Live(k) /\ (Runs(k) => Runs(k)') /\ (CallSound(k) => CallSound(k)')
         /\ Clean' => Clean
         /\ FrameKept(k) => FrameKept(k)'
<1> USE DEF Quiet
<1>1. Live(k)' = Live(k)
  BY Zenon DEF Live
<1>2. Runs(k) => Runs(k)'
  BY Zenon DEF Runs, Active
<1>3. CallSound(k) => CallSound(k)'
  BY <1>1, Zenon DEF CallSound, Active, Awaited
<1>4. Clean' => Clean
  BY Zenon DEF Clean
<1>5. FrameKept(k) => FrameKept(k)'
  BY <1>1, Zenon DEF FrameKept
<1> QED
  BY <1>1, <1>2, <1>3, <1>4, <1>5, Zenon

LEMMA QuietStep ==
  ASSUME TaskTypes, \A k \in Stacked : CallTyped(k), RunInv, Quiet, Grows,
         NEW h \in T!Threads, calls[h] # <<>>, NEW c, Becomes(h, Len(calls[h]), c),
         c.user = T!Top(h).user, Active(c) => Active(T!Top(h)), Live(c) => Live(T!Top(h)),
         CallTyped(c)'
  PROVE  /\ (\A k \in Stacked : CallTyped(k))' /\ RunInv'
         /\ SoundInv /\ CallSound(c)' /\ (Clean' => FrameKept(c)') => SoundInv'
<1> DEFINE m == Len(calls[h])
<1>1. (\A k \in Stacked : CallTyped(k))'
  BY StepTyped, Zenon
<1>2. T!Top(h) \in Stacked /\ \A k \in Others(h, m) : k \in Stacked
  BY TopCall, OthersStacked, Zenon
<1>3. RunInv'
  <2>1. \A k \in Others(h, m) : Runs(k)'
    BY <1>2, QuietCalls, Zenon DEF RunInv
  <2>2. Runs(c)'
    <3>1. Runs(T!Top(h)) /\ UNCHANGED point
      BY <1>2, Zenon DEF RunInv, Quiet
    <3> QED
      BY <3>1, Zenon DEF Runs, Active
  <2>3. Active(c) => \A k \in Others(h, m) : Active(k) => k.user # c.user
    BY OtherActive, Zenon DEF RunInv
  <2>4. \A u \in Coros : Waits(u)'
    BY Zenon DEF RunInv, Waits, Quiet
  <2> QED
    BY <2>1, <2>2, <2>3, <2>4, StepRuns, Zenon
<1>4. ASSUME SoundInv, CallSound(c)', Clean' => FrameKept(c)' PROVE SoundInv'
  <2>1. \A t \in Coros : CoroSound(t)'
    BY <1>4, ZenonT(30) DEF SoundInv, CoroSound, Awaited, Quiet
  <2>2. \A k \in Others(h, m) : CallSound(k)' /\ (Live(k)' => Live(k))
    BY <1>2, <1>4, QuietCalls, Zenon DEF SoundInv
  <2>3. Live(c)' => \A k \in Others(h, m) : Live(k) => k.user # c.user
    BY <1>4, QuietCalls, OtherLive, Zenon DEF SoundInv
  <2>4. Clean' => /\ \A t \in freed' : t \in done' \/ state'[t] = "Created"
                  /\ \A k \in Others(h, m) : FrameKept(k)'
    <3> SUFFICES ASSUME Clean' PROVE /\ \A t \in freed' : t \in done' \/ state'[t] = "Created"
                                     /\ \A k \in Others(h, m) : FrameKept(k)'
      BY Zenon
    <3>1. Clean
      BY QuietCalls, Zenon
    <3> QED
      BY <1>2, <1>4, <3>1, QuietCalls, ZenonT(30) DEF SoundInv, Quiet
  <2> QED
    BY <1>4, <2>1, <2>2, <2>3, <2>4, StepSound, ZenonT(30)
<1> QED
  BY <1>1, <1>3, <1>4, Zenon

-----------------------------------------------------------------------------
(* The actions. *)

LEMMA TaskParts ==
  ASSUME TaskInv
  PROVE  /\ TaskTypes /\ (\A c \in Stacked : CallTyped(c))
         /\ wrong = {} => RunInv
         /\ Single /\ ~eager /\ wrong = {} => SoundInv
BY Zenon DEF TaskInv

LEMMA TaskWhole ==
  ASSUME TaskTypes', (\A c \in Stacked : CallTyped(c))', wrong' = {} => RunInv',
         Single' /\ ~eager' => Judged' /\ (wrong' = {} => SoundInv')
  PROVE  TaskInv'
BY Zenon DEF TaskInv

LEMMA NothingWrong ==
  ASSUME wrong' = {}
  PROVE  Judged'
BY Zenon DEF Judged

\* the call at position m of the stack of h is now at a
Placed(h, m, u, a, t) == \E c \in Calls : c.user = u /\ c.at = a /\ c.of = t /\ Becomes(h, m, c)

LEMMA GotoCall ==
  ASSUME TaskTypes, NEW h \in T!Threads, calls[h] # <<>>, NEW a \in Acting \cup {"body", "final"},
         NEW t \in Coros \cup {None}, T!Goto(h, a, t)
  PROVE  /\ calls' \in [T!Threads -> Seq(Calls)]
         /\ Placed(h, Len(calls[h]), T!Top(h).user, a, t)
<1> DEFINE c == T!Call(T!Top(h).user, a, t)
<1>1. T!Top(h).user \in T!Users
  BY TopCall, Zenon DEF Calls
<1>2. c \in Calls /\ c.user = T!Top(h).user /\ c.at = a /\ c.of = t
  BY <1>1, Zenon DEF T!Call, Calls
<1>3. T!Stack(h, Append(T!Below(h), c))
  BY Zenon DEF T!Goto
<1> HIDE DEF c
<1> QED
  BY <1>2, <1>3, GotoStack, Zenon DEF Placed

LEMMA Operates ==
  ASSUME TaskTypes, NEW h \in T!Threads, NEW t \in Coros, T!Operation(h, t)
  PROVE  /\ wrong = {} /\ calls[h] # <<>> /\ T!Top(h).at = "body" /\ Active(T!Top(h))
         /\ t \notin freed /\ t # T!Top(h).user
         /\ Grows /\ T!Top(h).user \in used'[t]
         /\ used' \in [Coros -> SUBSET T!Users] /\ \A s \in Coros : IsFiniteSet(used'[s])
<1>1. wrong = {} /\ calls[h] # <<>> /\ T!Top(h).at = "body" /\ t \notin freed /\ t # T!Top(h).user
  BY Zenon DEF T!Operation, T!At
<1>2. T!Top(h).user \in T!Users
  BY <1>1, TopCall, Zenon DEF Calls
<1>3. used \in [Coros -> SUBSET T!Users] /\ \A s \in Coros : IsFiniteSet(used[s])
  BY Zenon DEF TaskTypes
<1>4. used' = [used EXCEPT ![t] = @ \cup {T!Top(h).user}]
  BY Zenon DEF T!Operation
<1>5. used' \in [Coros -> SUBSET T!Users]
  BY <1>2, <1>3, <1>4, Zenon
<1>6. used'[t] = used[t] \cup {T!Top(h).user} /\ \A s \in Coros : s # t => used'[s] = used[s]
  BY <1>3, <1>4, Zenon
<1>7. \A s \in Coros : IsFiniteSet(used'[s])
  <2> TAKE s \in Coros
  <2>1. CASE s = t
    <3>1. IsFiniteSet(used[t] \cup {T!Top(h).user})
      BY <1>3, FiniteAdd, Zenon
    <3> QED
      BY <1>6, <2>1, <3>1, Zenon
  <2>2. CASE s # t
    BY <1>3, <1>6, <2>2, Zenon
  <2> QED
    BY <2>1, <2>2, Zenon
<1> QED
  BY <1>1, <1>5, <1>6, <1>7, Zenon DEF Grows, Active

LEMMA OperationStep ==
  ASSUME TaskInv, NEW h \in T!Threads, NEW t \in Coros, T!Operation(h, t),
         NEW a \in {"start", "get", "spin", "ready", "cancel"}, T!Goto(h, a, t),
         Quiet, cancelled' \in BOOLEAN, wrong' = wrong,
         a \in {"start", "get"} => state[t] = "Created",
         a = "ready" => T!Top(h).user # Main,
         a = "cancel" => cancelled'
  PROVE  TaskInv'
<1>1. /\ TaskTypes /\ (\A c \in Stacked : CallTyped(c))
      /\ wrong = {} => RunInv
      /\ Single /\ ~eager /\ wrong = {} => SoundInv
  BY TaskParts, Zenon
<1>2. /\ wrong = {} /\ calls[h] # <<>> /\ T!Top(h).at = "body" /\ Active(T!Top(h))
      /\ t \notin freed
      /\ Grows /\ T!Top(h).user \in used'[t]
      /\ used' \in [Coros -> SUBSET T!Users] /\ \A s \in Coros : IsFiniteSet(used'[s])
  BY <1>1, Operates, Zenon
<1>3. a \in Acting \cup {"body", "final"}
  BY Zenon DEF Acting
<1>4. calls' \in [T!Threads -> Seq(Calls)]
  BY <1>1, <1>2, <1>3, GotoCall, ZenonT(30)
<1>5. PICK c \in Calls : /\ c.user = T!Top(h).user /\ c.at = a /\ c.of = t
                         /\ Becomes(h, Len(calls[h]), c)
  <2>1. Placed(h, Len(calls[h]), T!Top(h).user, a, t)
    BY <1>1, <1>2, <1>3, GotoCall, ZenonT(30)
  <2> QED
    BY <2>1, Zenon DEF Placed
<1>6. TaskTypes'
  BY <1>1, <1>2, <1>4, Zenon DEF TaskTypes, Quiet
<1>7. CallTyped(c)'
  BY <1>2, <1>5, Zenon DEF CallTyped
<1>8. ~Live(c) /\ Active(c)
  BY <1>5, Zenon DEF Live, Active
<1>9. /\ (\A k \in Stacked : CallTyped(k))' /\ RunInv'
      /\ SoundInv /\ CallSound(c)' /\ (Clean' => FrameKept(c)') => SoundInv'
  BY <1>1, <1>2, <1>5, <1>7, <1>8, QuietStep, Zenon
<1>10. ASSUME Single', ~eager' PROVE SoundInv'
  <2>1. SoundInv
    BY <1>1, <1>2, <1>10, SingleBefore, Zenon DEF Quiet
  <2>2. c.user \notin done
    BY <1>1, <1>2, <1>5, <2>1, TopCall, ZenonT(30) DEF SoundInv, CallSound
  <2>3. CallSound(c)'
    BY <1>5, <1>8, <2>2, Zenon DEF CallSound, Live, Active, Quiet
  <2>4. FrameKept(c)'
    BY <1>2, <1>5, Zenon DEF FrameKept, Quiet
  <2> QED
    BY <1>9, <2>1, <2>3, <2>4, Zenon
<1> QED
  BY <1>2, <1>6, <1>9, <1>10, NothingWrong, TaskWhole, Zenon

LEMMA StartStep ==
  ASSUME TaskInv, NEW h \in T!Threads, NEW t \in Coros, T!start(h, t)
  PROVE  TaskInv'
<1>1. T!Operation(h, t) /\ T!Goto(h, "start", t) /\ state[t] = "Created" /\ wrong' = wrong
  BY Zenon DEF T!start
<1>2. Quiet /\ cancelled' = cancelled
  BY Zenon DEF T!start, T!flags, Quiet
<1>3. cancelled' \in BOOLEAN
  BY <1>2, TaskParts, Zenon DEF TaskTypes
<1> QED
  BY <1>1, <1>2, <1>3, OperationStep, Zenon

LEMMA GetStep ==
  ASSUME TaskInv, NEW h \in T!Threads, NEW t \in Coros, T!get(h, t)
  PROVE  TaskInv'
<1>1. T!Operation(h, t) /\ T!Goto(h, IF state[t] = "Created" THEN "get" ELSE "spin", t) /\ wrong' = wrong
  BY Zenon DEF T!get
<1>2. Quiet /\ cancelled' = cancelled
  BY Zenon DEF T!get, T!flags, Quiet
<1>3. cancelled' \in BOOLEAN
  BY <1>2, TaskParts, Zenon DEF TaskTypes
<1>4. CASE state[t] = "Created"
  BY <1>1, <1>2, <1>3, <1>4, OperationStep, Zenon
<1>5. CASE state[t] # "Created"
  BY <1>1, <1>2, <1>3, <1>5, OperationStep, Zenon
<1> QED
  BY <1>4, <1>5, Zenon

LEMMA CancelStep ==
  ASSUME TaskInv, NEW h \in T!Threads, NEW t \in Coros, T!cancel(h, t)
  PROVE  TaskInv'
<1>1. T!Operation(h, t) /\ T!Goto(h, "cancel", t) /\ wrong' = wrong
  BY Zenon DEF T!cancel
<1>2. Quiet /\ cancelled' = TRUE
  BY Zenon DEF T!cancel, Quiet
<1> QED
  BY <1>1, <1>2, OperationStep, Zenon

\* A result is there once the state says Completed; only cancel() stores Cancelled.
LEMMA ResultThere ==
  ASSUME SoundInv, NEW t \in Coros, T!Ended(t), ~cancelled
  PROVE  t \in done
BY Zenon DEF SoundInv, CoroSound, T!Ended

LEMMA AwaitReadyStep ==
  ASSUME TaskInv, NEW h \in T!Threads, NEW t \in Coros, T!await_ready(h, t)
  PROVE  TaskInv'
<1>1. T!Operation(h, t) /\ T!Top(h).user # Main
  BY Zenon DEF T!await_ready
<1>2. Quiet /\ cancelled' = cancelled
  BY Zenon DEF T!await_ready, T!flags, Quiet
<1>3. /\ TaskTypes /\ (\A c \in Stacked : CallTyped(c))
      /\ wrong = {} => RunInv
      /\ Single /\ ~eager /\ wrong = {} => SoundInv
  BY TaskParts, Zenon
<1>4. cancelled' \in BOOLEAN
  BY <1>2, <1>3, Zenon DEF TaskTypes
<1>5. CASE ~T!Ended(t)
  <2>1. T!Goto(h, "ready", t) /\ wrong' = wrong
    BY <1>5, Zenon DEF T!await_ready
  <2> QED
    BY <1>1, <1>2, <1>4, <2>1, OperationStep, Zenon
<1>6. CASE T!Ended(t)
  <2>1. wrong' = T!Receives(t) /\ calls' = calls
    BY <1>6, Zenon DEF T!await_ready
  <2>2. /\ wrong = {} /\ calls[h] # <<>> /\ Grows
        /\ used' \in [Coros -> SUBSET T!Users] /\ \A s \in Coros : IsFiniteSet(used'[s])
    BY <1>1, <1>3, Operates, Zenon
  <2>3. calls' \in [T!Threads -> Seq(Calls)]
    BY <1>3, <2>1, Zenon DEF TaskTypes
  <2>4. PICK c : c = T!Top(h)
    BY Zenon
  <2>5. Becomes(h, Len(calls[h]), c) /\ c \in Stacked
    BY <1>3, <2>1, <2>2, <2>4, SameStack, TopCall, Zenon
  <2>6. CallTyped(c)'
    <3>1. CallTyped(c)
      BY <1>3, <2>5, Zenon
    <3> QED
      BY <2>2, <3>1, Zenon DEF CallTyped, Grows
  <2>7. /\ (\A k \in Stacked : CallTyped(k))' /\ RunInv'
        /\ SoundInv /\ CallSound(c)' /\ (Clean' => FrameKept(c)') => SoundInv'
    BY <1>2, <1>3, <2>2, <2>4, <2>5, <2>6, QuietStep, Zenon
  <2>8. wrong' \subseteq {"early"} /\ (t \in done => wrong' = {})
    BY <2>1, Zenon DEF T!Receives
  <2>9. TaskTypes'
    BY <1>2, <1>3, <1>4, <2>2, <2>3, <2>8, Zenon DEF TaskTypes, Quiet
  <2>10. ASSUME Single', ~eager' PROVE Judged' /\ SoundInv'
    <3>1. SoundInv
      BY <1>2, <1>3, <2>2, <2>10, SingleBefore, Zenon DEF Quiet
    <3>2. CallSound(c)' /\ (Clean' => FrameKept(c)')
      BY <1>2, <2>5, <3>1, QuietCalls, Zenon DEF SoundInv
    <3>3. ~cancelled => wrong' = {}
      BY <1>6, <2>8, <3>1, ResultThere, Zenon
    <3>4. Judged'
      BY <1>2, <2>8, <3>3, Zenon DEF Judged, Clean
    <3> QED
      BY <2>7, <3>1, <3>2, <3>4, Zenon
  <2> QED
    BY <2>7, <2>9, <2>10, TaskWhole, Zenon
<1> QED
  BY <1>5, <1>6, Zenon

LEMMA GetReturnsStep ==
  ASSUME TaskInv, NEW h \in T!Threads, T!GetReturns(h)
  PROVE  TaskInv'
<1>1. /\ TaskTypes /\ (\A c \in Stacked : CallTyped(c))
      /\ wrong = {} => RunInv
      /\ Single /\ ~eager /\ wrong = {} => SoundInv
  BY TaskParts, Zenon
<1>2. wrong = {} /\ calls[h] # <<>> /\ T!Top(h).at = "spin"
  BY Zenon DEF T!GetReturns, T!At
<1>3. Quiet /\ UNCHANGED <<used, cancelled>>
  BY Zenon DEF T!GetReturns, T!flags, Quiet
<1>4. PICK t : t = T!Top(h).of
  BY Zenon
<1>5. /\ t \in freed \/ T!Ended(t)
      /\ wrong' = IF t \in freed THEN {"freed"} ELSE T!Receives(t)
      /\ T!Goto(h, "body", None)
  BY <1>4, Zenon DEF T!GetReturns
<1>6. T!Top(h) \in Stacked /\ t \in Coros
  BY <1>1, <1>2, <1>4, TopCall, Zenon DEF CallTyped, Acting
<1>7. calls' \in [T!Threads -> Seq(Calls)]
  BY <1>1, <1>2, <1>5, GotoCall, Zenon
<1>8. PICK c \in Calls : /\ c.user = T!Top(h).user /\ c.at = "body" /\ c.of = None
                         /\ Becomes(h, Len(calls[h]), c)
  <2>1. Placed(h, Len(calls[h]), T!Top(h).user, "body", None)
    BY <1>1, <1>2, <1>5, GotoCall, ZenonT(30)
  <2> QED
    BY <2>1, Zenon DEF Placed
<1>9. Grows /\ CallTyped(c)' /\ Active(c) /\ Active(T!Top(h)) /\ ~Live(c)
  BY <1>2, <1>3, <1>8, Zenon DEF Grows, CallTyped, Acting, Active, Live
<1>10. /\ (\A k \in Stacked : CallTyped(k))' /\ RunInv'
       /\ SoundInv /\ CallSound(c)' /\ (Clean' => FrameKept(c)') => SoundInv'
  BY <1>1, <1>2, <1>3, <1>8, <1>9, QuietStep, Zenon
<1>11. /\ t \in freed => wrong' = {"freed"}
       /\ t \notin freed => wrong' \subseteq {"early"} /\ (t \in done => wrong' = {})
  BY <1>5, Zenon DEF T!Receives
<1>12. TaskTypes'
  BY <1>1, <1>3, <1>7, <1>11, Zenon DEF TaskTypes, Quiet
<1>13. ASSUME Single', ~eager' PROVE Judged' /\ SoundInv'
  <2>1. SoundInv
    BY <1>1, <1>2, <1>3, <1>9, <1>13, SingleBefore, Zenon DEF Quiet
  <2>2. CallSound(T!Top(h)) /\ (Clean => FrameKept(T!Top(h)))
    BY <1>6, <2>1, Zenon DEF SoundInv
  <2>3. CallSound(c)' /\ FrameKept(c)'
    BY <1>2, <1>3, <1>8, <1>9, <2>2, Zenon DEF CallSound, FrameKept, Active, Live, Quiet, Acting
  <2>4. Clean => t \notin freed
    BY <1>2, <1>4, <2>2, Zenon DEF FrameKept, Acting
  <2>5. ~cancelled /\ t \notin freed => wrong' = {}
    BY <1>5, <1>6, <1>11, <2>1, ResultThere, Zenon
  <2>6. Judged'
    BY <1>3, <1>11, <2>4, <2>5, Zenon DEF Judged, Clean, Quiet
  <2> QED
    BY <1>10, <2>1, <2>3, <2>6, Zenon
<1> QED
  BY <1>10, <1>12, <1>13, TaskWhole, Zenon

LEMMA UsesFreed ==
  ASSUME NEW t
  PROVE  T!Uses({t}) \subseteq {"freed"} /\ (t \notin freed => T!Uses({t}) = {})
BY Zenon DEF T!Uses

LEMMA AwaitCreatedStep ==
  ASSUME TaskInv, NEW h \in T!Threads, T!AwaitCreated(h)
  PROVE  TaskInv'
<1>1. /\ TaskTypes /\ (\A c \in Stacked : CallTyped(c))
      /\ wrong = {} => RunInv
      /\ Single /\ ~eager /\ wrong = {} => SoundInv
  BY TaskParts, Zenon
<1>2. wrong = {} /\ calls[h] # <<>> /\ T!Top(h).at = "suspend" /\ state[T!Top(h).of] = "Created"
  BY Zenon DEF T!AwaitCreated, T!At
<1>3. Quiet /\ UNCHANGED <<used, cancelled>>
  BY Zenon DEF T!AwaitCreated, T!flags, Quiet
<1>4. PICK t : t = T!Top(h).of
  BY Zenon
<1>5. wrong' = T!Uses({t}) /\ T!Goto(h, "transfer", t)
  BY <1>4, Zenon DEF T!AwaitCreated
<1>6. T!Top(h) \in Stacked /\ t \in Coros /\ T!Top(h).user \in used[t] /\ T!Top(h).user # Main
  BY <1>1, <1>2, <1>4, TopCall, Zenon DEF CallTyped, Acting
<1>7. "transfer" \in Acting \cup {"body", "final"} /\ t \in Coros \cup {None}
  BY <1>6, Zenon DEF Acting
<1>8. calls' \in [T!Threads -> Seq(Calls)]
  BY <1>1, <1>2, <1>5, <1>7, GotoCall, Zenon
<1>9. PICK c \in Calls : /\ c.user = T!Top(h).user /\ c.at = "transfer" /\ c.of = t
                         /\ Becomes(h, Len(calls[h]), c)
  <2>1. Placed(h, Len(calls[h]), T!Top(h).user, "transfer", t)
    BY <1>1, <1>2, <1>5, <1>7, GotoCall, ZenonT(30)
  <2> QED
    BY <2>1, Zenon DEF Placed
<1>10. Grows /\ CallTyped(c)' /\ ~Active(c) /\ Live(T!Top(h))
  BY <1>2, <1>3, <1>6, <1>9, Zenon DEF Grows, CallTyped, Active, Live
<1>11. /\ (\A k \in Stacked : CallTyped(k))' /\ RunInv'
       /\ SoundInv /\ CallSound(c)' /\ (Clean' => FrameKept(c)') => SoundInv'
  BY <1>1, <1>2, <1>3, <1>9, <1>10, QuietStep, Zenon
<1>12. wrong' \subseteq {"freed"} /\ (t \notin freed => wrong' = {})
  BY <1>5, UsesFreed, Zenon
<1>13. TaskTypes'
  BY <1>1, <1>3, <1>8, <1>12, Zenon DEF TaskTypes, Quiet
<1>14. ASSUME Single', ~eager' PROVE Judged' /\ SoundInv'
  <2>1. SoundInv
    BY <1>1, <1>2, <1>3, <1>10, <1>14, SingleBefore, Zenon DEF Quiet
  <2>2. CallSound(T!Top(h)) /\ (Clean => FrameKept(T!Top(h)))
    BY <1>6, <2>1, Zenon DEF SoundInv
  <2>3. CallSound(c)'
    BY <1>2, <1>3, <1>4, <1>9, <1>10, <2>2, ZenonT(30) DEF CallSound, Active, Live, Quiet
  <2>4. Clean => t \notin freed
    BY <1>2, <1>4, <1>10, <2>2, Zenon DEF FrameKept, Acting
  <2>5. Clean' => FrameKept(c)'
    BY <1>3, <1>9, <2>4, Zenon DEF FrameKept, Clean, Quiet
  <2>6. Judged'
    BY <1>3, <1>12, <2>4, Zenon DEF Judged, Clean, Quiet
  <2> QED
    BY <1>11, <2>1, <2>3, <2>5, <2>6, Zenon
<1> QED
  BY <1>11, <1>13, <1>14, TaskWhole, Zenon

LEMMA DestroyStep ==
  ASSUME TaskInv, NEW h \in T!Threads, NEW t \in Coros, T!destroy(h, t)
  PROVE  TaskInv'
<1>1. /\ TaskTypes /\ (\A c \in Stacked : CallTyped(c))
      /\ wrong = {} => RunInv
      /\ Single /\ ~eager /\ wrong = {} => SoundInv
  BY TaskParts, Zenon
<1>2. /\ wrong = {} /\ calls[h] # <<>> /\ T!Top(h).at = "body" /\ Active(T!Top(h))
      /\ Grows /\ T!Top(h).user \in used'[t]
      /\ used' \in [Coros -> SUBSET T!Users] /\ \A s \in Coros : IsFiniteSet(used'[s])
  BY <1>1, Operates, Zenon DEF T!destroy
<1>3. UNCHANGED <<state, continuation, calls, point, awaits, done, eager, cancelled>>
  BY Zenon DEF T!destroy
<1>4. freed' = freed \cup {t} /\ wrong' = IF t \in done \/ point[t] # "none" THEN {} ELSE {"freed"}
  BY Zenon DEF T!destroy
<1>5. abandoned' = (abandoned \/ (t \notin done /\ state[t] # "Created"))
  BY Zenon DEF T!destroy
<1>6. raced' = (raced \/ \E g \in T!Threads : \E i \in DOMAIN calls[g] :
                            calls[g][i].user = t /\ calls[g][i].at = "final")
  BY Zenon DEF T!destroy
<1>7. PICK c : c = T!Top(h)
  BY Zenon
<1>8. Becomes(h, Len(calls[h]), c) /\ c \in Stacked
  BY <1>1, <1>2, <1>3, <1>7, SameStack, TopCall, Zenon
<1>9. (\A k \in Stacked : CallTyped(k))'
  <2>1. CallTyped(c)'
    BY <1>2, <1>7, Zenon DEF CallTyped, Acting
  <2> QED
    BY <1>1, <1>2, <1>8, <2>1, StepTyped, Zenon
<1>10. RunInv'
  <2>1. RunInv
    BY <1>1, <1>2, Zenon
  <2> QED
    BY <1>3, <2>1, Zenon DEF RunInv, Stacked, Runs, ActiveApart, ActiveCalls, Active, Waits
<1>11. TaskTypes'
  <2>1. abandoned' \in BOOLEAN /\ raced' \in BOOLEAN
    BY <1>1, <1>5, <1>6, Zenon DEF TaskTypes
  <2> QED
    BY <1>1, <1>2, <1>3, <1>4, <2>1, Zenon DEF TaskTypes
<1>12. ASSUME Single', ~eager' PROVE Judged' /\ SoundInv'
  <2>1. SoundInv /\ RunInv
    BY <1>1, <1>2, <1>3, <1>12, SingleBefore, Zenon
  <2>2. CoroSound(t) /\ t \in Coros
    BY <2>1, Zenon DEF SoundInv
  <2>3. Clean' => Clean /\ (t \in done \/ state[t] = "Created")
    BY <1>3, <1>5, <1>6, Zenon DEF Clean
  <2>4. Judged'
    <3>1. wrong' \subseteq {"freed"} /\ (Clean' => wrong' = {})
      BY <1>4, <2>2, <2>3, Zenon DEF CoroSound
    <3> QED
      BY <3>1, Zenon DEF Judged
  <2>5. \A s \in Coros : CoroSound(s)'
    BY <1>3, <2>1, ZenonT(30) DEF SoundInv, CoroSound, Awaited
  <2>6. \A k \in Stacked : CallSound(k)' /\ (Live(k)' => Live(k))
    BY <1>3, <2>1, ZenonT(30) DEF SoundInv, CallSound, Awaited, Active, Live
  <2>7. ~Live(c)'
    BY <1>2, <1>7, Zenon DEF Live
  <2>8. ASSUME Clean', NEW k \in Others(h, Len(calls[h])) PROVE FrameKept(k)'
    <3>1. k \in Stacked /\ FrameKept(k)
      BY <2>1, <2>3, <2>8, OthersStacked, Zenon DEF SoundInv
    <3>2. k.at = "final" => k.user # t
      <4>1. PICK g \in T!Threads : \E j \in 1..Len(calls[g]) : calls[g][j] = k
        BY <3>1, Zenon DEF Stacked
      <4>2. PICK j \in 1..Len(calls[g]) : calls[g][j] = k
        BY <4>1, Zenon
      <4>3. j \in DOMAIN calls[g]
        BY <1>1, SMTT(30) DEF TaskTypes
      <4> QED
        BY <1>6, <2>8, <4>2, <4>3, Zenon DEF Clean
    <3>3. k.at \in Acting /\ (k.at = "suspend" => Live(k)) => k.of # t
      <4> SUFFICES ASSUME k.at \in Acting, k.at = "suspend" => Live(k) PROVE k.of # t
        BY Zenon
      <4>1. Present(k) /\ Present(T!Top(h))
        BY <1>2, Zenon DEF Present, Active, Live
      <4>2. used[t] \subseteq used'[t]
        BY <1>2, Zenon DEF Grows
      <4> QED
        BY <1>1, <1>2, <1>12, <2>1, <4>1, <4>2, OnlyUser, Zenon
    <3>4. Live(k)' = Live(k)
      BY <1>3, ZenonT(30) DEF Live
    <3> QED
      BY <1>4, <3>1, <3>2, <3>3, <3>4, Zenon DEF FrameKept
  <2>9. FrameKept(c)'
    BY <1>2, <1>7, Zenon DEF FrameKept, Acting
  <2>10. Clean' => \A s \in freed' : s \in done' \/ state'[s] = "Created"
    BY <1>3, <1>4, <2>1, <2>3, Zenon DEF SoundInv
  <2>11. SoundInv'
    BY <1>1, <1>8, <2>1, <2>5, <2>6, <2>7, <2>8, <2>9, <2>10, OthersStacked, StepSound, Zenon
  <2> QED
    BY <2>4, <2>11, Zenon
<1> QED
  BY <1>9, <1>10, <1>11, <1>12, TaskWhole, Zenon

LEMMA StoreCancelledStep ==
  ASSUME TaskInv, NEW h \in T!Threads, T!StoreCancelled(h)
  PROVE  TaskInv'
<1> DEFINE m == Len(calls[h])
<1>1. /\ TaskTypes /\ (\A c \in Stacked : CallTyped(c))
      /\ wrong = {} => RunInv
      /\ Single /\ ~eager /\ wrong = {} => SoundInv
  BY TaskParts, Zenon
<1>2. wrong = {} /\ calls[h] # <<>> /\ T!Top(h).at = "cancel"
  BY Zenon DEF T!StoreCancelled, T!At
<1>3. UNCHANGED <<continuation, point, awaits, done, freed, used, eager, cancelled, abandoned, raced>>
  BY Zenon DEF T!StoreCancelled, T!flags
<1>4. PICK t : t = T!Top(h).of
  BY Zenon
<1>5. state' = [state EXCEPT ![t] = "Cancelled"] /\ wrong' = T!Uses({t}) /\ T!Goto(h, "body", None)
  BY <1>4, Zenon DEF T!StoreCancelled
<1>6. T!Top(h) \in Stacked /\ t \in Coros /\ T!Top(h).user \in used[t] /\ Active(T!Top(h))
  BY <1>1, <1>2, <1>4, TopCall, Zenon DEF CallTyped, Acting, Active
<1>7. calls' \in [T!Threads -> Seq(Calls)]
  BY <1>1, <1>2, <1>5, GotoCall, Zenon
<1>8. PICK c \in Calls : /\ c.user = T!Top(h).user /\ c.at = "body" /\ c.of = None
                         /\ Becomes(h, m, c)
  <2>1. Placed(h, m, T!Top(h).user, "body", None)
    BY <1>1, <1>2, <1>5, GotoCall, ZenonT(30)
  <2> QED
    BY <2>1, Zenon DEF Placed
<1>9. Grows /\ CallTyped(c)' /\ Active(c) /\ ~Live(c)'
  BY <1>3, <1>8, Zenon DEF Grows, CallTyped, Active, Live, Acting
<1>10. \A k \in Others(h, m) : k \in Stacked
  BY OthersStacked, Zenon
<1>11. (\A k \in Stacked : CallTyped(k))'
  BY <1>1, <1>8, <1>9, StepTyped, Zenon
<1>12. RunInv'
  <2>1. RunInv
    BY <1>1, <1>2, Zenon
  <2>2. \A k \in Others(h, m) : Runs(k)'
    BY <1>3, <1>10, <2>1, Zenon DEF RunInv, Runs, Active
  <2>3. Runs(c)'
    <3>1. Runs(T!Top(h))
      BY <1>6, <2>1, Zenon DEF RunInv
    <3> QED
      BY <1>3, <1>6, <1>8, <3>1, Zenon DEF Runs
  <2>4. \A k \in Others(h, m) : Active(k) => k.user # c.user
    BY <1>1, <1>2, <1>6, <1>8, <2>1, OtherActive, Zenon DEF RunInv
  <2>5. \A u \in Coros : Waits(u)'
    BY <1>3, <2>1, Zenon DEF RunInv, Waits
  <2> QED
    BY <1>1, <1>8, <2>1, <2>2, <2>3, <2>4, <2>5, StepRuns, Zenon
<1>13. wrong' \subseteq {"freed"}
  BY <1>5, UsesFreed, Zenon
<1>14. /\ state' \in [Coros -> {"Created", "Running", "Completed", "Cancelled"}]
       /\ state'[t] = "Cancelled" /\ \A s \in Coros : s # t => state'[s] = state[s]
  BY <1>1, <1>5, <1>6, Zenon DEF TaskTypes
<1>15. TaskTypes'
  BY <1>1, <1>3, <1>7, <1>13, <1>14, Zenon DEF TaskTypes
<1>16. ASSUME Single', ~eager' PROVE Judged' /\ SoundInv'
  <2>1. SoundInv /\ RunInv
    BY <1>1, <1>2, <1>3, <1>9, <1>16, SingleBefore, Zenon
  <2>2. CallSound(T!Top(h)) /\ cancelled /\ T!Top(h).user \notin done
    BY <1>2, <1>6, <2>1, Zenon DEF SoundInv, CallSound
  <2>3. Judged' /\ ~Clean'
    BY <1>3, <1>13, <2>2, Zenon DEF Judged, Clean
  <2>4. ASSUME NEW s \in Coros PROVE CoroSound(s)'
    <3>1. CoroSound(s)
      BY <2>1, Zenon DEF SoundInv
    <3>2. state'[s] = state[s] \/ state'[s] = "Cancelled"
      BY <1>14, Zenon
    <3>3. Awaited(s)' <=> Awaited(s)
      BY <1>3, ZenonT(30) DEF Awaited
    <3> QED
      BY <1>3, <2>2, <3>1, <3>2, <3>3, Zenon DEF CoroSound
  <2>5. ASSUME NEW k \in Others(h, m) PROVE CallSound(k)' /\ (Live(k)' => Live(k))
    <3>1. CallSound(k) /\ CallTyped(k)
      BY <1>1, <1>10, <2>1, Zenon DEF SoundInv
    <3>2. k.at \in {"start", "get", "transfer"} => k.of # t /\ k.of \in Coros
      <4> SUFFICES ASSUME k.at \in {"start", "get", "transfer"} PROVE k.of # t /\ k.of \in Coros
        BY Zenon
      <4>1. Present(k) /\ Present(T!Top(h)) /\ k.at \in Acting
        BY <1>6, Zenon DEF Present, Active, Live, Acting
      <4>2. used[t] \subseteq used'[t] /\ T!Top(h).user \in used'[t]
        BY <1>3, <1>6, Zenon
      <4>3. k.of # t
        BY <1>1, <1>2, <1>6, <1>16, <2>1, <4>1, <4>2, OnlyUser, Zenon
      <4> QED
        BY <3>1, <4>1, <4>3, Zenon DEF CallTyped
    <3>3. Live(k)' => Live(k)
      <4>1. k.at = "suspend" => k.of \in Coros
        BY <3>1, Zenon DEF CallTyped, Acting
      <4> QED
        BY <1>14, <4>1, Zenon DEF Live
    <3>4. k.at \in {"start", "get", "transfer"} => state'[k.of] = "Created"
      BY <1>14, <3>1, <3>2, Zenon DEF CallSound
    <3> QED
      BY <1>3, <3>1, <3>3, <3>4, Zenon DEF CallSound, Active, Awaited
  <2>6. CallSound(c)'
    BY <1>3, <1>8, <1>9, <2>2, Zenon DEF CallSound
  <2>7. SoundInv'
    BY <1>1, <1>8, <1>9, <2>1, <2>3, <2>4, <2>5, <2>6, StepSound, Zenon
  <2> QED
    BY <2>3, <2>7, Zenon
<1> QED
  BY <1>11, <1>12, <1>15, <1>16, TaskWhole, Zenon

LEMMA SetContinuationStep ==
  ASSUME T!TaskAssumption, TaskInv, NEW h \in T!Threads, T!SetContinuation(h)
  PROVE  TaskInv'
<1> DEFINE m == Len(calls[h])
<1>1. /\ TaskTypes /\ (\A c \in Stacked : CallTyped(c))
      /\ wrong = {} => RunInv
      /\ Single /\ ~eager /\ wrong = {} => SoundInv
  BY TaskParts, Zenon
<1>2. wrong = {} /\ calls[h] # <<>> /\ T!Top(h).at = "ready" /\ RunInv
  BY <1>1, Zenon DEF T!SetContinuation, T!At
<1>3. UNCHANGED <<state, done, freed, used, eager, cancelled, abandoned, raced>>
  BY Zenon DEF T!SetContinuation, T!flags
<1>4. PICK t : t = T!Top(h).of
  BY Zenon
<1>5. PICK u : u = T!Top(h).user
  BY Zenon
<1>6. /\ continuation' = [continuation EXCEPT ![t] = u]
      /\ point' = [point EXCEPT ![u] = "await"]
      /\ awaits' = [awaits EXCEPT ![u] = t]
      /\ wrong' = T!Uses({t})
      /\ T!Goto(h, "suspend", t)
  BY <1>4, <1>5, Zenon DEF T!SetContinuation, T!AtPoint
<1>7. T!Top(h) \in Stacked /\ t \in Coros /\ u \in used[t] /\ u # Main /\ u \in Coros /\ Active(T!Top(h))
  <2>1. T!Top(h) \in Stacked /\ T!Top(h) \in Calls
    BY <1>1, <1>2, TopCall, Zenon
  <2>2. t \in Coros /\ u \in used[t] /\ u # Main /\ Active(T!Top(h))
    BY <1>1, <1>2, <1>4, <1>5, <2>1, Zenon DEF CallTyped, Acting, Active
  <2> QED
    BY <1>5, <2>1, <2>2, Zenon DEF Calls, T!Users
<1>8. "suspend" \in Acting \cup {"body", "final"} /\ t \in Coros \cup {None} /\ t # None
  BY <1>7, Zenon DEF Acting, T!TaskAssumption
<1>9. calls' \in [T!Threads -> Seq(Calls)]
  BY <1>1, <1>2, <1>6, <1>8, GotoCall, Zenon
<1>10. PICK c \in Calls : c.user = u /\ c.at = "suspend" /\ c.of = t /\ Becomes(h, m, c)
  <2>1. Placed(h, m, u, "suspend", t)
    BY <1>1, <1>2, <1>5, <1>6, <1>8, GotoCall, ZenonT(30)
  <2> QED
    BY <2>1, Zenon DEF Placed
<1>11. Grows /\ CallTyped(c)' /\ ~Active(c)
  BY <1>3, <1>7, <1>10, Zenon DEF Grows, CallTyped, Active
<1>12. \A k \in Others(h, m) : k \in Stacked /\ CallTyped(k) /\ Runs(k)
  BY <1>1, <1>2, OthersStacked, Zenon DEF RunInv
<1>13. \A k \in Others(h, m) : Active(k) => k.user # u
  BY <1>1, <1>2, <1>5, <1>7, OtherActive, Zenon DEF RunInv
<1>14. /\ continuation' \in [Coros -> Coros \cup {None}] /\ awaits' \in [Coros -> Coros \cup {None}]
       /\ point' \in [Coros -> {"initial", "await", "io", "none"}]
       /\ continuation'[t] = u /\ point'[u] = "await" /\ awaits'[u] = t
       /\ \A s \in Coros : s # t => continuation'[s] = continuation[s]
       /\ \A s \in Coros : s # u => point'[s] = point[s] /\ awaits'[s] = awaits[s]
  BY <1>1, <1>6, <1>7, ZenonT(30) DEF TaskTypes
<1>15. (\A k \in Stacked : CallTyped(k))'
  BY <1>1, <1>10, <1>11, StepTyped, Zenon
<1>16. RunInv'
  <2>1. ASSUME NEW k \in Others(h, m) PROVE Runs(k)'
    <3>1. k.user # Main => k.user \in Coros
      BY Zenon DEF Others, OthersIn, Calls, T!Users
    <3> QED
      BY <1>12, <1>13, <1>14, <3>1, Zenon DEF Runs, Active
  <2>2. Runs(c)'
    BY <1>11, Zenon DEF Runs, Active
  <2>3. \A s \in Coros : Waits(s)'
    BY <1>2, <1>8, <1>14 DEF RunInv, Waits
  <2> QED
    BY <1>1, <1>2, <1>10, <1>11, <2>1, <2>2, <2>3, StepRuns, Zenon
<1>17. wrong' \subseteq {"freed"} /\ (t \notin freed => wrong' = {})
  BY <1>6, UsesFreed, ZenonT(30)
<1>18. TaskTypes'
  BY <1>1, <1>3, <1>9, <1>14, <1>17, Zenon DEF TaskTypes
<1>19. ASSUME Single', ~eager' PROVE Judged' /\ SoundInv'
  <2>1. SoundInv
    BY <1>1, <1>2, <1>3, <1>11, <1>19, SingleBefore, Zenon
  <2>2. CallSound(T!Top(h)) /\ Runs(T!Top(h)) /\ (Clean => FrameKept(T!Top(h)))
    BY <1>2, <1>7, <2>1, ZenonT(30) DEF SoundInv, RunInv
  <2>3. point[u] = "none" /\ u \notin done
    BY <1>2, <1>5, <1>7, <2>2, Zenon DEF Runs, CallSound
  <2>4. Clean => t \notin freed
    BY <1>2, <1>4, <2>2, Zenon DEF FrameKept, Acting
  <2>5. Judged' /\ (Clean' => Clean)
    BY <1>3, <1>17, <2>4, Zenon DEF Judged, Clean
  <2>6. ASSUME NEW s \in Coros, Awaited(s) PROVE Awaited(s)'
    <3>1. CASE s = t
      BY <1>14, <3>1, Zenon DEF Awaited
    <3>2. CASE s # t
      <4>1. continuation'[s] = continuation[s] /\ continuation[s] \in Coros \cup {None}
        BY <1>1, <1>14, <3>2, ZenonT(30) DEF TaskTypes
      <4> QED
        BY <1>14, <2>3, <2>6, <4>1, ZenonT(30) DEF Awaited
    <3> QED
      BY <3>1, <3>2, Zenon
  <2>7. ASSUME NEW s \in Coros PROVE CoroSound(s)'
    <3>1. CoroSound(s)
      BY <2>1, Zenon DEF SoundInv
    <3>2. s \notin done => Awaited(s)'
      BY <2>6, <3>1, Zenon DEF CoroSound
    <3>3. CASE s = u
      BY <1>3, <2>3, <3>1, <3>2, <3>3, ZenonT(30) DEF CoroSound
    <3>4. CASE s # u
      BY <1>3, <1>14, <3>1, <3>2, <3>4, Zenon DEF CoroSound
    <3> QED
      BY <3>3, <3>4, Zenon
  <2>8. ASSUME NEW k \in Others(h, m) PROVE CallSound(k)' /\ Live(k)' = Live(k) /\ (Live(k) => k.user # u)
    <3>1. CallSound(k) /\ CallTyped(k)
      BY <1>12, <2>1, Zenon DEF SoundInv
    <3>2. k.user \in Coros \/ k.user = Main
      BY Zenon DEF Others, OthersIn, Calls, T!Users
    <3>3. Live(k)' = Live(k)
      BY <1>3, Zenon DEF Live
    <3>4. Live(k) => k.user # u /\ k.user \in Coros
      <4> SUFFICES ASSUME Live(k) PROVE k.user # u /\ k.user \in Coros
        BY Zenon
      <4>1. Present(k) /\ Present(T!Top(h))
        BY <1>7, Zenon DEF Present
      <4>2. k.user # u
        BY <1>1, <1>2, <1>5, <2>1, <4>1, OnlyOne, Zenon
      <4>3. k.user # Main
        BY <3>1, Zenon DEF CallTyped, Live
      <4> QED
        BY <3>2, <4>2, <4>3, Zenon
    <3>5. k.at = "final" => Awaited(k.user)'
      <4>1. k.at = "final" => k.user \in Coros /\ Awaited(k.user)
        BY <3>1, <3>2, Zenon DEF CallSound, CallTyped
      <4> QED
        BY <2>6, <4>1, Zenon
    <3>6. Live(k)' => point'[k.user] = "await" /\ awaits'[k.user] = k.of
      BY <1>14, <3>1, <3>3, <3>4, Zenon DEF CallSound
    <3> QED
      BY <1>3, <3>1, <3>3, <3>4, <3>5, <3>6, Zenon DEF CallSound, Active
  <2>9. CallSound(c)'
    BY <1>10, <1>11, <1>14, Zenon DEF CallSound, Live, Active
  <2>10. ASSUME Clean'
         PROVE  /\ \A s \in freed' : s \in done' \/ state'[s] = "Created"
                /\ \A k \in Others(h, m) : FrameKept(k)'
                /\ FrameKept(c)'
    <3>1. Clean
      BY <2>5, <2>10, Zenon
    <3>2. \A k \in Others(h, m) : FrameKept(k)'
      BY <1>3, <1>12, <2>1, <2>8, <3>1, Zenon DEF SoundInv, FrameKept
    <3>3. FrameKept(c)'
      BY <1>3, <1>10, <2>4, <3>1, Zenon DEF FrameKept
    <3> QED
      BY <1>3, <2>1, <3>1, <3>2, <3>3, Zenon DEF SoundInv
  <2>11. SoundInv'
    BY <1>1, <1>10, <2>1, <2>7, <2>8, <2>9, <2>10, StepSound, ZenonT(30)
  <2> QED
    BY <2>5, <2>11, Zenon
<1> QED
  BY <1>15, <1>16, <1>18, <1>19, TaskWhole, Zenon

\* A suspended coroutine x goes on: no other active call is of x.
LEMMA Resumed ==
  ASSUME T!TaskAssumption, TaskTypes, RunInv, NEW x \in Coros, point[x] # "none",
         point' = [point EXCEPT ![x] = "none"],
         \/ point[x] # "await" /\ awaits' = awaits
         \/ awaits' = [awaits EXCEPT ![x] = None]
  PROVE  /\ point'[x] = "none" /\ \A s \in Coros : s # x => point'[s] = point[s]
         /\ point' \in [Coros -> {"initial", "await", "io", "none"}]
         /\ awaits' \in [Coros -> Coros \cup {None}]
         /\ \A k \in Stacked : Runs(k)' /\ (Active(k) => k.user # x)
         /\ \A s \in Coros : Waits(s)'
<1>1. /\ point'[x] = "none" /\ \A s \in Coros : s # x => point'[s] = point[s]
      /\ point' \in [Coros -> {"initial", "await", "io", "none"}]
  BY ZenonT(30) DEF TaskTypes
<1>2. awaits' \in [Coros -> Coros \cup {None}] /\ \A s \in Coros : s # x => awaits'[s] = awaits[s]
  BY ZenonT(30) DEF TaskTypes
<1>3. awaits'[x] = None
  BY Zenon DEF TaskTypes, RunInv, Waits
<1>4. \A s \in Coros : Waits(s)'
  <2>1. Waits(x)'
    BY <1>1, <1>3, Zenon DEF Waits
  <2>2. ASSUME NEW s \in Coros, s # x PROVE Waits(s)'
    <3>1. Waits(s) /\ point'[s] = point[s] /\ awaits'[s] = awaits[s]
      BY <1>1, <1>2, <2>2, Zenon DEF RunInv
    <3> QED
      BY <3>1, Zenon DEF Waits
  <2> QED
    BY <2>1, <2>2, Zenon
<1>5. ASSUME NEW k \in Stacked PROVE Runs(k)' /\ (Active(k) => k.user # x)
  <2>1. Runs(k) /\ (k.user # Main => k.user \in Coros)
    BY Zenon DEF RunInv, Stacked, Calls, T!Users
  <2>2. x # Main
    BY Zenon DEF T!TaskAssumption
  <2> QED
    BY <1>1, <2>1, <2>2 DEF Runs, Active
<1> QED
  BY <1>1, <1>2, <1>4, <1>5, Zenon

LEMMA AwaitStartedStep ==
  ASSUME T!TaskAssumption, TaskInv, NEW h \in T!Threads, T!AwaitStarted(h)
  PROVE  TaskInv'
<1> DEFINE m == Len(calls[h])
<1>1. /\ TaskTypes /\ (\A c \in Stacked : CallTyped(c))
      /\ wrong = {} => RunInv
  BY TaskParts, Zenon
<1>2. wrong = {} /\ calls[h] # <<>> /\ T!Top(h).at = "suspend" /\ RunInv
  BY <1>1, Zenon DEF T!AwaitStarted, T!At
<1>3. UNCHANGED <<state, continuation, done, freed, used, cancelled, abandoned, raced>> /\ eager'
  BY Zenon DEF T!AwaitStarted
<1>4. PICK t : t = T!Top(h).of
  BY Zenon
<1>5. PICK u : u = T!Top(h).user
  BY Zenon
<1>6. /\ wrong' = T!Uses({t}) \cup T!Resumes(u, "await") \cup T!Receives(t)
      /\ point' = [point EXCEPT ![u] = "none"]
      /\ awaits' = [awaits EXCEPT ![u] = None]
      /\ T!Goto(h, "body", None)
  BY <1>4, <1>5, Zenon DEF T!AwaitStarted, T!AtPoint
<1>7. u # Main /\ u \in Coros
  <2>1. T!Top(h) \in Stacked /\ T!Top(h) \in Calls
    BY <1>1, <1>2, TopCall, Zenon
  <2>2. u # Main
    BY <1>1, <1>2, <1>5, <2>1, Zenon DEF CallTyped
  <2> QED
    BY <1>5, <2>1, <2>2, Zenon DEF Calls, T!Users
<1>8. calls' \in [T!Threads -> Seq(Calls)]
  BY <1>1, <1>2, <1>6, GotoCall, ZenonT(30)
<1>9. PICK c \in Calls : c.user = u /\ c.at = "body" /\ c.of = None /\ Becomes(h, m, c)
  <2>1. Placed(h, m, u, "body", None)
    BY <1>1, <1>2, <1>5, <1>6, GotoCall, ZenonT(30)
  <2> QED
    BY <2>1, Zenon DEF Placed
<1>10. Grows /\ CallTyped(c)'
  BY <1>3, <1>7, <1>9, Zenon DEF Grows, CallTyped, Acting
<1>11. (\A k \in Stacked : CallTyped(k))'
  BY <1>1, <1>9, <1>10, StepTyped, Zenon
<1>12. wrong' \subseteq {"twice", "early", "freed"} /\ (wrong' = {} => point[u] = "await")
  BY <1>6, Zenon DEF T!Uses, T!Resumes, T!Receives
<1>13. TaskTypes'
  <2>1. eager' \in BOOLEAN
    BY <1>3, Zenon
  <2>2. /\ point' \in [Coros -> {"initial", "await", "io", "none"}]
        /\ awaits' \in [Coros -> Coros \cup {None}]
    BY <1>1, <1>6, <1>7, Zenon DEF TaskTypes
  <2> QED
    BY <1>1, <1>3, <1>8, <1>12, <2>1, <2>2, Zenon DEF TaskTypes
<1>14. ASSUME wrong' = {} PROVE RunInv'
  <2>1. /\ point'[u] = "none" /\ \A k \in Stacked : Runs(k)' /\ (Active(k) => k.user # u)
        /\ \A s \in Coros : Waits(s)'
    BY <1>1, <1>2, <1>6, <1>7, <1>12, <1>14, Resumed, Zenon
  <2>2. Runs(c)'
    BY <1>9, <2>1, Zenon DEF Runs
  <2> QED
    BY <1>1, <1>2, <1>9, <2>1, <2>2, OthersStacked, StepRuns, Zenon
<1> QED
  BY <1>3, <1>11, <1>13, <1>14, TaskWhole, Zenon

\* A task that is created starts to run.
Starts(t) ==
  /\ state' = [state EXCEPT ![t] = "Running"] /\ point' = [point EXCEPT ![t] = "none"]
  /\ UNCHANGED <<continuation, awaits, done, freed, used, eager, cancelled, abandoned, raced>>

LEMMA StartedCalls ==
  ASSUME TaskTypes, RunInv, SoundInv, \A c \in Stacked : CallTyped(c), Single',
         NEW h \in T!Threads, calls[h] # <<>>, Present(T!Top(h)),
         NEW t \in Coros, T!Top(h).user \in used[t], state[t] = "Created", Starts(t)
  PROVE  /\ t \notin done /\ Clean' = Clean
         /\ \A s \in Coros : CoroSound(s)'
         /\ \A k \in Others(h, Len(calls[h])) :
              CallSound(k)' /\ (Live(k)' => Live(k)) /\ (Clean => FrameKept(k)')
         /\ Clean /\ t \notin freed => \A s \in freed' : s \in done' \/ state'[s] = "Created"
<1> DEFINE m == Len(calls[h])
<1>1. CoroSound(t) /\ point[t] = "initial" /\ t \notin done
  BY Zenon DEF SoundInv, CoroSound
<1>2. /\ state'[t] = "Running" /\ point'[t] = "none"
      /\ \A s \in Coros : s # t => state'[s] = state[s] /\ point'[s] = point[s]
  BY Zenon DEF TaskTypes, Starts
<1>3. UNCHANGED <<continuation, awaits, done, freed, used, eager, cancelled, abandoned, raced>>
  BY Zenon DEF Starts
<1>4. Clean' = Clean
  BY <1>3, Zenon DEF Clean
<1>5. ASSUME NEW s \in Coros, Awaited(s) PROVE Awaited(s)'
  <2>1. continuation[s] \in Coros \cup {None} /\ continuation'[s] = continuation[s] /\ awaits' = awaits
    BY <1>3, Zenon DEF TaskTypes
  <2> QED
    BY <1>1, <1>2, <1>5, <2>1, Zenon DEF Awaited
<1>6. ASSUME NEW s \in Coros PROVE CoroSound(s)'
  <2>1. CoroSound(s)
    BY ZenonT(30) DEF SoundInv
  <2>2. s \notin done => Awaited(s)'
    BY <1>5, <2>1, ZenonT(30) DEF CoroSound
  <2>3. CASE s = t
    BY <1>1, <1>2, <1>3, <2>2, <2>3, Zenon DEF CoroSound
  <2>4. CASE s # t
    BY <1>2, <1>3, <2>1, <2>2, <2>4, Zenon DEF CoroSound
  <2> QED
    BY <2>3, <2>4, Zenon
<1>7. ASSUME NEW k \in Others(h, m)
      PROVE  CallSound(k)' /\ (Live(k)' => Live(k)) /\ (Clean => FrameKept(k)')
  <2>1. CallSound(k) /\ CallTyped(k) /\ (Clean => FrameKept(k))
    BY OthersStacked, Zenon DEF SoundInv
  <2>2. k.user \in Coros \/ k.user = Main
    BY ZenonT(30) DEF Others, OthersIn, Calls, T!Users
  <2>3. k.at \in {"start", "get", "transfer"} => k.of # t /\ k.of \in Coros
    <3> SUFFICES ASSUME k.at \in {"start", "get", "transfer"} PROVE k.of # t /\ k.of \in Coros
      BY Zenon
    <3>1. Present(k) /\ k.at \in Acting
      BY Zenon DEF Present, Active, Live, Acting
    <3>2. used[t] \subseteq used'[t] /\ T!Top(h).user \in used'[t]
      BY <1>3, Zenon
    <3>3. k.of # t
      BY <3>1, <3>2, OnlyUser, ZenonT(30)
    <3> QED
      BY <2>1, <3>1, <3>3, Zenon DEF CallTyped
  <2>4. Live(k)' => Live(k)
    <3>1. k.at = "suspend" => k.of \in Coros
      BY <2>1, Zenon DEF CallTyped, Acting
    <3> QED
      BY <1>2, <3>1, Zenon DEF Live
  <2>5. k.at \in {"start", "get", "transfer"} => state'[k.of] = "Created"
    BY <1>2, <2>1, <2>3, Zenon DEF CallSound
  <2>6. Live(k)' => point'[k.user] = "await" /\ awaits'[k.user] = k.of
    <3>1. Live(k) => k.user \in Coros /\ point[k.user] = "await" /\ awaits[k.user] = k.of
      BY <2>1, <2>2, Zenon DEF CallSound, CallTyped, Live
    <3> QED
      BY <1>1, <1>2, <1>3, <2>4, <3>1, Zenon
  <2>7. k.at = "final" => Awaited(k.user)'
    <3>1. k.at = "final" => k.user \in Coros /\ Awaited(k.user)
      BY <2>1, <2>2, Zenon DEF CallSound, CallTyped
    <3> QED
      BY <1>5, <3>1, Zenon
  <2>8. CallSound(k)'
    BY <1>3, <2>1, <2>5, <2>6, <2>7, Zenon DEF CallSound, Active
  <2>9. Clean => FrameKept(k)'
    BY <1>3, <2>1, <2>4, Zenon DEF FrameKept
  <2> QED
    BY <2>4, <2>8, <2>9, Zenon
<1>8. Clean /\ t \notin freed => \A s \in freed' : s \in done' \/ state'[s] = "Created"
  <2>1. Clean => \A s \in freed : s \in Coros /\ (s \in done \/ state[s] = "Created")
    BY Zenon DEF SoundInv, TaskTypes
  <2> QED
    BY <1>2, <1>3, <2>1, Zenon
<1> QED
  BY <1>1, <1>4, <1>6, <1>7, <1>8, Zenon

LEMMA ResumesWrong ==
  ASSUME NEW x, NEW p
  PROVE  /\ T!Resumes(x, p) \subseteq {"twice", "freed"}
         /\ T!Resumes(x, p) = {} => point[x] = p
         /\ point[x] = p => T!Resumes(x, p) \subseteq {"freed"}
         /\ point[x] = p /\ x \notin freed => T!Resumes(x, p) = {}
BY UsesFreed, Zenon DEF T!Resumes, T!Uses

LEMMA BodyCall ==
  ASSUME NEW x \in Coros
  PROVE  \E c \in Calls : c = T!Call(x, "body", None) /\ c.user = x /\ c.at = "body" /\ c.of = None
<1>1. PICK k : k = T!Call(x, "body", None)
  BY Zenon
<1>2. k \in Calls /\ k.user = x /\ k.at = "body" /\ k.of = None
  BY <1>1, Zenon DEF T!Call, Calls, T!Users
<1> QED
  BY <1>1, <1>2, Zenon

LEMMA TransferStep ==
  ASSUME T!TaskAssumption, TaskInv, NEW h \in T!Threads, T!Transfer(h)
  PROVE  TaskInv'
<1> DEFINE m == Len(calls[h])
<1>1. /\ TaskTypes /\ (\A c \in Stacked : CallTyped(c))
      /\ wrong = {} => RunInv
      /\ Single /\ ~eager /\ wrong = {} => SoundInv
  BY TaskParts, Zenon
<1>2. wrong = {} /\ calls[h] # <<>> /\ T!Top(h).at = "transfer" /\ RunInv
  BY <1>1, Zenon DEF T!Transfer, T!At
<1>3. PICK t : t = T!Top(h).of
  BY Zenon
<1>4. /\ Starts(t) /\ wrong' = T!Resumes(t, "initial")
      /\ T!Stack(h, Append(T!Below(h), T!Call(t, "body", None)))
  BY <1>3, Zenon DEF T!Transfer, T!AtPoint, T!flags, Starts
<1>5. T!Top(h) \in Stacked /\ t \in Coros /\ T!Top(h).user \in used[t] /\ Live(T!Top(h))
  BY <1>1, <1>2, <1>3, TopCall, Zenon DEF CallTyped, Acting, Live
<1>6. PICK c \in Calls : c = T!Call(t, "body", None) /\ c.user = t /\ c.at = "body" /\ c.of = None
  BY <1>5, BodyCall, Zenon
<1>7. calls' \in [T!Threads -> Seq(Calls)] /\ Becomes(h, m, c)
  BY <1>1, <1>2, <1>4, <1>6, GotoStack, Zenon
<1>8. Grows /\ CallTyped(c)' /\ ~Live(c)'
  <2>1. t # Main
    BY <1>5, Zenon DEF T!TaskAssumption
  <2> QED
    BY <1>4, <1>6, <2>1, Zenon DEF Grows, CallTyped, Acting, Live, Starts
<1>9. (\A k \in Stacked : CallTyped(k))'
  BY <1>1, <1>7, <1>8, StepTyped, Zenon
<1>10. wrong' \subseteq {"twice", "freed"} /\ (wrong' = {} => point[t] = "initial")
  BY <1>4, ResumesWrong, Zenon
<1>11. TaskTypes'
  BY <1>1, <1>4, <1>5, <1>7, <1>10, Zenon DEF TaskTypes, Starts
<1>12. ASSUME wrong' = {} PROVE RunInv'
  <2>1. /\ point'[t] = "none" /\ \A k \in Stacked : Runs(k)' /\ (Active(k) => k.user # t)
        /\ \A s \in Coros : Waits(s)'
    BY <1>1, <1>2, <1>4, <1>5, <1>10, <1>12, Resumed, Zenon DEF Starts
  <2>2. Runs(c)'
    BY <1>6, <2>1, Zenon DEF Runs
  <2> QED
    BY <1>1, <1>2, <1>6, <1>7, <2>1, <2>2, OthersStacked, StepRuns, Zenon
<1>13. ASSUME Single', ~eager' PROVE Judged' /\ SoundInv'
  <2>1. SoundInv
    BY <1>1, <1>2, <1>4, <1>8, <1>13, SingleBefore, Zenon DEF Starts
  <2>2. CallSound(T!Top(h)) /\ (Clean => FrameKept(T!Top(h)))
    BY <1>5, <2>1, Zenon DEF SoundInv
  <2>3. state[t] = "Created" /\ (Clean => t \notin freed)
    BY <1>2, <1>3, <2>2, Zenon DEF CallSound, FrameKept, Acting
  <2>4. Present(T!Top(h))
    BY <1>5, Zenon DEF Present
  <2>5. /\ t \notin done /\ Clean' = Clean
        /\ \A s \in Coros : CoroSound(s)'
        /\ \A k \in Others(h, m) : CallSound(k)' /\ (Live(k)' => Live(k)) /\ (Clean => FrameKept(k)')
        /\ Clean /\ t \notin freed => \A s \in freed' : s \in done' \/ state'[s] = "Created"
    BY <1>1, <1>2, <1>4, <1>5, <1>13, <2>1, <2>3, <2>4, StartedCalls, Zenon
  <2>6. Judged'
    <3>1. point[t] = "initial"
      BY <1>5, <2>1, <2>3, Zenon DEF SoundInv, CoroSound
    <3>2. wrong' \subseteq {"freed"} /\ (t \notin freed => wrong' = {})
      BY <1>4, <3>1, ResumesWrong, Zenon
    <3> QED
      BY <2>3, <2>5, <3>2, Zenon DEF Judged
  <2>7. CallSound(c)' /\ FrameKept(c)'
    BY <1>4, <1>6, <1>8, <2>5, Zenon DEF CallSound, FrameKept, Acting, Starts
  <2>8. SoundInv'
    BY <1>1, <1>7, <1>8, <2>1, <2>3, <2>5, <2>7, StepSound, Zenon
  <2> QED
    BY <2>6, <2>8, Zenon
<1> QED
  BY <1>9, <1>11, <1>12, <1>13, TaskWhole, Zenon

LEMMA RunInlineStep ==
  ASSUME T!TaskAssumption, TaskInv, NEW h \in T!Threads, NEW a, NEW then,
         (a = "start" /\ then = "body") \/ (a = "get" /\ then = "spin"), T!RunInline(h, a, then)
  PROVE  TaskInv'
<1> DEFINE m == Len(calls[h])
<1>1. /\ TaskTypes /\ (\A c \in Stacked : CallTyped(c))
      /\ wrong = {} => RunInv
      /\ Single /\ ~eager /\ wrong = {} => SoundInv
  BY TaskParts, Zenon
<1>2. wrong = {} /\ calls[h] # <<>> /\ T!Top(h).at \in {"start", "get"} /\ RunInv
  BY <1>1, Zenon DEF T!RunInline, T!At
<1>3. PICK t : t = T!Top(h).of
  BY Zenon
<1>4. PICK u : u = T!Top(h).user
  BY Zenon
<1>5. /\ Starts(t) /\ wrong' = T!Resumes(t, "initial")
      /\ T!Stack(h, T!Below(h) \o <<T!Call(u, then, t), T!Call(t, "body", None)>>)
  BY <1>3, <1>4, Zenon DEF T!RunInline, T!AtPoint, T!flags, Starts
<1>6. T!Top(h) \in Stacked /\ t \in Coros /\ u \in used[t] /\ Active(T!Top(h)) /\ u \in T!Users
  <2>1. T!Top(h) \in Stacked /\ T!Top(h) \in Calls
    BY <1>1, <1>2, TopCall, ZenonT(30)
  <2>2. t \in Coros /\ u \in used[t] /\ Active(T!Top(h))
    BY <1>1, <1>2, <1>3, <1>4, <2>1, Zenon DEF CallTyped, Acting, Active
  <2> QED
    BY <1>4, <2>1, <2>2, Zenon DEF Calls
<1>7. PICK d \in Calls : d = T!Call(t, "body", None) /\ d.user = t /\ d.at = "body" /\ d.of = None
  BY <1>6, BodyCall, Zenon
<1>8. PICK c \in Calls : c = T!Call(u, then, t) /\ c.user = u /\ c.at = then /\ c.of = t
  <2>1. then \in Acting \cup {"body", "final"}
    BY Zenon DEF Acting
  <2> DEFINE k == T!Call(u, then, t)
  <2>2. k \in Calls /\ k.user = u /\ k.at = then /\ k.of = t
    BY <1>6, <2>1, Zenon DEF T!Call, Calls
  <2> HIDE DEF k
  <2>3. k = T!Call(u, then, t)
    BY Zenon DEF k
  <2> QED
    BY <2>2, <2>3, Zenon
<1>9. calls' \in [T!Threads -> Seq(Calls)] /\ BecomesTwo(h, m, c, d)
  BY <1>1, <1>2, <1>5, <1>7, <1>8, InlineStack, Zenon
<1>10. CallTyped(c)' /\ CallTyped(d)' /\ Active(c) /\ ~Live(c)' /\ ~Live(d)' /\ t # Main /\ Grows
  <2>1. t # Main
    BY <1>6, Zenon DEF T!TaskAssumption
  <2>2. used' = used
    BY <1>5, Zenon DEF Starts
  <2> QED
    BY <1>6, <1>7, <1>8, <2>1, <2>2, Zenon DEF CallTyped, Acting, Live, Active, Grows
<1>11. \A k \in Stacked' : k \in Others(h, m) \/ k = c \/ k = d
  BY <1>9, StackedNextTwo, Zenon
<1>12. \A k \in Others(h, m) : k \in Stacked
  BY OthersStacked, Zenon
<1>13. (\A k \in Stacked : CallTyped(k))'
  <2>1. ASSUME NEW k \in Others(h, m) PROVE CallTyped(k)'
    BY <1>1, <1>10, <1>12, Zenon DEF CallTyped, Grows
  <2> QED
    BY <1>10, <1>11, <2>1, Zenon
<1>14. wrong' \subseteq {"twice", "freed"} /\ (wrong' = {} => point[t] = "initial")
  BY <1>5, ResumesWrong, Zenon
<1>15. TaskTypes'
  BY <1>1, <1>5, <1>6, <1>9, <1>14, Zenon DEF TaskTypes, Starts
<1>16. ASSUME wrong' = {} PROVE RunInv'
  <2>1. /\ point'[t] = "none" /\ \A s \in Coros : s # t => point'[s] = point[s]
        /\ \A k \in Stacked : Runs(k)' /\ (Active(k) => k.user # t)
        /\ \A s \in Coros : Waits(s)'
    BY <1>1, <1>2, <1>5, <1>6, <1>14, <1>16, Resumed, Zenon DEF Starts
  <2>2. u # t /\ Runs(d)'
    BY <1>4, <1>6, <1>7, <2>1, Zenon DEF Runs
  <2>3. Runs(c)'
    <3>1. Runs(T!Top(h)) /\ (u # Main => u \in Coros)
      BY <1>2, <1>6, Zenon DEF RunInv, T!Users
    <3> QED
      BY <1>4, <1>6, <1>8, <2>1, <2>2, <3>1, Zenon DEF Runs
  <2>4. \A k \in Others(h, m) : Active(k) => k.user # c.user /\ k.user # d.user
    BY <1>1, <1>2, <1>4, <1>6, <1>7, <1>8, <1>12, <2>1, OtherActive, Zenon DEF RunInv
  <2>5. Apart(calls', ActiveCalls)
    <3>1. \A f \in T!Threads : \A p \in 1..Len(calls[f]) : calls[f][p] \in Calls
      BY <1>1, StacksOfCalls, Zenon
    <3>2. Apart(calls, ActiveCalls) /\ MovesTwo(calls, calls', h, m, c, d)
      BY <1>2, <1>9, Zenon DEF RunInv, ActiveApart, BecomesTwo
    <3>3. \A k \in OthersIn(calls, h, m) : k \in ActiveCalls => k.user # c.user /\ k.user # d.user
      BY <2>4, Zenon DEF ActiveCalls, Others
    <3>4. c.user # d.user
      BY <1>7, <1>8, <2>2, Zenon
    <3> QED
      BY <3>1, <3>2, <3>3, <3>4, ApartNextTwo, ZenonT(30)
  <2>6. ActiveApart'
    BY <2>5, Zenon DEF ActiveApart, ActiveCalls, Active
  <2>7. (\A k \in Stacked : Runs(k))'
    BY <1>11, <1>12, <2>1, <2>2, <2>3, Zenon
  <2> QED
    BY <2>1, <2>6, <2>7, Zenon DEF RunInv
<1>17. ASSUME Single', ~eager' PROVE Judged' /\ SoundInv'
  <2>1. SoundInv
    BY <1>1, <1>2, <1>5, <1>10, <1>17, SingleBefore, Zenon DEF Starts
  <2>2. CallSound(T!Top(h)) /\ (Clean => FrameKept(T!Top(h)))
    BY <1>6, <2>1, Zenon DEF SoundInv
  <2>3. state[t] = "Created" /\ (Clean => t \notin freed) /\ u \notin done
    BY <1>2, <1>3, <1>4, <1>6, <2>2, Zenon DEF CallSound, FrameKept, Acting
  <2>4. Present(T!Top(h)) /\ T!Top(h).user \in used[t]
    BY <1>4, <1>6, Zenon DEF Present
  <2>5. /\ t \notin done /\ Clean' = Clean
        /\ \A s \in Coros : CoroSound(s)'
        /\ \A k \in Others(h, m) : CallSound(k)' /\ (Live(k)' => Live(k)) /\ (Clean => FrameKept(k)')
        /\ Clean /\ t \notin freed => \A s \in freed' : s \in done' \/ state'[s] = "Created"
    BY <1>1, <1>2, <1>5, <1>6, <1>17, <2>1, <2>3, <2>4, StartedCalls, Zenon
  <2>6. Judged'
    <3>1. point[t] = "initial"
      BY <1>6, <2>1, <2>3, Zenon DEF SoundInv, CoroSound
    <3>2. wrong' \subseteq {"freed"} /\ (t \notin freed => wrong' = {})
      BY <1>5, <3>1, ResumesWrong, Zenon
    <3> QED
      BY <2>3, <2>5, <3>2, Zenon DEF Judged
  <2>7. CallSound(c)' /\ CallSound(d)'
    BY <1>5, <1>7, <1>8, <1>10, <2>3, <2>5, Zenon DEF CallSound, Starts
  <2>8. Clean => FrameKept(c)' /\ FrameKept(d)'
    BY <1>5, <1>7, <1>8, <2>3, ZenonT(30) DEF FrameKept, Acting, Starts
  <2>9. Apart(calls', LiveCalls')
    <3>1. \A f \in T!Threads : \A p \in 1..Len(calls[f]) : calls[f][p] \in Calls
      BY <1>1, StacksOfCalls, Zenon
    <3>2. Apart(calls, LiveCalls) /\ MovesTwo(calls, calls', h, m, c, d)
      BY <1>9, <2>1, Zenon DEF SoundInv, LiveApart, BecomesTwo
    <3>3. \A k \in OthersIn(calls, h, m) : k \in LiveCalls' => k \in LiveCalls
      BY <2>5, Zenon DEF LiveCalls, Others
    <3>4. c \notin LiveCalls' /\ d \notin LiveCalls'
      BY <1>10, Zenon DEF LiveCalls
    <3> QED
      BY <3>1, <3>2, <3>3, <3>4, ApartNextTwo, Zenon
  <2>10. SoundInv'
    <3>1. (\A k \in Stacked : CallSound(k))'
      BY <1>11, <2>5, <2>7, Zenon
    <3>2. Clean' => (\A k \in Stacked : FrameKept(k))'
      BY <1>11, <2>5, <2>8, ZenonT(30)
    <3>3. LiveApart'
      BY <2>9, Zenon DEF LiveApart
    <3> QED
      BY <2>3, <2>5, <3>1, <3>2, <3>3, Zenon DEF SoundInv
  <2> QED
    BY <2>6, <2>10, Zenon
<1> QED
  BY <1>13, <1>15, <1>16, <1>17, TaskWhole, Zenon

\* A started coroutine x that nobody waits for goes to sleep, or goes on.
LEMMA MovePoint ==
  ASSUME TaskTypes, SoundInv, \A c \in Stacked : CallTyped(c), NEW x \in Coros, NEW p \in {"io", "none"},
         point[x] \in {"io", "none"}, x \notin done, point' = [point EXCEPT ![x] = p],
         UNCHANGED <<state, continuation, awaits, done, freed, cancelled, abandoned, raced>>
  PROVE  /\ \A s \in Coros : CoroSound(s)'
         /\ \A k \in Stacked : CallSound(k)' /\ (Live(k)' => Live(k)) /\ (Clean => FrameKept(k)')
         /\ Clean' = Clean /\ (Clean => x \notin freed)
         /\ Clean => \A s \in freed' : s \in done' \/ state'[s] = "Created"
<1>1. point'[x] = p /\ \A s \in Coros : s # x => point'[s] = point[s]
  BY ZenonT(30) DEF TaskTypes
<1>2. state[x] # "Created"
  BY Zenon DEF SoundInv, CoroSound
<1>3. ASSUME NEW s \in Coros, Awaited(s) PROVE Awaited(s)'
  <2>1. continuation[s] # None => continuation[s] \in Coros
    BY Zenon DEF TaskTypes
  <2> QED
    BY <1>1, <1>3, <2>1, Zenon DEF Awaited
<1>4. ASSUME NEW s \in Coros PROVE CoroSound(s)'
  <2>1. CoroSound(s)
    BY Zenon DEF SoundInv
  <2> QED
    BY <1>1, <1>2, <1>3, <2>1, Zenon DEF CoroSound
<1>5. ASSUME NEW k \in Stacked PROVE Live(k)' = Live(k)
  BY Zenon DEF Live
<1>6. ASSUME NEW k \in Stacked PROVE CallSound(k)'
  <2>1. CallSound(k) /\ CallTyped(k) /\ (k.user # Main => k.user \in Coros)
    BY Zenon DEF SoundInv, Stacked, Calls, T!Users
  <2>2. Live(k) => k.user # Main
    BY <2>1, Zenon DEF Live, CallTyped
  <2>3. Live(k)' => point'[k.user] = "await" /\ awaits'[k.user] = k.of
    BY <1>1, <1>5, <2>1, <2>2, Zenon DEF CallSound
  <2>4. k.at = "final" => Awaited(k.user)'
    <3>1. k.at = "final" => k.user \in Coros
      BY <2>1, Zenon DEF CallTyped
    <3> QED
      BY <1>3, <2>1, <3>1, Zenon DEF CallSound
  <2> QED
    BY <2>1, <2>3, <2>4, Zenon DEF CallSound, Active
<1>7. Clean' = Clean
  BY Zenon DEF Clean
<1>8. ASSUME Clean PROVE x \notin freed /\ \A s \in freed' : s \in done' \/ state'[s] = "Created"
  BY <1>2, <1>8, Zenon DEF SoundInv
<1>9. ASSUME Clean, NEW k \in Stacked PROVE FrameKept(k)'
  <2>1. FrameKept(k)
    BY <1>9, Zenon DEF SoundInv
  <2> QED
    BY <1>5, <2>1, Zenon DEF FrameKept
<1> QED
  BY <1>4, <1>5, <1>6, <1>7, <1>8, <1>9, Zenon

LEMMA SuspendIoStep ==
  ASSUME TaskInv, NEW h \in T!Threads, T!SuspendIo(h)
  PROVE  TaskInv'
<1> DEFINE m == Len(calls[h])
<1>1. /\ TaskTypes /\ (\A c \in Stacked : CallTyped(c))
      /\ wrong = {} => RunInv
      /\ Single /\ ~eager /\ wrong = {} => SoundInv
  BY TaskParts, Zenon
<1>2. /\ wrong = {} /\ calls[h] # <<>> /\ T!Top(h).at = "body" /\ T!Top(h).user # Main /\ RunInv
      /\ T!Stack(h, T!Below(h)) /\ wrong' = {}
      /\ UNCHANGED <<state, continuation, awaits, done, freed, used, eager, cancelled, abandoned, raced>>
  BY <1>1, Zenon DEF T!SuspendIo, T!At, T!flags
<1>3. PICK u : u = T!Top(h).user
  BY Zenon
<1>4. point' = [point EXCEPT ![u] = "io"]
  BY <1>3, Zenon DEF T!SuspendIo, T!AtPoint
<1>5. /\ T!Top(h) \in Stacked /\ u \in Coros /\ Active(T!Top(h)) /\ point[u] = "none"
      /\ \A k \in Others(h, m) : k \in Stacked
  <2>1. T!Top(h) \in Stacked /\ T!Top(h) \in Calls
    BY <1>1, <1>2, TopCall, Zenon
  <2>2. u \in Coros /\ Active(T!Top(h))
    BY <1>2, <1>3, <2>1, Zenon DEF Calls, T!Users, Active
  <2>3. point[u] = "none"
    BY <1>2, <1>3, <2>1, <2>2, Zenon DEF RunInv, Runs
  <2> QED
    BY <2>1, <2>2, <2>3, OthersStacked, Zenon
<1>6. PICK c : c \notin Calls
  BY NoSetContainsEverything, Zenon
<1>7. calls' \in [T!Threads -> Seq(Calls)] /\ Becomes(h, m, c)
  BY <1>1, <1>2, PopStack, Zenon
<1>8. point'[u] = "io" /\ \A s \in Coros : s # u => point'[s] = point[s]
  BY <1>1, <1>4, <1>5, Zenon DEF TaskTypes
<1>9. TaskTypes'
  <2>1. point' \in [Coros -> {"initial", "await", "io", "none"}]
    BY <1>1, <1>4, ZenonT(30) DEF TaskTypes
  <2> QED
    BY <1>1, <1>2, <1>7, <2>1, Zenon DEF TaskTypes
<1>10. Grows
  BY <1>2, Zenon DEF Grows
<1>11. (\A k \in Stacked : CallTyped(k))'
  BY <1>1, <1>6, <1>7, <1>10, StepTyped, Zenon
<1>12. RunInv'
  <2>1. ASSUME NEW k \in Others(h, m) PROVE Runs(k)'
    <3>1. Runs(k) /\ (k.user # Main => k.user \in Coros)
      BY <1>2, <1>5, Zenon DEF RunInv, Stacked, Calls, T!Users
    <3>2. Active(k) => k.user # u
      BY <1>1, <1>2, <1>3, <1>5, OtherActive, ZenonT(30) DEF RunInv
    <3> QED
      BY <1>8, <3>1, <3>2, Zenon DEF Runs, Active
  <2>2. \A s \in Coros : Waits(s)'
    BY <1>2, <1>5, <1>8, Zenon DEF RunInv, Waits
  <2> QED
    BY <1>1, <1>2, <1>6, <1>7, <2>1, <2>2, StepRuns, Zenon
<1>13. ASSUME Single', ~eager' PROVE SoundInv'
  <2>1. SoundInv
    BY <1>1, <1>2, <1>10, <1>13, SingleBefore, Zenon
  <2>2. u \notin done
    BY <1>2, <1>3, <1>5, <2>1, Zenon DEF SoundInv, CallSound
  <2>3. /\ \A s \in Coros : CoroSound(s)'
        /\ \A k \in Stacked : CallSound(k)' /\ (Live(k)' => Live(k)) /\ (Clean => FrameKept(k)')
        /\ Clean' = Clean
        /\ Clean => \A s \in freed' : s \in done' \/ state'[s] = "Created"
    BY <1>1, <1>2, <1>4, <1>5, <2>1, <2>2, MovePoint, Zenon
  <2> QED
    BY <1>1, <1>5, <1>6, <1>7, <2>1, <2>3, StepSound, Zenon
<1> QED
  BY <1>2, <1>9, <1>11, <1>12, <1>13, TaskWhole, NothingWrong, Zenon

LEMMA IoCompletesStep ==
  ASSUME T!TaskAssumption, TaskInv, NEW t \in Coros, T!IoCompletes(t)
  PROVE  TaskInv'
<1>1. /\ TaskTypes /\ (\A c \in Stacked : CallTyped(c))
      /\ wrong = {} => RunInv
      /\ Single /\ ~eager /\ wrong = {} => SoundInv
  BY TaskParts, Zenon
<1>2. PICK h \in T!Threads : h = "loop"
  BY ZenonT(30) DEF T!Threads
<1>3. /\ wrong = {} /\ calls[h] = <<>> /\ point[t] = "io" /\ RunInv
      /\ point' = [point EXCEPT ![t] = "none"] /\ wrong' = T!Resumes(t, "io")
      /\ T!Stack(h, <<T!Call(t, "body", None)>>)
      /\ UNCHANGED <<state, continuation, awaits, done, freed, used, eager, cancelled, abandoned, raced>>
  BY <1>1, <1>2, Zenon DEF T!IoCompletes, T!AtPoint, T!flags
<1>4. PICK c \in Calls : c = T!Call(t, "body", None) /\ c.user = t /\ c.at = "body" /\ c.of = None
  BY BodyCall, Zenon
<1>5. calls' \in [T!Threads -> Seq(Calls)] /\ Becomes(h, 1, c)
  BY <1>1, <1>3, <1>4, PushStack, Zenon
<1>6. Grows /\ CallTyped(c)' /\ ~Live(c)' /\ \A k \in Others(h, 1) : k \in Stacked
  <2>1. t # Main
    BY Zenon DEF T!TaskAssumption
  <2> QED
    BY <1>3, <1>4, <2>1, OthersStacked, Zenon DEF Grows, CallTyped, Acting, Live
<1>7. (\A k \in Stacked : CallTyped(k))'
  BY <1>1, <1>5, <1>6, StepTyped, Zenon
<1>8. wrong' \subseteq {"freed"} /\ (t \notin freed => wrong' = {})
  BY <1>3, ResumesWrong, Zenon
<1>9. /\ point'[t] = "none" /\ point' \in [Coros -> {"initial", "await", "io", "none"}]
      /\ \A k \in Stacked : Runs(k)' /\ (Active(k) => k.user # t)
      /\ \A s \in Coros : Waits(s)'
  BY <1>1, <1>3, Resumed, ZenonT(30)
<1>10. TaskTypes'
  BY <1>1, <1>3, <1>5, <1>8, <1>9, Zenon DEF TaskTypes
<1>11. RunInv'
  <2>1. Runs(c)'
    BY <1>4, <1>9, Zenon DEF Runs
  <2> QED
    BY <1>1, <1>3, <1>4, <1>5, <1>6, <1>9, <2>1, StepRuns, Zenon
<1>12. ASSUME Single', ~eager' PROVE Judged' /\ SoundInv'
  <2>1. SoundInv
    BY <1>1, <1>3, <1>6, <1>12, SingleBefore, Zenon
  <2>2. t \notin done
    BY <1>3, <2>1, Zenon DEF SoundInv, CoroSound
  <2>3. /\ \A s \in Coros : CoroSound(s)'
        /\ \A k \in Stacked : CallSound(k)' /\ (Live(k)' => Live(k)) /\ (Clean => FrameKept(k)')
        /\ Clean' = Clean /\ (Clean => t \notin freed)
        /\ Clean => \A s \in freed' : s \in done' \/ state'[s] = "Created"
    BY <1>1, <1>3, <2>1, <2>2, MovePoint, Zenon
  <2>4. Judged'
    BY <1>8, <2>3, Zenon DEF Judged
  <2>5. CallSound(c)' /\ FrameKept(c)'
    BY <1>3, <1>4, <1>6, <2>2, Zenon DEF CallSound, FrameKept, Acting
  <2> QED
    BY <1>1, <1>5, <1>6, <2>1, <2>3, <2>4, <2>5, StepSound, Zenon
<1> QED
  BY <1>7, <1>10, <1>11, <1>12, TaskWhole, Zenon

LEMMA FinalSuspendStep ==
  ASSUME TaskInv, NEW h \in T!Threads, T!final_suspend(h)
  PROVE  TaskInv'
<1> DEFINE m == Len(calls[h])
<1>1. /\ TaskTypes /\ (\A c \in Stacked : CallTyped(c))
      /\ wrong = {} => RunInv
      /\ Single /\ ~eager /\ wrong = {} => SoundInv
  BY TaskParts, Zenon
<1>2. /\ wrong = {} /\ calls[h] # <<>> /\ T!Top(h).at = "body" /\ T!Top(h).user # Main /\ RunInv
      /\ T!Goto(h, "final", None) /\ wrong' = {}
      /\ UNCHANGED <<continuation, point, awaits, freed, used, eager, cancelled, abandoned, raced>>
  BY <1>1, Zenon DEF T!final_suspend, T!At, T!flags
<1>3. PICK u : u = T!Top(h).user
  BY Zenon
<1>4. done' = done \cup {u} /\ state' = [state EXCEPT ![u] = "Completed"]
  BY <1>3, Zenon DEF T!final_suspend
<1>5. /\ T!Top(h) \in Stacked /\ u \in Coros /\ Active(T!Top(h)) /\ point[u] = "none"
      /\ \A k \in Others(h, m) : k \in Stacked
  <2>1. T!Top(h) \in Stacked /\ T!Top(h) \in Calls
    BY <1>1, <1>2, TopCall, Zenon
  <2>2. u \in Coros /\ Active(T!Top(h))
    BY <1>2, <1>3, <2>1, Zenon DEF Calls, T!Users, Active
  <2>3. point[u] = "none"
    BY <1>2, <1>3, <2>1, <2>2, Zenon DEF RunInv, Runs
  <2> QED
    BY <2>1, <2>2, <2>3, OthersStacked, Zenon
<1>6. calls' \in [T!Threads -> Seq(Calls)]
  BY <1>1, <1>2, GotoCall, ZenonT(30)
<1>7. PICK c \in Calls : c.user = u /\ c.at = "final" /\ c.of = None /\ Becomes(h, m, c)
  <2>1. Placed(h, m, u, "final", None)
    BY <1>1, <1>2, <1>3, GotoCall, ZenonT(30)
  <2> QED
    BY <2>1, Zenon DEF Placed
<1>8. state'[u] = "Completed" /\ \A s \in Coros : s # u => state'[s] = state[s]
  BY <1>1, <1>4, <1>5, Zenon DEF TaskTypes
<1>9. TaskTypes'
  <2>1. state' \in [Coros -> {"Created", "Running", "Completed", "Cancelled"}] /\ done' \subseteq Coros
    BY <1>1, <1>4, <1>5, Zenon DEF TaskTypes
  <2> QED
    BY <1>1, <1>2, <1>6, <2>1, Zenon DEF TaskTypes
<1>10. Grows /\ CallTyped(c)' /\ ~Live(c)'
  <2>1. u # Main
    BY <1>2, <1>3, Zenon
  <2> QED
    BY <1>2, <1>7, <2>1, Zenon DEF Grows, CallTyped, Acting, Live
<1>11. (\A k \in Stacked : CallTyped(k))'
  BY <1>1, <1>7, <1>10, StepTyped, Zenon
<1>12. \A k \in Others(h, m) : Active(k) => k.user # u
  BY <1>1, <1>2, <1>3, <1>5, OtherActive, Zenon DEF RunInv
<1>13. RunInv'
  <2>1. ASSUME NEW k \in Others(h, m) PROVE Runs(k)'
    BY <1>2, <1>5, Zenon DEF RunInv, Runs, Active
  <2>2. \A s \in Coros : Waits(s)'
    BY <1>2, Zenon DEF RunInv, Waits
  <2>3. Runs(c)'
    BY <1>2, <1>5, <1>7, Zenon DEF Runs
  <2> QED
    BY <1>1, <1>2, <1>7, <1>12, <2>1, <2>2, <2>3, StepRuns, Zenon
<1>14. ASSUME Single', ~eager' PROVE SoundInv'
  <2>1. SoundInv
    BY <1>1, <1>2, <1>10, <1>14, SingleBefore, Zenon
  <2>2. u \notin done /\ state[u] # "Created" /\ Awaited(u)
    BY <1>2, <1>3, <1>5, <2>1, Zenon DEF SoundInv, CallSound, CoroSound
  <2>3. Clean' = Clean
    BY <1>2, Zenon DEF Clean
  <2>4. ASSUME NEW s \in Coros PROVE CoroSound(s)'
    <3>1. CoroSound(s) /\ Awaited(s)' = Awaited(s)
      BY <1>2, <2>1, Zenon DEF SoundInv, Awaited
    <3> QED
      BY <1>2, <1>4, <1>5, <1>8, <2>2, <3>1, Zenon DEF CoroSound
  <2>5. ASSUME NEW k \in Others(h, m)
        PROVE  Live(k)' = Live(k) /\ CallSound(k)' /\ (Clean => FrameKept(k)')
    <3>1. CallSound(k) /\ CallTyped(k) /\ (Clean => FrameKept(k))
      BY <1>1, <1>5, <2>1, Zenon DEF SoundInv
    <3>2. k.at \in Acting => k.of \in Coros
      BY <3>1, Zenon DEF CallTyped
    <3>3. k.at \in Acting => (state'[k.of] = "Created" <=> state[k.of] = "Created")
      BY <1>8, <2>2, <3>2, Zenon
    <3>4. Live(k)' = Live(k)
      BY <3>3, Zenon DEF Live, Acting
    <3>5. Awaited(k.user)' = Awaited(k.user)
      BY <1>2, Zenon DEF Awaited
    <3>6. CallSound(k)'
      <4>1. k.at \in {"start", "get", "transfer"} => state'[k.of] = "Created"
        BY <3>1, <3>3, Zenon DEF CallSound, Acting
      <4>2. Active(k) => (k.user \in done' <=> k.at = "final")
        BY <1>4, <1>12, <3>1, Zenon DEF CallSound
      <4> QED
        BY <1>2, <3>1, <3>4, <3>5, <4>1, <4>2, Zenon DEF CallSound, Active
    <3>7. Clean => FrameKept(k)'
      BY <1>2, <3>1, <3>4, Zenon DEF FrameKept
    <3> QED
      BY <3>4, <3>6, <3>7, Zenon
  <2>6. Clean => u \notin freed /\ \A s \in freed' : s \in done' \/ state'[s] = "Created"
    <3>1. freed \subseteq Coros
      BY <1>1, Zenon DEF TaskTypes
    <3> QED
      BY <1>2, <1>4, <1>8, <2>1, <2>2, <3>1, Zenon DEF SoundInv
  <2>7. CallSound(c)'
    <3>1. Awaited(u)' = Awaited(u)
      BY <1>2, Zenon DEF Awaited
    <3> QED
      BY <1>4, <1>7, <1>10, <2>2, <3>1, ZenonT(30) DEF CallSound
  <2>8. Clean => FrameKept(c)'
    BY <1>2, <1>7, <2>6, Zenon DEF FrameKept, Acting
  <2> QED
    BY <1>1, <1>7, <1>10, <2>1, <2>3, <2>4, <2>5, <2>6, <2>7, <2>8, StepSound, Zenon
<1> QED
  BY <1>2, <1>9, <1>11, <1>13, <1>14, TaskWhole, NothingWrong, ZenonT(30)

\* Nobody waits: the stack loses the call that has ended.
LEMMA NobodyResumed ==
  ASSUME TaskInv, NEW h \in T!Threads, T!At(h, "final"), T!Stack(h, T!Below(h)),
         wrong' = T!Uses({T!Top(h).user}),
         UNCHANGED <<state, continuation, point, awaits, done, freed, used, eager, cancelled,
                     abandoned, raced>>
  PROVE  TaskInv'
<1> DEFINE m == Len(calls[h])
<1>1. /\ TaskTypes /\ (\A c \in Stacked : CallTyped(c))
      /\ wrong = {} => RunInv
      /\ Single /\ ~eager /\ wrong = {} => SoundInv
  BY TaskParts, Zenon
<1>2. wrong = {} /\ calls[h] # <<>> /\ T!Top(h).at = "final" /\ RunInv
  BY <1>1, Zenon DEF T!At
<1>3. T!Top(h) \in Stacked /\ \A k \in Others(h, m) : k \in Stacked
  BY <1>1, <1>2, TopCall, OthersStacked, Zenon
<1>4. PICK c : c \notin Calls
  BY NoSetContainsEverything, Zenon
<1>5. calls' \in [T!Threads -> Seq(Calls)] /\ Becomes(h, m, c)
  BY <1>1, <1>2, PopStack, Zenon
<1>6. Quiet /\ Grows
  BY Zenon DEF Quiet, Grows
<1>7. wrong' \subseteq {"freed"} /\ (T!Top(h).user \notin freed => wrong' = {})
  BY UsesFreed, Zenon
<1>8. TaskTypes'
  BY <1>1, <1>5, <1>7, ZenonT(30) DEF TaskTypes
<1>9. (\A k \in Stacked : CallTyped(k))'
  BY <1>1, <1>4, <1>5, <1>6, StepTyped, Zenon
<1>10. RunInv'
  <2>1. \A k \in Others(h, m) : Runs(k)'
    BY <1>2, <1>3, <1>6, QuietCalls, ZenonT(30) DEF RunInv
  <2>2. \A s \in Coros : Waits(s)'
    BY <1>2, Zenon DEF RunInv, Waits
  <2> QED
    BY <1>1, <1>2, <1>4, <1>5, <2>1, <2>2, StepRuns, Zenon
<1>11. ASSUME Single', ~eager' PROVE Judged' /\ SoundInv'
  <2>1. SoundInv
    BY <1>1, <1>2, <1>6, <1>11, SingleBefore, Zenon
  <2>2. Clean' = Clean
    BY Zenon DEF Clean
  <2>3. Judged'
    <3>1. Clean => T!Top(h).user \notin freed
      BY <1>2, <1>3, <2>1, ZenonT(30) DEF SoundInv, FrameKept
    <3> QED
      BY <1>7, <2>2, <3>1, Zenon DEF Judged
  <2>4. \A s \in Coros : CoroSound(s)'
    BY <2>1, ZenonT(30) DEF SoundInv, CoroSound, Awaited
  <2>5. \A k \in Others(h, m) : CallSound(k)' /\ (Live(k)' => Live(k)) /\ (Clean => FrameKept(k)')
    BY <1>3, <1>6, <2>1, QuietCalls, Zenon DEF SoundInv
  <2>6. Clean => \A s \in freed' : s \in done' \/ state'[s] = "Created"
    BY <2>1, Zenon DEF SoundInv
  <2> QED
    BY <1>1, <1>4, <1>5, <2>1, <2>2, <2>3, <2>4, <2>5, <2>6, StepSound, Zenon
<1> QED
  BY <1>8, <1>9, <1>10, <1>11, TaskWhole, Zenon

\* The continuation u runs in the place of the call that has ended.
LEMMA ContinuationResumed ==
  ASSUME T!TaskAssumption, TaskInv, NEW h \in T!Threads, T!At(h, "final"), NEW t, t = T!Top(h).user, NEW u \in Coros,
         u = continuation[t], T!Stack(h, Append(T!Below(h), T!Call(u, "body", None))),
         wrong' = T!Resumes(u, "await") \cup T!Receives(awaits[u]),
         point' = [point EXCEPT ![u] = "none"], awaits' = [awaits EXCEPT ![u] = None],
         UNCHANGED <<state, continuation, done, freed, used, eager, cancelled, abandoned, raced>>
  PROVE  TaskInv'
<1> DEFINE m == Len(calls[h])
<1>1. /\ TaskTypes /\ (\A c \in Stacked : CallTyped(c))
      /\ wrong = {} => RunInv
      /\ Single /\ ~eager /\ wrong = {} => SoundInv
  BY TaskParts, Zenon
<1>2. wrong = {} /\ calls[h] # <<>> /\ T!Top(h).at = "final" /\ RunInv
  BY <1>1, Zenon DEF T!At
<1>3. PICK c \in Calls : c = T!Call(u, "body", None) /\ c.user = u /\ c.at = "body" /\ c.of = None
  BY BodyCall, Zenon
<1>4. calls' \in [T!Threads -> Seq(Calls)] /\ Becomes(h, m, c)
  BY <1>1, <1>2, <1>3, GotoStack, ZenonT(30)
<1>5. Grows /\ CallTyped(c)' /\ ~Live(c)'
  <2>1. u # Main
    BY Zenon DEF T!TaskAssumption
  <2> QED
    BY <1>3, <2>1, ZenonT(30) DEF Grows, CallTyped, Acting, Live
<1>6. T!Top(h) \in Stacked /\ \A k \in Others(h, m) : k \in Stacked
  BY <1>1, <1>2, TopCall, OthersStacked, ZenonT(30)
<1>7. (\A k \in Stacked : CallTyped(k))'
  BY <1>1, <1>4, <1>5, StepTyped, ZenonT(30)
<1>8. wrong' \subseteq {"twice", "early", "freed"} /\ (wrong' = {} => point[u] = "await")
  BY ResumesWrong, ZenonT(30) DEF T!Receives
<1>9. TaskTypes'
  <2>1. /\ point' \in [Coros -> {"initial", "await", "io", "none"}]
        /\ awaits' \in [Coros -> Coros \cup {None}]
    BY <1>1, Zenon DEF TaskTypes
  <2> QED
    BY <1>1, <1>4, <1>8, <2>1, Zenon DEF TaskTypes
<1>10. ASSUME point[u] = "await" PROVE RunInv'
  <2>1. /\ point'[u] = "none"
        /\ \A k \in Stacked : Runs(k)' /\ (Active(k) => k.user # u)
        /\ \A s \in Coros : Waits(s)'
    BY <1>1, <1>2, <1>10, Resumed, ZenonT(30)
  <2>2. Runs(c)'
    BY <1>3, <2>1, ZenonT(30) DEF Runs
  <2> QED
    BY <1>1, <1>2, <1>3, <1>4, <1>6, <2>1, <2>2, StepRuns, ZenonT(30)
<1>11. ASSUME Single', ~eager' PROVE Judged' /\ SoundInv'
  <2>1. SoundInv
    BY <1>1, <1>2, <1>5, <1>11, SingleBefore, Zenon
  <2>2. t \in done /\ t \in Coros /\ point[u] = "await" /\ awaits[u] = t
    <3>1. CallSound(T!Top(h)) /\ CallTyped(T!Top(h)) /\ T!Top(h) \in Calls
      BY <1>1, <1>2, <1>6, <2>1, TopCall, ZenonT(30) DEF SoundInv
    <3>2. t \in Coros /\ t \in done /\ Awaited(t)
      BY <1>2, <3>1, ZenonT(30) DEF CallSound, CallTyped, Calls, T!Users, Active
    <3>3. u # None
      BY ZenonT(30) DEF T!TaskAssumption
    <3> QED
      BY <3>2, <3>3, ZenonT(30) DEF Awaited
  <2>3. state[t] # "Created" /\ u \notin done /\ state[u] # "Created" /\ Clean' = Clean
    <3>1. CoroSound(t) /\ CoroSound(u)
      BY <2>1, <2>2, ZenonT(30) DEF SoundInv
    <3> QED
      BY <2>2, <3>1, Zenon DEF CoroSound, Clean
  <2>4. Clean => u \notin freed /\ \A s \in freed' : s \in done' \/ state'[s] = "Created"
    BY <2>1, <2>3, ZenonT(30) DEF SoundInv
  <2>5. Judged'
    <3>1. T!Receives(awaits[u]) = {}
      BY <2>2, Zenon DEF T!Receives
    <3>2. wrong' \subseteq {"freed"} /\ (u \notin freed => wrong' = {})
      BY <2>2, <3>1, ResumesWrong, Zenon
    <3> QED
      BY <2>3, <2>4, <3>2, Zenon DEF Judged
  <2>6. /\ point'[u] = "none"
        /\ \A s \in Coros : s # u => point'[s] = point[s] /\ awaits'[s] = awaits[s]
    BY <1>1, Zenon DEF TaskTypes
  <2>7. ASSUME NEW s \in Coros, s # t, Awaited(s) PROVE Awaited(s)'
    <3>1. continuation[s] # None => continuation[s] \in Coros
      BY <1>1, ZenonT(30) DEF TaskTypes
    <3> QED
      BY <2>2, <2>6, <2>7, <3>1, ZenonT(30) DEF Awaited
  <2>8. ASSUME NEW s \in Coros PROVE CoroSound(s)'
    <3>1. CoroSound(s)
      BY <2>1, ZenonT(30) DEF SoundInv
    <3> QED
      BY <2>2, <2>3, <2>6, <2>7, <3>1, ZenonT(30) DEF CoroSound
  <2>9. ASSUME NEW k \in Others(h, m)
        PROVE  Live(k)' = Live(k) /\ CallSound(k)' /\ (Clean => FrameKept(k)')
    <3>1. /\ CallSound(k) /\ CallTyped(k) /\ (Clean => FrameKept(k))
          /\ (k.user # Main => k.user \in Coros)
      BY <1>1, <1>6, <2>1, Zenon DEF SoundInv, Stacked, Calls, T!Users
    <3>2. Live(k)' = Live(k)
      BY ZenonT(30) DEF Live
    <3>3. Live(k)' => point'[k.user] = "await" /\ awaits'[k.user] = k.of
      <4>1. Live(k) => state[k.of] = "Created" /\ k.user \in Coros
        BY <3>1, Zenon DEF Live, CallSound, CallTyped
      <4>2. Live(k) => point[k.user] = "await" /\ awaits[k.user] = k.of
        BY <3>1, ZenonT(30) DEF CallSound
      <4>3. Live(k) => k.user # u
        BY <2>2, <2>3, <4>1, <4>2, Zenon
      <4> QED
        BY <2>6, <3>2, <4>1, <4>2, <4>3, Zenon
    <3>4. k.at = "final" => Awaited(k.user)'
      <4>1. ASSUME k.at = "final" PROVE k.user # t /\ k.user \in Coros
        <5>1. Active(k) /\ Active(T!Top(h)) /\ k.user \in Coros
          BY <1>2, <3>1, <4>1, Zenon DEF Active, CallTyped
        <5> QED
          BY <1>1, <1>2, <5>1, OtherActive, ZenonT(30) DEF RunInv
      <4>2. k.at = "final" => Awaited(k.user)
        BY <3>1, Zenon DEF CallSound
      <4> QED
        BY <2>7, <4>1, <4>2, ZenonT(30)
    <3>5. CallSound(k)'
      BY <3>1, <3>3, <3>4, Zenon DEF CallSound, Active
    <3>6. Clean => FrameKept(k)'
      BY <3>1, <3>2, ZenonT(30) DEF FrameKept
    <3> QED
      BY <3>2, <3>5, <3>6, ZenonT(30)
  <2>10. CallSound(c)' /\ FrameKept(c)'
    BY <1>3, <1>5, <2>3, ZenonT(30) DEF CallSound, FrameKept, Acting
  <2>11. SoundInv'
    BY <1>1, <1>4, <1>5, <2>1, <2>3, <2>4, <2>8, <2>9, <2>10, StepSound, Zenon
  <2> QED
    BY <2>5, <2>11, ZenonT(30)
<1> QED
  BY <1>7, <1>8, <1>9, <1>10, <1>11, TaskWhole, Zenon

LEMMA ResumeContinuationStep ==
  ASSUME T!TaskAssumption, TaskInv, NEW h \in T!Threads, T!ResumeContinuation(h)
  PROVE  TaskInv'
<1>1. PICK t : t = T!Top(h).user
  BY Zenon
<1>2. PICK u : u = continuation[t]
  BY Zenon
<1>3. /\ T!At(h, "final")
      /\ UNCHANGED <<state, continuation, done, freed, used, eager, cancelled, abandoned, raced>>
  BY Zenon DEF T!ResumeContinuation, T!flags
<1>4. CASE u = None \/ t \in freed
  <2>1. wrong' = T!Uses({t}) /\ T!Stack(h, T!Below(h)) /\ UNCHANGED <<point, awaits>>
    BY <1>1, <1>2, <1>4, ZenonT(30) DEF T!ResumeContinuation
  <2> QED
    BY <1>1, <1>3, <2>1, NobodyResumed, Zenon
<1>5. CASE ~(u = None \/ t \in freed)
  <2>1. /\ wrong' = T!Resumes(u, "await") \cup T!Receives(awaits[u])
        /\ T!Stack(h, Append(T!Below(h), T!Call(u, "body", None)))
        /\ point' = [point EXCEPT ![u] = "none"] /\ awaits' = [awaits EXCEPT ![u] = None]
    BY <1>1, <1>2, <1>5, Zenon DEF T!ResumeContinuation, T!AtPoint
  <2>2. u \in Coros
    <3>1. TaskTypes /\ \A c \in Stacked : CallTyped(c)
      BY TaskParts, Zenon
    <3>2. T!Top(h).at = "final" /\ T!Top(h) \in Stacked /\ T!Top(h) \in Calls
      BY <1>3, <3>1, TopCall, Zenon DEF T!At
    <3>3. t \in Coros
      BY <1>1, <3>1, <3>2, Zenon DEF CallTyped, Calls, T!Users
    <3> QED
      BY <1>2, <1>5, <3>1, <3>3, Zenon DEF TaskTypes
  <2> QED
    BY <1>1, <1>2, <1>3, <2>1, <2>2, ContinuationResumed, ZenonT(30)
<1> QED
  BY <1>4, <1>5, ZenonT(30)

-----------------------------------------------------------------------------
LEMMA TaskInvInit == T!Init => TaskInv
<1> SUFFICES ASSUME T!Init PROVE TaskInv
  BY Zenon
<1>1. PICK c : c = T!Call(Main, "body", None)
  BY Zenon
<1>2. c \in Calls /\ c.user = Main /\ c.at = "body"
  BY <1>1, Zenon DEF T!Call, Calls, T!Users
<1>3. /\ calls = [h \in T!Threads |-> IF h = "main" THEN <<c>> ELSE <<>>]
      /\ wrong = {} /\ freed = {} /\ done = {}
  BY <1>1, Zenon DEF T!Init
<1>4. <<c>> \in Seq(Calls) /\ <<>> \in Seq(Calls) /\ Len(<<c>>) = 1 /\ Len(<<>>) = 0 /\ <<c>>[1] = c
  BY <1>2
<1>5. \A g \in T!Threads : \A j \in 1..Len(calls[g]) : g = "main" /\ j = 1 /\ calls[g][j] = c
  BY <1>3, <1>4, SMTT(30)
<1>6. TaskTypes
  <2>1. calls \in [T!Threads -> Seq(Calls)]
    BY <1>3, <1>4, Zenon
  <2>2. \A t \in Coros : used[t] = {} /\ IsFiniteSet(used[t])
    BY FiniteEmpty, Zenon DEF T!Init
  <2> QED
    BY <2>1, <2>2, Zenon DEF T!Init, TaskTypes
<1>7. \A k \in Stacked : k = c
  BY <1>5, Zenon DEF Stacked
<1>8. \A k \in Stacked : CallTyped(k)
  BY <1>2, <1>7, Zenon DEF CallTyped, Acting
<1>9. \A Q : Apart(calls, Q)
  BY <1>5, Zenon DEF Apart
<1>10. RunInv
  <2>1. \A k \in Stacked : Runs(k)
    BY <1>2, <1>7, Zenon DEF Runs
  <2>2. \A u \in Coros : Waits(u)
    BY Zenon DEF T!Init, Waits
  <2> QED
    BY <1>9, <2>1, <2>2, Zenon DEF RunInv, ActiveApart
<1>11. SoundInv
  <2>1. \A t \in Coros : CoroSound(t)
    BY Zenon DEF T!Init, CoroSound, Awaited
  <2>2. \A k \in Stacked : CallSound(k) /\ FrameKept(k)
    BY <1>2, <1>3, <1>7, Zenon DEF CallSound, Live, FrameKept
  <2> QED
    BY <1>3, <1>9, <2>1, <2>2, Zenon DEF SoundInv, LiveApart
<1> QED
  BY <1>3, <1>6, <1>8, <1>10, <1>11, Zenon DEF TaskInv, Judged

LEMMA TaskStep ==
  ASSUME T!TaskAssumption, TaskInv, NEW h \in T!Threads, T!Step(h)
  PROVE  TaskInv'
<1>1. CASE T!RunInline(h, "start", "body") \/ T!RunInline(h, "get", "spin")
  BY <1>1, RunInlineStep, Zenon
<1>2. CASE T!GetReturns(h)
  BY <1>2, GetReturnsStep, Zenon
<1>3. CASE T!StoreCancelled(h)
  BY <1>3, StoreCancelledStep, Zenon
<1>4. CASE T!SetContinuation(h)
  BY <1>4, SetContinuationStep, Zenon
<1>5. CASE T!AwaitStarted(h)
  BY <1>5, AwaitStartedStep, ZenonT(30)
<1>6. CASE T!AwaitCreated(h)
  BY <1>6, AwaitCreatedStep, Zenon
<1>7. CASE T!Transfer(h)
  BY <1>7, TransferStep, Zenon
<1>8. CASE T!SuspendIo(h)
  BY <1>8, SuspendIoStep, Zenon
<1>9. CASE T!final_suspend(h)
  BY <1>9, FinalSuspendStep, Zenon
<1>10. CASE T!ResumeContinuation(h)
  BY <1>10, ResumeContinuationStep, Zenon
<1>11. CASE \E t \in Coros : \/ T!start(h, t) \/ T!get(h, t) \/ T!await_ready(h, t)
                             \/ T!cancel(h, t) \/ T!destroy(h, t)
  BY <1>11, StartStep, GetStep, AwaitReadyStep, CancelStep, DestroyStep, Zenon
<1> QED
  BY <1>1, <1>2, <1>3, <1>4, <1>5, <1>6, <1>7, <1>8, <1>9, <1>10, <1>11, Zenon DEF T!Step

LEMMA TaskInvNext ==
  ASSUME T!TaskAssumption, TaskInv, [T!Next]_T!vars
  PROVE  TaskInv'
<1>1. CASE UNCHANGED T!vars
  <2>1. UNCHANGED <<state, continuation, calls, point, awaits, done, freed, used, eager, cancelled,
                    abandoned, raced, wrong>>
    BY <1>1, Zenon DEF T!vars
  <2>2. Stacked' = Stacked /\ (TaskTypes => TaskTypes') /\ Single' = Single /\ Clean' = Clean
    BY <2>1, Zenon DEF Stacked, TaskTypes, Single, Clean
  <2>3. Quiet /\ \A k : CallTyped(k)' = CallTyped(k)
    BY <2>1, Zenon DEF Quiet, CallTyped
  <2>4. RunInv => RunInv'
    BY <2>1, <2>2, <2>3, QuietCalls, Zenon DEF RunInv, ActiveApart, Waits
  <2>5. SoundInv => SoundInv'
    <3>1. LiveApart' = LiveApart /\ \A t : CoroSound(t)' = CoroSound(t)
      BY <2>1, ZenonT(30) DEF LiveApart, LiveCalls, Live, CoroSound, Awaited
    <3> QED
      BY <2>1, <2>2, <2>3, <3>1, QuietCalls, ZenonT(30) DEF SoundInv
  <2>6. Judged' = Judged
    BY <2>1, <2>2, Zenon DEF Judged
  <2> QED
    BY <2>1, <2>2, <2>3, <2>4, <2>5, <2>6, ZenonT(30) DEF TaskInv
<1>2. CASE T!Next
  BY <1>2, TaskStep, IoCompletesStep, Zenon DEF T!Next
<1> QED
  BY <1>1, <1>2, Zenon

INSTANCE FiniteSetTheorems

LEMMA OneUserSingle ==
  ASSUME TaskTypes, T!OneUser
  PROVE  Single
<1> SUFFICES ASSUME NEW t \in Coros, NEW u \in used[t], NEW v \in used[t], u # v PROVE FALSE
  BY ZenonT(30) DEF Single
<1>1. IsFiniteSet(used[t]) /\ Cardinality(used[t]) <= 1
  <2>1. \A S : T!Cardinality(S) = Cardinality(S)
    BY Zenon DEF T!Cardinality, Cardinality
  <2> QED
    BY <2>1, ZenonT(30) DEF TaskTypes, T!OneUser
<1>2. {u, v} \subseteq used[t]
  BY Zenon
<1>3. IsFiniteSet({v}) /\ Cardinality({v}) = 1
  BY FS_Singleton, Zenon
<1>4. Cardinality({v} \cup {u}) = 2 /\ {v} \cup {u} = {u, v}
  BY <1>3, FS_AddElement, SMTT(30)
<1>5. Cardinality({u, v}) <= Cardinality(used[t]) /\ Cardinality(used[t]) \in Nat
  BY <1>1, <1>2, FS_Subset, FS_CardinalityType, Zenon
<1> QED
  BY <1>1, <1>4, <1>5, SMTT(30)

\* Task, used as it expects, is sound for any number of coroutines and operations: with
\* one user per task, which awaits it only before starting it, final_suspend() and
\* await_suspend() on two threads never resume a coroutine that runs; without cancel()
\* co_await and get() return only once the result is there; and when every started task
\* is destroyed after its end, outside final_suspend(), no destroyed frame is used.
THEOREM TaskSoundIfUsedWell == T!Spec => []SoundIfUsedWell
<1>1. TaskInv => SoundIfUsedWell
  <2> SUFFICES ASSUME TaskInv PROVE T!TypeOK /\ T!SoundIfUsedWell
    BY Zenon DEF SoundIfUsedWell
  <2>1. TaskTypes /\ (wrong = {} => RunInv) /\ (Single /\ ~eager => Judged)
    BY Zenon DEF TaskInv
  <2>2. T!TypeOK
    BY <2>1, Zenon DEF TaskTypes, RunInv, Waits, T!TypeOK
  <2>3. T!SoundIfUsedWell
    BY <2>1, OneUserSingle, TasksAssumption, Zenon DEF T!SoundIfUsedWell, Judged, Clean
  <2> QED
    BY <2>2, <2>3, Zenon
<1>2. TaskInv /\ [T!Next]_T!vars => TaskInv'
  BY TaskInvNext, TasksAssumption, Zenon
<1> QED
  BY <1>1, <1>2, TaskInvInit, TasksAssumption, PTL DEF T!Spec
=============================================================================
