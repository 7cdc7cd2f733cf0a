-------------------------- MODULE ResponseEnd_proofs --------------------------
(***************************************************************************)
(* Proofs about ResponseEnd, for any number of turns, any lengths of their *)
(* prompts and responses and any pool that EndAssumption admits.           *)
(*                                                                         *)
(* RefsAccounted and DataExact are not inductive: that an end can be given *)
(* back needs that no table names a block twice, that an end is intact     *)
(* needs that nobody computes into a block that a copy still reads, and    *)
(* both need that the one copy under way and the pins in copyPins are of   *)
(* the same two blocks.  EInv adds that, and where the state of a turn is. *)
(***************************************************************************)
EXTENDS ResponseEnd, FiniteSetTheorems, WellFoundedInduction, TLAPS

\* No element twice.
Injective(s) == \A i, j \in DOMAIN s : s[i] = s[j] => i = j

One(b, S) == IF b \in S THEN 1 ELSE 0

PoolType == [free : Seq(Block), ref : [Block -> Nat]]

\* The free queue has each block without an owner, once.
GoodPool(p) ==
    /\ p \in PoolType
    /\ Injective(p.free)
    /\ ToSet(p.free) = {b \in Block : p.ref[b] = 0}

Copy == [src : Block, dst : Block, tail : Block]

Request ==
    [phase : {"new", "waiting", "running", "done"}, attn : Seq(Block), state : Seq(Block),
     lease : 0..Len(End), known : Nat]

Endpoint == [turn : Turn, attn : Seq(Block) \ {<< >>}, state : Block]

Frame ==
    [at : {"idle", "worker", "output"}, turn : {0} \cup Turn, copies : Seq(Copy),
     cow : Seq(Block)]

EndTypeOK ==
    /\ content \in [Block -> (0..Len(End)) \X Nat]
    /\ req \in [Turn -> Request]
    /\ entry = NoEntry \/ entry \in Endpoint
    /\ pending \in Seq(Copy)
    /\ copyPins \in Seq(Block)
    /\ frame \in Frame
    /\ transfer \subseteq Block
    /\ resets \in Nat

\* The blocks the endpoint pins, and those in the tables of requests.
PinnedBy(e) == IF e = NoEntry THEN {} ELSE ToSet(Append(e.attn, e.state))
TablesOf(q) == UNION {ToSet(q[r].attn \o q[r].state) : r \in Turn}

\* Only a running turn has blocks, and it has both kinds; the turns before one
\* that has arrived are done.
OneTurn ==
    /\ \A r \in Turn :
         IF req[r].phase = "running" THEN req[r].attn # << >> /\ req[r].state # << >>
                                     ELSE req[r].attn = << >> /\ req[r].state = << >>
    /\ \A r \in Turn : \A q \in 1..(r - 1) : req[r].phase # "new" => req[q].phase = "done"

\* A frame on its way is for a running turn, or for none.
FrameFits ==
    /\ frame.at = "idle" <=> frame = IdleFrame
    /\ frame.turn # 0 => req[frame.turn].phase = "running"
    /\ frame.at # "idle" => pending = << >>

\* At most one copy is ordered or under way, and copyPins pins its two blocks.
OneCopy ==
    \/ copyPins = << >> /\ pending = << >> /\ frame.copies = << >>
    \/ \E c \in Copy :
         /\ copyPins = <<c.src, c.dst>> /\ c.src # c.dst
         /\ \/ pending = <<c>> /\ frame.copies = << >>
            \/ pending = << >> /\ frame.copies = <<c>>

\* Its destination is in no table but the endpoint's, as its state block.
Copies == ToSet(pending) \cup ToSet(frame.copies)
CopyPrivate ==
    \A c \in Copies : c.dst \notin TablesOf(req) /\ c.dst \notin ToSet(entry.attn)

\* No table names a block twice.
NoneTwice ==
    /\ \A r \in Turn : Injective(req[r].attn \o req[r].state)
    /\ Injective(Append(entry.attn, entry.state))
    /\ Injective(frame.cow)

\* The pool p is in order, and a block counts one for each of its owners: the
\* endpoint P, the copy C, the copy on write W, and the tables T.
Counted(p, P, C, W, T) ==
    /\ GoodPool(p)
    /\ \A b \in Block : p.ref[b] = One(b, P) + One(b, C) + One(b, W) + One(b, T)

RefsAre ==
    Counted(pool, PinnedBy(entry), ToSet(copyPins), ToSet(frame.cow), TablesOf(req))

\* Copies the worker has not made.
ToMake == IF frame.at = "worker" THEN ToSet(frame.copies) ELSE ToSet(pending)

\* The endpoint's state block holds its state, or the source of the copy does.
EntryState ==
    entry # NoEntry =>
        IF ToMake = {} THEN content[entry.state] = <<entry.turn, Len(entry.attn)>>
        ELSE \A c \in ToMake :
               c.dst = entry.state /\ content[c.src] = <<entry.turn, Len(entry.attn)>>

Computing(r) == frame.at = "worker" /\ frame.turn = r

\* What a step computes into belongs to its turn alone.
FreshOutputs ==
    \A r \in Turn : Computing(r) =>
        {Last(req[r].attn), Last(req[r].state)}
          \cap (PinnedBy(entry) \cup ToSet(copyPins) \cup ToSet(frame.cow)) = {}

\* The last state of a turn is the state at its last place.
StateComputed ==
    \A r \in Turn : req[r].phase = "running" /\ ~Computing(r) =>
        content[Last(req[r].state)] = <<r, Len(req[r].attn)>>

\* A first step from the endpoint: the endpoint's blocks before the last, and
\* its last block and its state as the sources of the copy on write.
FromEntry(r) ==
    /\ Matches(r)
    /\ frame.cow = <<Last(entry.attn), entry.state>>
    /\ Len(req[r].attn) = Len(entry.attn)
    /\ \A i \in 1..(Len(entry.attn) - 1) : req[r].attn[i] = entry.attn[i]

\* A step from nothing, or from the turn's own state before.
FromState(r) ==
    /\ frame.cow = << >>
    /\ Len(req[r].attn) > 1 =>
         /\ Len(req[r].state) > 1
         /\ content[req[r].state[Len(req[r].state) - 1]] = <<r, Len(req[r].attn) - 1>>

StepStarts == \A r \in Turn : Computing(r) => FromEntry(r) \/ FromState(r)

\* Every place a turn has computed holds its data, and so does the endpoint.
TablesExact ==
    \A r \in Turn :
        \A i \in 1..(IF Computing(r) THEN Len(req[r].attn) - 1 ELSE Len(req[r].attn)) :
            Holds(content, req[r].attn[i], i, r)
EntryExact ==
    entry # NoEntry =>
        \A i \in 1..Len(entry.attn) : Holds(content, entry.attn[i], i, entry.turn)

EInv ==
    /\ EndTypeOK /\ OneTurn /\ FrameFits
    /\ OneCopy /\ CopyPrivate /\ NoneTwice /\ RefsAre
    /\ EntryState /\ FreshOutputs /\ StateComputed /\ StepStarts
    /\ TablesExact /\ EntryExact

-----------------------------------------------------------------------------
(***************************************************************************)
(* Lists of blocks.                                                        *)
(***************************************************************************)
\* A nonempty set of naturals has a least element.
LEMMA LeastIn ==
    ASSUME NEW S \in SUBSET Nat, S # {}
    PROVE  \E x \in S : \A y \in S : x <= y
<1>1. IsWellFoundedOn(OpToRel(<, Nat), Nat)
    BY NatLessThanWellFounded
<1>2. PICK x \in S : \A y \in S : ~(<<y, x>> \in OpToRel(<, Nat))
    BY <1>1, WFMin
<1>3. \A y \in S : ~(<<y, x>> \in {ss \in Nat \X Nat : ss[1] < ss[2]})
    BY <1>2 DEF OpToRel
<1>4. \A y \in S : x <= y
  <2> TAKE y \in S
  <2>1. ~(y < x)
      BY <1>3
  <2> QED BY <2>1
<1> QED BY <1>4

\* The values of the recursive function inside Only.
UpTo(s, B) ==
    CHOOSE upTo : upTo =
        [n \in 0..Len(s) |->
           IF n = 0 THEN << >>
           ELSE IF s[n] \in B THEN Append(upTo[n - 1], s[n]) ELSE upTo[n - 1]]

\* The recursion inside Only has a solution, so each prefix extends the one before.
LEMMA UpToRecursion ==
    ASSUME NEW s \in Seq(Block), NEW B
    PROVE  /\ UpTo(s, B)[0] = << >>
           /\ \A n \in 1..Len(s) :
                UpTo(s, B)[n] = IF s[n] \in B THEN Append(UpTo(s, B)[n - 1], s[n])
                                              ELSE UpTo(s, B)[n - 1]
<1> DEFINE Rec(f, k) ==
        f = [n \in 0..k |-> IF n = 0 THEN << >>
                            ELSE IF s[n] \in B THEN Append(f[n - 1], s[n]) ELSE f[n - 1]]
           Bad == {k \in Nat : ~ \E f : Rec(f, k)}
<1>1. Bad = {}
  <2>1. SUFFICES ASSUME Bad # {} PROVE FALSE
      OBVIOUS
  <2>2. PICK k \in Bad : \A j \in Bad : k <= j
    <3>1. Bad \in SUBSET Nat
        OBVIOUS
    <3> HIDE DEF Bad
    <3> QED BY <2>1, <3>1, LeastIn
  <2>3. k \in Nat /\ ~ \E f : Rec(f, k)
      OBVIOUS
  <2>4. CASE k = 0
    <3>1. Rec([n \in 0..0 |-> << >>], 0)
        OBVIOUS
    <3> QED BY <2>3, <2>4, <3>1
  <2>5. CASE k # 0
    <3>1. k - 1 \in Nat /\ k - 1 \notin Bad
      <4> HIDE DEF Bad, Rec
      <4> QED BY <2>2, <2>3, <2>5
    <3>2. PICK f : Rec(f, k - 1)
      <4>1. \E f : Rec(f, k - 1)
        <5> HIDE DEF Rec
        <5> QED BY <3>1
      <4> HIDE DEF Rec
      <4> QED BY <4>1
    <3> DEFINE g == [n \in 0..k |->
                       IF n = k THEN (IF s[k] \in B THEN Append(f[k - 1], s[k]) ELSE f[k - 1])
                                ELSE f[n]]
    <3>3. \A n \in 0..(k - 1) :
             f[n] = IF n = 0 THEN << >>
                    ELSE IF s[n] \in B THEN Append(f[n - 1], s[n]) ELSE f[n - 1]
      <4> HIDE DEF g
      <4> QED BY <3>2
    <3>4. \A n \in 0..k :
             g[n] = IF n = 0 THEN << >>
                    ELSE IF s[n] \in B THEN Append(g[n - 1], s[n]) ELSE g[n - 1]
      <4> TAKE n \in 0..k
      <4>1. CASE n = k
          BY <4>1, <2>3, <2>5
      <4>2. CASE n # k /\ n # 0
        <5>1. n \in 0..(k - 1) /\ n - 1 \in 0..(k - 1) /\ n - 1 # k /\ n - 1 \in 0..k
            BY <4>2, <2>3
        <5>2. g[n] = f[n] /\ g[n - 1] = f[n - 1]
            BY <5>1, <4>2
        <5> HIDE DEF g
        <5> QED BY <5>1, <5>2, <3>3, <4>2
      <4>3. CASE n # k /\ n = 0
        <5>1. 0 \in 0..(k - 1) /\ g[0] = f[0]
            BY <4>3, <2>3
        <5> HIDE DEF g
        <5> QED BY <5>1, <3>3, <4>3
      <4> QED BY <4>1, <4>2, <4>3
    <3>5. Rec(g, k)
      <4>1. g = [n \in 0..k |-> g[n]]
          OBVIOUS
      <4> HIDE DEF g
      <4> QED BY <4>1, <3>4
    <3> QED BY <2>3, <3>5
  <2> QED BY <2>4, <2>5
<1>2. Len(s) \in Nat
    OBVIOUS
<1>3. \E f : Rec(f, Len(s))
    BY <1>1, <1>2
<1>4. Rec(UpTo(s, B), Len(s))
    BY <1>3 DEF UpTo
<1> DEFINE u == UpTo(s, B)
<1>5. u = [n \in 0..Len(s) |-> IF n = 0 THEN << >>
                               ELSE IF s[n] \in B THEN Append(u[n - 1], s[n]) ELSE u[n - 1]]
    BY <1>4
<1> HIDE DEF u
<1>6. u[0] = << >>
    BY <1>5, <1>2
<1>7. \A n \in 1..Len(s) : u[n] = IF s[n] \in B THEN Append(u[n - 1], s[n]) ELSE u[n - 1]
  <2> TAKE n \in 1..Len(s)
  <2>1. n \in 0..Len(s) /\ n # 0
      BY <1>2
  <2> QED BY <2>1, <1>5
<1> QED BY <1>6, <1>7 DEF u
\* What Append does, as the proofs below need it.
LEMMA Appended ==
    ASSUME NEW T, NEW s \in Seq(T), NEW e \in T
    PROVE  /\ Append(s, e) \in Seq(T)
           /\ Len(Append(s, e)) = Len(s) + 1
           /\ \A i \in 1..Len(s) : Append(s, e)[i] = s[i]
           /\ Append(s, e)[Len(s) + 1] = e
           /\ Append(s, e) # << >>
           /\ Last(Append(s, e)) = e
           /\ ToSet(Append(s, e)) = ToSet(s) \cup {e}
           /\ Injective(Append(s, e)) <=> Injective(s) /\ e \notin ToSet(s)
<1> DEFINE t == Append(s, e)
<1>1. /\ t \in Seq(T) /\ Len(t) = Len(s) + 1 /\ Len(s) \in Nat
      /\ \A i \in 1..Len(s) : t[i] = s[i]
      /\ t[Len(s) + 1] = e
      /\ DOMAIN t = 1..(Len(s) + 1) /\ DOMAIN s = 1..Len(s)
    OBVIOUS
<1> HIDE DEF t
<1>2. t # << >>
    BY <1>1
<1>3. Last(t) = e
    BY <1>1 DEF Last
<1>4. ToSet(t) = ToSet(s) \cup {e}
  <2>1. ASSUME NEW x \in ToSet(t) PROVE x \in ToSet(s) \cup {e}
    <3>1. PICK i \in 1..(Len(s) + 1) : x = t[i]
        BY <1>1, <2>1 DEF ToSet
    <3>2. i \in 1..Len(s) \/ i = Len(s) + 1
        BY <1>1
    <3> QED BY <3>1, <3>2, <1>1 DEF ToSet
  <2>2. ASSUME NEW x \in ToSet(s) PROVE x \in ToSet(t)
    <3>1. PICK i \in 1..Len(s) : x = s[i]
        BY <1>1, <2>2 DEF ToSet
    <3>2. i \in 1..(Len(s) + 1) /\ t[i] = x
        BY <3>1, <1>1
    <3> QED BY <3>2, <1>1 DEF ToSet
  <2>3. e \in ToSet(t)
    <3>1. Len(s) + 1 \in 1..(Len(s) + 1)
        BY <1>1
    <3> QED BY <3>1, <1>1 DEF ToSet
  <2> QED BY <2>1, <2>2, <2>3
<1>5. ASSUME Injective(s), e \notin ToSet(s) PROVE Injective(t)
  <2>1. \A i \in 1..Len(s) : s[i] # e
      BY <1>1, <1>5 DEF ToSet
  <2>2. ASSUME NEW i \in 1..(Len(s) + 1), NEW j \in 1..(Len(s) + 1), t[i] = t[j]
        PROVE  i = j
      BY <1>1, <1>5, <2>1, <2>2 DEF Injective
  <2> QED BY <1>1, <2>2 DEF Injective
<1>6. ASSUME Injective(t) PROVE Injective(s) /\ e \notin ToSet(s)
  <2>1. \A i \in 1..Len(s) : i \in 1..(Len(s) + 1) /\ i # Len(s) + 1
      BY <1>1
  <2>2. Len(s) + 1 \in 1..(Len(s) + 1)
      BY <1>1
  <2> QED BY <2>1, <2>2, <1>1, <1>6 DEF Injective, ToSet
<1> QED BY <1>1, <1>2, <1>3, <1>4, <1>5, <1>6 DEF t

\* What each prefix of Only holds.
LEMMA UpToFacts ==
    ASSUME NEW s \in Seq(Block), NEW B \in SUBSET Block
    PROVE  \A n \in 0..Len(s) :
             /\ UpTo(s, B)[n] \in Seq(Block)
             /\ ToSet(UpTo(s, B)[n]) = {s[i] : i \in 1..n} \cap B
             /\ Injective(s) => Injective(UpTo(s, B)[n])
             /\ (\A i \in 1..n : s[i] \in B) =>
                  /\ Len(UpTo(s, B)[n]) = n
                  /\ \A i \in 1..n : UpTo(s, B)[n][i] = s[i]
<1> DEFINE u == UpTo(s, B)
           Prefix(k) == {s[i] : i \in 1..k}
           P(k) == /\ u[k] \in Seq(Block)
                   /\ ToSet(u[k]) = Prefix(k) \cap B
                   /\ Injective(s) => Injective(u[k])
                   /\ (\A i \in 1..k : s[i] \in B) =>
                        Len(u[k]) = k /\ \A i \in 1..k : u[k][i] = s[i]
           Bad == {k \in 0..Len(s) : ~P(k)}
<1>1. /\ u[0] = << >>
      /\ \A k \in 1..Len(s) : u[k] = IF s[k] \in B THEN Append(u[k - 1], s[k]) ELSE u[k - 1]
    BY UpToRecursion
<1>2. Len(s) \in Nat /\ DOMAIN s = 1..Len(s) /\ \A k \in 1..Len(s) : s[k] \in Block
    OBVIOUS
<1> HIDE DEF u
<1>3. P(0)
  <2>1. u[0] \in Seq(Block) /\ Len(u[0]) = 0
      BY <1>1
  <2>2. ToSet(u[0]) = {} /\ Prefix(0) = {}
      BY <1>1 DEF ToSet
  <2>3. Injective(u[0])
      BY <1>1 DEF Injective
  <2> HIDE DEF Prefix
  <2> QED BY <2>1, <2>2, <2>3
<1>4. ASSUME NEW k \in 1..Len(s), P(k - 1) PROVE P(k)
  <2>1. /\ u[k - 1] \in Seq(Block) /\ ToSet(u[k - 1]) = Prefix(k - 1) \cap B
        /\ Injective(s) => Injective(u[k - 1])
        /\ (\A i \in 1..(k - 1) : s[i] \in B) =>
             Len(u[k - 1]) = k - 1 /\ \A i \in 1..(k - 1) : u[k - 1][i] = s[i]
      BY <1>4
  <2>2. Prefix(k) = Prefix(k - 1) \cup {s[k]}
    <3>1. ASSUME NEW i \in 1..k PROVE i = k \/ i \in 1..(k - 1)
        BY <1>2
    <3>2. k \in 1..k /\ \A i \in 1..(k - 1) : i \in 1..k
        BY <1>2
    <3> QED BY <3>1, <3>2
  <2>3. Injective(s) => s[k] \notin Prefix(k - 1)
      BY <1>2 DEF Injective
  <2>4. CASE s[k] \in B
    <3>1. u[k] = Append(u[k - 1], s[k]) /\ s[k] \in Block
        BY <1>1, <1>2, <2>4
    <3>2. /\ u[k] \in Seq(Block)
          /\ ToSet(u[k]) = ToSet(u[k - 1]) \cup {s[k]}
          /\ Injective(u[k - 1]) /\ s[k] \notin ToSet(u[k - 1]) => Injective(u[k])
          /\ Len(u[k]) = Len(u[k - 1]) + 1 /\ u[k][Len(u[k - 1]) + 1] = s[k]
          /\ \A i \in 1..Len(u[k - 1]) : u[k][i] = u[k - 1][i]
      <4> DEFINE a == u[k - 1]
                 e == s[k]
      <4>1. a \in Seq(Block) /\ e \in Block /\ u[k] = Append(a, e)
          BY <3>1, <2>1
      <4> HIDE DEF a, e
      <4>2. /\ Append(a, e) \in Seq(Block)
            /\ Len(Append(a, e)) = Len(a) + 1
            /\ \A i \in 1..Len(a) : Append(a, e)[i] = a[i]
            /\ Append(a, e)[Len(a) + 1] = e
            /\ ToSet(Append(a, e)) = ToSet(a) \cup {e}
            /\ Injective(a) /\ e \notin ToSet(a) => Injective(Append(a, e))
          BY <4>1, Appended
      <4> QED BY <4>1, <4>2 DEF a, e
    <3> HIDE DEF Prefix
    <3>3. ToSet(u[k]) = Prefix(k) \cap B
        BY <3>2, <2>1, <2>2, <2>4
    <3>4. Injective(s) => Injective(u[k])
        BY <3>2, <2>1, <2>3
    <3>5. ASSUME \A i \in 1..k : s[i] \in B
          PROVE  Len(u[k]) = k /\ \A i \in 1..k : u[k][i] = s[i]
      <4>1. Len(u[k - 1]) = k - 1 /\ \A i \in 1..(k - 1) : u[k - 1][i] = s[i]
          BY <2>1, <3>5, <1>2
      <4>2. Len(u[k]) = k /\ u[k][k] = s[k]
          BY <4>1, <3>2, <1>2
      <4>3. \A i \in 1..(k - 1) : u[k][i] = s[i]
          BY <4>1, <3>2
      <4> QED BY <4>2, <4>3, <1>2
    <3> QED BY <3>2, <3>3, <3>4, <3>5
  <2>5. CASE s[k] \notin B
    <3>1. u[k] = u[k - 1]
        BY <1>1, <2>5
    <3>2. ~ \A i \in 1..k : s[i] \in B
        BY <2>5, <1>2
    <3> HIDE DEF Prefix
    <3>3. ToSet(u[k]) = Prefix(k) \cap B
        BY <3>1, <2>1, <2>2, <2>5
    <3> QED BY <3>1, <3>2, <3>3, <2>1
  <2> QED BY <2>4, <2>5
<1>5. Bad = {}
  <2>1. SUFFICES ASSUME Bad # {} PROVE FALSE
      OBVIOUS
  <2>2. PICK k \in Bad : \A j \in Bad : k <= j
    <3>1. Bad \in SUBSET Nat
      <4> HIDE DEF P
      <4> QED BY <1>2
    <3> HIDE DEF Bad
    <3> QED BY <2>1, <3>1, LeastIn
  <2>3. k \in 0..Len(s) /\ ~P(k)
    <3> HIDE DEF P
    <3> QED OBVIOUS
  <2> HIDE DEF P
  <2>4. k # 0
      BY <1>3, <2>3
  <2>5. k - 1 \in 0..Len(s) /\ k - 1 \notin Bad /\ k \in 1..Len(s)
    <3> HIDE DEF Bad
    <3> QED BY <2>2, <2>3, <2>4, <1>2
  <2>6. P(k - 1)
      BY <2>5
  <2> QED BY <1>4, <2>3, <2>5, <2>6
<1>6. \A n \in 0..Len(s) : P(n)
  <2> HIDE DEF P
  <2> QED BY <1>5
<1> QED BY <1>6 DEF u

\* Only keeps exactly the elements in the set, none twice, and in their order:
\* if the last one stays it stays last, and if all stay nothing changes.
LEMMA OnlyFacts ==
    ASSUME NEW s \in Seq(Block), NEW B \in SUBSET Block
    PROVE  /\ Only[s][B] \in Seq(Block)
           /\ ToSet(Only[s][B]) = ToSet(s) \cap B
           /\ Injective(s) => Injective(Only[s][B])
           /\ ToSet(s) \subseteq B => Only[s][B] = s
           /\ s # << >> /\ Last(s) \in B =>
                Only[s][B] # << >> /\ Last(Only[s][B]) = Last(s)
<1>1. Only[s][B] = UpTo(s, B)[Len(s)]
    BY DEF Only, UpTo
<1> DEFINE u == UpTo(s, B)
           n == Len(s)
<1>2. n \in Nat /\ n \in 0..n /\ n - 1 \in Int /\ DOMAIN s = 1..n /\ s \in [1..n -> Block]
    OBVIOUS
<1>3. /\ u[n] \in Seq(Block)
      /\ ToSet(u[n]) = {s[i] : i \in 1..n} \cap B
      /\ Injective(s) => Injective(u[n])
      /\ (\A i \in 1..n : s[i] \in B) => Len(u[n]) = n /\ \A i \in 1..n : u[n][i] = s[i]
    BY <1>2, UpToFacts
<1>4. ASSUME s # << >>, Last(s) \in B PROVE u[n] # << >> /\ Last(u[n]) = Last(s)
  <2>1. n \in 1..n /\ n - 1 \in 0..n
      BY <1>4, <1>2
  <2>2. u[n] = Append(u[n - 1], s[n]) /\ s[n] \in Block
      BY <2>1, <1>4, UpToRecursion DEF Last
  <2>3. u[n - 1] \in Seq(Block)
      BY <2>1, UpToFacts
  <2> QED BY <2>2, <2>3, Appended, SMTT(30) DEF Last
<1>5. ASSUME ToSet(s) \subseteq B PROVE u[n] = s
  <2>1. \A i \in 1..n : s[i] \in B
      BY <1>5, <1>2 DEF ToSet
  <2>2. Len(u[n]) = n /\ \A i \in 1..n : u[n][i] = s[i]
      BY <2>1, <1>3
  <2> HIDE DEF u
  <2> QED BY <2>2, <1>2, <1>3
<1>6. {s[i] : i \in 1..n} = ToSet(s)
    BY <1>2 DEF ToSet
<1> HIDE DEF u, n
<1>7. Only[s][B] = u[n]
    BY <1>1 DEF u, n
<1> QED BY <1>3, <1>4, <1>5, <1>6, <1>7
\* Two lists in a row hold the elements of both, and none twice exactly if
\* neither does and they share none.
LEMMA Joined ==
    ASSUME NEW T, NEW s \in Seq(T), NEW t \in Seq(T)
    PROVE  /\ s \o t \in Seq(T)
           /\ ToSet(s \o t) = ToSet(s) \cup ToSet(t)
           /\ Injective(s \o t) <=>
                Injective(s) /\ Injective(t) /\ ToSet(s) \cap ToSet(t) = {}
<1> DEFINE u == s \o t
<1>1. /\ u \in Seq(T) /\ Len(u) = Len(s) + Len(t) /\ Len(s) \in Nat /\ Len(t) \in Nat
      /\ DOMAIN s = 1..Len(s) /\ DOMAIN t = 1..Len(t) /\ DOMAIN u = 1..(Len(s) + Len(t))
      /\ \A i \in 1..Len(s) : u[i] = s[i]
      /\ \A i \in 1..Len(t) : u[Len(s) + i] = t[i]
    OBVIOUS
<1> HIDE DEF u
<1>2. \A k \in 1..(Len(s) + Len(t)) :
         \/ k \in 1..Len(s)
         \/ k - Len(s) \in 1..Len(t) /\ k = Len(s) + (k - Len(s))
    BY <1>1
<1>3. /\ \A i \in 1..Len(s) : i \in 1..(Len(s) + Len(t))
      /\ \A i \in 1..Len(t) : Len(s) + i \in 1..(Len(s) + Len(t))
    BY <1>1
<1>4. ToSet(u) = ToSet(s) \cup ToSet(t)
  <2>1. ASSUME NEW x \in ToSet(u) PROVE x \in ToSet(s) \cup ToSet(t)
    <3>1. PICK k \in 1..(Len(s) + Len(t)) : x = u[k]
        BY <2>1, <1>1 DEF ToSet
    <3>2. CASE k \in 1..Len(s)
        BY <3>1, <3>2, <1>1 DEF ToSet
    <3>3. CASE k - Len(s) \in 1..Len(t) /\ k = Len(s) + (k - Len(s))
      <4>1. x = t[k - Len(s)]
          BY <3>1, <3>3, <1>1
      <4> QED BY <4>1, <3>3, <1>1 DEF ToSet
    <3> QED BY <3>2, <3>3, <1>2
  <2>2. ASSUME NEW x \in ToSet(s) \cup ToSet(t) PROVE x \in ToSet(u)
      BY <2>2, <1>1, <1>3 DEF ToSet
  <2> QED BY <2>1, <2>2
<1>5. ASSUME Injective(u) PROVE Injective(s) /\ Injective(t) /\ ToSet(s) \cap ToSet(t) = {}
  <2>1. \A i, j \in 1..Len(s) : s[i] = s[j] => i = j
      BY <1>1, <1>3, <1>5 DEF Injective
  <2>2. \A i, j \in 1..Len(t) : t[i] = t[j] => i = j
    <3> TAKE i, j \in 1..Len(t)
    <3>1. t[i] = t[j] => Len(s) + i = Len(s) + j
        BY <1>1, <1>3, <1>5 DEF Injective
    <3> QED BY <3>1, <1>1
  <2>3. \A i \in 1..Len(s), j \in 1..Len(t) : s[i] # t[j]
    <3> TAKE i \in 1..Len(s), j \in 1..Len(t)
    <3>1. s[i] = t[j] => i = Len(s) + j
        BY <1>1, <1>3, <1>5 DEF Injective
    <3> QED BY <3>1, <1>1
  <2> QED BY <2>1, <2>2, <2>3, <1>1 DEF Injective, ToSet
<1>6. ASSUME Injective(s), Injective(t), ToSet(s) \cap ToSet(t) = {} PROVE Injective(u)
  <2>1. \A i \in 1..Len(s), j \in 1..Len(t) : s[i] # t[j]
      BY <1>1, <1>6 DEF ToSet
  <2>2. ASSUME NEW i \in 1..(Len(s) + Len(t)), NEW j \in 1..(Len(s) + Len(t)), u[i] = u[j]
        PROVE  i = j
    <3>1. CASE i \in 1..Len(s) /\ j \in 1..Len(s)
        BY <3>1, <2>2, <1>1, <1>6 DEF Injective
    <3>2. CASE i \in 1..Len(s) /\ j - Len(s) \in 1..Len(t) /\ j = Len(s) + (j - Len(s))
      <4>1. u[i] = s[i] /\ u[j] = t[j - Len(s)]
          BY <3>2, <1>1
      <4> QED BY <4>1, <3>2, <2>1, <2>2
    <3>3. CASE j \in 1..Len(s) /\ i - Len(s) \in 1..Len(t) /\ i = Len(s) + (i - Len(s))
      <4>1. u[j] = s[j] /\ u[i] = t[i - Len(s)]
          BY <3>3, <1>1
      <4> QED BY <4>1, <3>3, <2>1, <2>2
    <3>4. CASE /\ i - Len(s) \in 1..Len(t) /\ i = Len(s) + (i - Len(s))
               /\ j - Len(s) \in 1..Len(t) /\ j = Len(s) + (j - Len(s))
      <4>1. t[i - Len(s)] = t[j - Len(s)]
          BY <3>4, <2>2, <1>1
      <4>2. i - Len(s) = j - Len(s)
          BY <4>1, <3>4, <1>1, <1>6 DEF Injective
      <4> QED BY <4>2, <1>1
    <3> QED BY <3>1, <3>2, <3>3, <3>4, <1>2
  <2> QED BY <2>2, <1>1 DEF Injective
<1> QED BY <1>1, <1>4, <1>5, <1>6 DEF u

\* A list in reverse has the same elements.
LEMMA Reversed ==
    ASSUME NEW T, NEW s \in Seq(T)
    PROVE  /\ Reverse(s) \in Seq(T)
           /\ ToSet(Reverse(s)) = ToSet(s)
           /\ Injective(s) => Injective(Reverse(s))
<1> DEFINE n == Len(s)
           u == Reverse(s)
<1>1. n \in Nat /\ DOMAIN s = 1..n /\ \A i \in 1..n : s[i] \in T
    OBVIOUS
<1>2. u = [i \in 1..n |-> s[(n - i) + 1]]
    BY DEF Reverse
<1>3. \A i \in 1..n : (n - i) + 1 \in 1..n /\ (n - ((n - i) + 1)) + 1 = i
    BY <1>1
<1>4. u \in [1..n -> T] /\ DOMAIN u = 1..n /\ \A i \in 1..n : u[i] = s[(n - i) + 1]
    BY <1>1, <1>2, <1>3
<1> HIDE DEF u, n
<1>5. u \in Seq(T)
    BY <1>1, <1>4
<1>6. ToSet(u) = ToSet(s)
  <2>1. ASSUME NEW x \in ToSet(u) PROVE x \in ToSet(s)
      BY <2>1, <1>1, <1>3, <1>4 DEF ToSet
  <2>2. ASSUME NEW x \in ToSet(s) PROVE x \in ToSet(u)
    <3>1. PICK i \in 1..n : x = s[i]
        BY <2>2, <1>1 DEF ToSet
    <3>2. u[(n - i) + 1] = x /\ (n - i) + 1 \in 1..n
        BY <3>1, <1>3, <1>4
    <3> QED BY <3>2, <1>4 DEF ToSet
  <2> QED BY <2>1, <2>2
<1>7. ASSUME Injective(s) PROVE Injective(u)
  <2>1. ASSUME NEW i \in 1..n, NEW j \in 1..n, u[i] = u[j] PROVE i = j
    <3>1. (n - i) + 1 = (n - j) + 1
        BY <2>1, <1>1, <1>3, <1>4, <1>7 DEF Injective
    <3> QED BY <3>1, <1>1
  <2> QED BY <2>1, <1>4 DEF Injective
<1> QED BY <1>5, <1>6, <1>7 DEF u

\* A list is its front and its last element.
LEMMA Fronted ==
    ASSUME NEW T, NEW s \in Seq(T), s # << >>
    PROVE  /\ Front(s) \in Seq(T) /\ Len(Front(s)) = Len(s) - 1
           /\ Last(s) \in T /\ Len(s) \in Nat \ {0}
           /\ \A i \in 1..(Len(s) - 1) : Front(s)[i] = s[i]
           /\ ToSet(s) = ToSet(Front(s)) \cup {Last(s)}
           /\ Injective(s) => Injective(Front(s)) /\ Last(s) \notin ToSet(Front(s))
<1> DEFINE n == Len(s)
           f == Front(s)
<1>1. n \in Nat \ {0} /\ DOMAIN s = 1..n /\ s[n] \in T /\ \A i \in 1..n : s[i] \in T
    OBVIOUS
<1>2. f = SubSeq(s, 1, n - 1)
    BY DEF Front
<1>3. f \in Seq(T) /\ Len(f) = n - 1 /\ \A i \in 1..(n - 1) : f[i] = s[i]
    BY <1>1, <1>2
<1> HIDE DEF f, n
<1>4. DOMAIN f = 1..(n - 1)
    BY <1>3
<1>5. \A i \in 1..n : i = n \/ i \in 1..(n - 1)
    BY <1>1
<1>6. n \in 1..n /\ \A i \in 1..(n - 1) : i \in 1..n /\ i # n
    BY <1>1
<1>7. ToSet(s) = ToSet(f) \cup {s[n]}
  <2>1. ASSUME NEW x \in ToSet(s) PROVE x \in ToSet(f) \cup {s[n]}
      BY <2>1, <1>1, <1>3, <1>4, <1>5 DEF ToSet
  <2>2. ASSUME NEW x \in ToSet(f) \cup {s[n]} PROVE x \in ToSet(s)
      BY <2>2, <1>1, <1>3, <1>4, <1>6 DEF ToSet
  <2> QED BY <2>1, <2>2
<1>8. ASSUME Injective(s) PROVE Injective(f) /\ s[n] \notin ToSet(f)
    BY <1>8, <1>1, <1>3, <1>4, <1>6 DEF Injective, ToSet
<1>9. Last(s) = s[n]
    BY DEF Last, n
<1> QED BY <1>1, <1>3, <1>7, <1>8, <1>9 DEF f, n

-----------------------------------------------------------------------------
(***************************************************************************)
(* The block pool: what touch, get_new_blocks and free_blocks do to the    *)
(* counts of a pool in order.                                              *)
(***************************************************************************)
\* The first blocks of the free queue of a pool in order are free.
LEMMA TakenFacts ==
    ASSUME NEW p, GoodPool(p), NEW n \in {1, 2}, Fits(p, n)
    PROVE  /\ ToSet(SubSeq(p.free, 1, n)) = IF n = 1 THEN {p.free[1]} ELSE {p.free[1], p.free[2]}
           /\ Len(p.free) \in Nat /\ n <= Len(p.free)
           /\ \A i \in 1..n : /\ SubSeq(p.free, 1, n)[i] = p.free[i]
                              /\ p.free[i] \in Block /\ p.ref[p.free[i]] = 0
           /\ n = 2 => p.free[1] # p.free[2]
           /\ Head(p.free) = p.free[1]
<1> DEFINE f == p.free
           t == SubSeq(f, 1, n)
<1>1. f \in Seq(Block) /\ Injective(f) /\ ToSet(f) = {b \in Block : p.ref[b] = 0}
    BY DEF GoodPool, PoolType
<1>2. n \in Nat /\ n >= 1 /\ Len(f) \in Nat /\ n <= Len(f)
    BY <1>1 DEF Fits
<1> HIDE DEF f
<1>3. DOMAIN f = 1..Len(f) /\ \A i \in 1..n : i \in DOMAIN f /\ f[i] \in Block
    BY <1>1, <1>2
<1>4. /\ t \in Seq(Block) /\ Len(t) = n
      /\ \A i \in 1..n : t[i] = f[i]
    BY <1>1, <1>2, <1>3
<1> HIDE DEF t
<1>5. DOMAIN t = 1..n
    BY <1>4, <1>2
<1>6. ToSet(t) = IF n = 1 THEN {f[1]} ELSE {f[1], f[2]}
  <2>1. \A x : x \in ToSet(t) <=> \E i \in 1..n : x = t[i]
      BY <1>5 DEF ToSet
  <2>2. \A x : x \in ToSet(t) <=> \E i \in 1..n : x = f[i]
      BY <2>1, <1>4
  <2>3. CASE n = 1
    <3>1. \A i : i \in 1..n <=> i = 1
        BY <2>3
    <3>2. \A x : x \in ToSet(t) <=> x = f[1]
        BY <2>2, <3>1
    <3> QED BY <2>3, <3>2
  <2>4. CASE n # 1
    <3>1. \A i : i \in 1..n <=> i = 1 \/ i = 2
        BY <2>4
    <3>2. \A x : x \in ToSet(t) <=> x = f[1] \/ x = f[2]
        BY <2>2, <3>1
    <3> QED BY <2>4, <3>2
  <2> QED BY <2>3, <2>4
<1>7. \A i \in 1..n : p.ref[f[i]] = 0
    BY <1>1, <1>3 DEF ToSet
<1>8. n = 2 => f[1] # f[2]
    BY <1>1, <1>3 DEF Injective
<1>9. Head(f) = f[1]
    BY <1>1, <1>2
<1> QED BY <1>2, <1>3, <1>4, <1>6, <1>7, <1>8, <1>9 DEF f, t

\* touch: the blocks leave the free queue and count one more.
LEMMA TouchGood ==
    ASSUME NEW p, GoodPool(p), NEW bs \in SUBSET Block
    PROVE  /\ GoodPool(Touch(p, bs))
           /\ \A b \in Block : Touch(p, bs).ref[b] = p.ref[b] + One(b, bs)
           /\ (\A b \in bs : p.ref[b] > 0) => Touch(p, bs).free = p.free
<1> DEFINE q == Touch(p, bs)
<1>1. /\ p.free \in Seq(Block) /\ p.ref \in [Block -> Nat]
      /\ Injective(p.free) /\ ToSet(p.free) = {b \in Block : p.ref[b] = 0}
    BY DEF GoodPool, PoolType
<1>2. q.free = Only[p.free][Block \ bs] /\ q.ref = [b \in Block |-> p.ref[b] + One(b, bs)]
      /\ q = [free |-> q.free, ref |-> q.ref]
    BY DEF Touch, One
<1> HIDE DEF q
<1>3. q.ref \in [Block -> Nat] /\ \A b \in Block : q.ref[b] = p.ref[b] + One(b, bs)
    BY <1>1, <1>2 DEF One
<1>4. /\ q.free \in Seq(Block) /\ ToSet(q.free) = ToSet(p.free) \cap (Block \ bs)
      /\ Injective(q.free)
      /\ ToSet(p.free) \subseteq Block \ bs => q.free = p.free
    BY <1>1, <1>2, OnlyFacts
<1>5. \A b \in Block : q.ref[b] = 0 <=> p.ref[b] = 0 /\ b \notin bs
    BY <1>1, <1>3 DEF One
<1>6. ToSet(q.free) = {b \in Block : q.ref[b] = 0}
    BY <1>1, <1>4, <1>5
<1>7. GoodPool(q)
    BY <1>2, <1>3, <1>4, <1>6 DEF GoodPool, PoolType
<1>8. (\A b \in bs : p.ref[b] > 0) => ToSet(p.free) \subseteq Block \ bs
    BY <1>1
<1> QED BY <1>3, <1>4, <1>7, <1>8 DEF q

\* free_blocks of blocks that have owners: they count one less, and those that
\* nobody owns any more go to the end of the queue.
LEMMA FreedGood ==
    ASSUME NEW p, GoodPool(p), NEW bs \in Seq(Block), Injective(bs),
           \A b \in ToSet(bs) : p.ref[b] > 0
    PROVE  /\ GoodPool(Freed(p, bs))
           /\ \A b \in Block : Freed(p, bs).ref[b] = p.ref[b] - One(b, ToSet(bs))
<1> DEFINE q == Freed(p, bs)
           B == {b \in Block : p.ref[b] = 1}
           o == Only[bs][B]
<1>1. /\ p.free \in Seq(Block) /\ p.ref \in [Block -> Nat]
      /\ Injective(p.free) /\ ToSet(p.free) = {b \in Block : p.ref[b] = 0}
    BY DEF GoodPool, PoolType
<1>2. q.free = p.free \o o /\ q.ref = [b \in Block |-> p.ref[b] - One(b, ToSet(bs))]
      /\ q = [free |-> q.free, ref |-> q.ref]
    BY DEF Freed, One
<1>3. B \in SUBSET Block
    OBVIOUS
<1>4. o \in Seq(Block) /\ ToSet(o) = ToSet(bs) \cap B /\ Injective(o)
    BY <1>3, OnlyFacts
<1> HIDE DEF q, o
<1>5. \A b \in Block : q.ref[b] = p.ref[b] - One(b, ToSet(bs))
    BY <1>2
<1>6. \A b \in Block : q.ref[b] \in Nat /\ (q.ref[b] = 0 <=> p.ref[b] = 0 \/ b \in ToSet(bs) \cap B)
  <2> TAKE b \in Block
  <2>1. p.ref[b] \in Nat /\ q.ref[b] = p.ref[b] - One(b, ToSet(bs))
      BY <1>1, <1>5
  <2>2. CASE b \in ToSet(bs)
    <3>1. p.ref[b] > 0 /\ One(b, ToSet(bs)) = 1
        BY <2>2 DEF One
    <3> QED BY <2>1, <2>2, <3>1
  <2>3. CASE b \notin ToSet(bs)
    <3>1. One(b, ToSet(bs)) = 0
        BY <2>3 DEF One
    <3> QED BY <2>1, <2>3, <3>1
  <2> QED BY <2>2, <2>3
<1>7. q.ref \in [Block -> Nat]
    BY <1>2, <1>6
<1>8. ToSet(p.free) \cap ToSet(o) = {}
    BY <1>1, <1>4
<1>9. q.free \in Seq(Block) /\ Injective(q.free) /\ ToSet(q.free) = ToSet(p.free) \cup ToSet(o)
    BY <1>1, <1>2, <1>4, <1>8, Joined
<1>10. ToSet(q.free) = {b \in Block : q.ref[b] = 0}
    BY <1>1, <1>4, <1>6, <1>9
<1>11. GoodPool(q)
    BY <1>2, <1>7, <1>9, <1>10 DEF GoodPool, PoolType
<1> QED BY <1>5, <1>11 DEF q

-----------------------------------------------------------------------------
(***************************************************************************)
(* The same, by owner.                                                     *)
(***************************************************************************)
\* What an owner gives back it no longer has.
LEMMA CountedFreed ==
    ASSUME NEW p, NEW P, NEW C, NEW W, NEW T, Counted(p, P, C, W, T),
           NEW s \in Seq(Block), Injective(s)
    PROVE  /\ ToSet(s) \subseteq P => Counted(Freed(p, s), P \ ToSet(s), C, W, T)
           /\ ToSet(s) \subseteq C => Counted(Freed(p, s), P, C \ ToSet(s), W, T)
           /\ ToSet(s) \subseteq W => Counted(Freed(p, s), P, C, W \ ToSet(s), T)
           /\ ToSet(s) \subseteq T => Counted(Freed(p, s), P, C, W, T \ ToSet(s))
<1> DEFINE S == ToSet(s)
           q == Freed(p, s)
<1>1. GoodPool(p) /\ \A b \in Block : p.ref[b] = One(b, P) + One(b, C) + One(b, W) + One(b, T)
    BY DEF Counted
<1>2. S \subseteq Block
    BY DEF ToSet
<1>3. \A b : One(b, P) \in {0, 1} /\ One(b, C) \in {0, 1} /\ One(b, W) \in {0, 1}
              /\ One(b, T) \in {0, 1}
    BY DEF One
<1>4. ASSUME S \subseteq P \/ S \subseteq C \/ S \subseteq W \/ S \subseteq T
      PROVE  GoodPool(q) /\ \A b \in Block : q.ref[b] = p.ref[b] - One(b, S)
  <2>1. \A b \in S : One(b, P) = 1 \/ One(b, C) = 1 \/ One(b, W) = 1 \/ One(b, T) = 1
      BY <1>4 DEF One
  <2>2. \A b \in S : p.ref[b] > 0
      BY <1>1, <1>2, <1>3, <2>1
  <2> QED BY <1>1, <2>2, FreedGood
<1> HIDE DEF S, q
<1>5. \A X : S \subseteq X => \A b : One(b, X \ S) = One(b, X) - One(b, S)
    BY DEF One
<1>6. S \subseteq P => Counted(q, P \ S, C, W, T)
  <2>1. ASSUME S \subseteq P, NEW b \in Block
        PROVE  q.ref[b] = One(b, P \ S) + One(b, C) + One(b, W) + One(b, T)
    <3>1. One(b, P \ S) = One(b, P) - One(b, S) /\ One(b, S) \in {0, 1}
        BY <1>5, <2>1 DEF One
    <3>2. q.ref[b] = p.ref[b] - One(b, S)
        BY <1>4, <2>1
    <3> QED BY <1>1, <1>3, <3>1, <3>2
  <2> QED BY <2>1, <1>4 DEF Counted
<1>7. S \subseteq C => Counted(q, P, C \ S, W, T)
  <2>1. ASSUME S \subseteq C, NEW b \in Block
        PROVE  q.ref[b] = One(b, P) + One(b, C \ S) + One(b, W) + One(b, T)
    <3>1. One(b, C \ S) = One(b, C) - One(b, S) /\ One(b, S) \in {0, 1}
        BY <1>5, <2>1 DEF One
    <3>2. q.ref[b] = p.ref[b] - One(b, S)
        BY <1>4, <2>1
    <3> QED BY <1>1, <1>3, <3>1, <3>2
  <2> QED BY <2>1, <1>4 DEF Counted
<1>8. S \subseteq W => Counted(q, P, C, W \ S, T)
  <2>1. ASSUME S \subseteq W, NEW b \in Block
        PROVE  q.ref[b] = One(b, P) + One(b, C) + One(b, W \ S) + One(b, T)
    <3>1. One(b, W \ S) = One(b, W) - One(b, S) /\ One(b, S) \in {0, 1}
        BY <1>5, <2>1 DEF One
    <3>2. q.ref[b] = p.ref[b] - One(b, S)
        BY <1>4, <2>1
    <3> QED BY <1>1, <1>3, <3>1, <3>2
  <2> QED BY <2>1, <1>4 DEF Counted
<1>9. S \subseteq T => Counted(q, P, C, W, T \ S)
  <2>1. ASSUME S \subseteq T, NEW b \in Block
        PROVE  q.ref[b] = One(b, P) + One(b, C) + One(b, W) + One(b, T \ S)
    <3>1. One(b, T \ S) = One(b, T) - One(b, S) /\ One(b, S) \in {0, 1}
        BY <1>5, <2>1 DEF One
    <3>2. q.ref[b] = p.ref[b] - One(b, S)
        BY <1>4, <2>1
    <3> QED BY <1>1, <1>3, <3>1, <3>2
  <2> QED BY <2>1, <1>4 DEF Counted
<1> QED BY <1>6, <1>7, <1>8, <1>9 DEF S, q

\* What is touched for an owner that did not have it, it has.
LEMMA CountedTouch ==
    ASSUME NEW p, NEW P, NEW C, NEW W, NEW T, Counted(p, P, C, W, T),
           NEW bs \in SUBSET Block
    PROVE  /\ bs \cap C = {} => Counted(Touch(p, bs), P, C \cup bs, W, T)
           /\ bs \cap W = {} => Counted(Touch(p, bs), P, C, W \cup bs, T)
           /\ bs \cap T = {} => Counted(Touch(p, bs), P, C, W, T \cup bs)
<1> DEFINE q == Touch(p, bs)
<1>1. GoodPool(p) /\ \A b \in Block : p.ref[b] = One(b, P) + One(b, C) + One(b, W) + One(b, T)
    BY DEF Counted
<1>2. \A b : One(b, P) \in {0, 1} /\ One(b, C) \in {0, 1} /\ One(b, W) \in {0, 1}
              /\ One(b, T) \in {0, 1}
    BY DEF One
<1>3. GoodPool(q) /\ \A b \in Block : q.ref[b] = p.ref[b] + One(b, bs)
    BY <1>1, TouchGood
<1> HIDE DEF q
<1>4. \A X : bs \cap X = {} => \A b : One(b, X \cup bs) = One(b, X) + One(b, bs)
    BY DEF One
<1>5. bs \cap C = {} => Counted(q, P, C \cup bs, W, T)
  <2>1. ASSUME bs \cap C = {}, NEW b \in Block
        PROVE  q.ref[b] = One(b, P) + One(b, C \cup bs) + One(b, W) + One(b, T)
    <3>1. One(b, C \cup bs) = One(b, C) + One(b, bs) /\ One(b, bs) \in {0, 1}
        BY <1>4, <2>1 DEF One
    <3>2. q.ref[b] = p.ref[b] + One(b, bs)
        BY <1>3
    <3> QED BY <1>1, <1>2, <3>1, <3>2
  <2> QED BY <2>1, <1>3 DEF Counted
<1>6. bs \cap W = {} => Counted(q, P, C, W \cup bs, T)
  <2>1. ASSUME bs \cap W = {}, NEW b \in Block
        PROVE  q.ref[b] = One(b, P) + One(b, C) + One(b, W \cup bs) + One(b, T)
    <3>1. One(b, W \cup bs) = One(b, W) + One(b, bs) /\ One(b, bs) \in {0, 1}
        BY <1>4, <2>1 DEF One
    <3>2. q.ref[b] = p.ref[b] + One(b, bs)
        BY <1>3
    <3> QED BY <1>1, <1>2, <3>1, <3>2
  <2> QED BY <2>1, <1>3 DEF Counted
<1>7. bs \cap T = {} => Counted(q, P, C, W, T \cup bs)
  <2>1. ASSUME bs \cap T = {}, NEW b \in Block
        PROVE  q.ref[b] = One(b, P) + One(b, C) + One(b, W) + One(b, T \cup bs)
    <3>1. One(b, T \cup bs) = One(b, T) + One(b, bs) /\ One(b, bs) \in {0, 1}
        BY <1>4, <2>1 DEF One
    <3>2. q.ref[b] = p.ref[b] + One(b, bs)
        BY <1>3
    <3> QED BY <1>1, <1>2, <3>1, <3>2
  <2> QED BY <2>1, <1>3 DEF Counted
<1> QED BY <1>5, <1>6, <1>7 DEF q

\* Blocks that count nothing in the pool p.
Unowned(p, bs) == bs \in SUBSET Block /\ \A b \in bs : p.ref[b] = 0

\* A block with an owner counts at least one.
LEMMA CountedOwned ==
    ASSUME NEW p, NEW P, NEW C, NEW W, NEW T, Counted(p, P, C, W, T),
           NEW b \in Block, b \in P \cup C \cup W \cup T
    PROVE  p.ref[b] > 0
<1>1. p.ref[b] = One(b, P) + One(b, C) + One(b, W) + One(b, T)
    BY DEF Counted
<1>2. One(b, P) \in {0, 1} /\ One(b, C) \in {0, 1} /\ One(b, W) \in {0, 1} /\ One(b, T) \in {0, 1}
    BY DEF One
<1>3. One(b, P) = 1 \/ One(b, C) = 1 \/ One(b, W) = 1 \/ One(b, T) = 1
    BY DEF One
<1> QED BY <1>1, <1>2, <1>3

\* Whoever touches blocks that count nothing has them, and nobody had them.
LEMMA CountedTaken ==
    ASSUME NEW p, NEW P, NEW C, NEW W, NEW T, Counted(p, P, C, W, T),
           NEW new, Unowned(p, new)
    PROVE  /\ \A b \in new : b \notin P \cup C \cup W \cup T
           /\ Counted(Touch(p, new), P, C, W \cup new, T)
           /\ Counted(Touch(p, new), P, C, W, T \cup new)
<1>1. \A b \in new : b \in Block /\ p.ref[b] = 0
    BY DEF Unowned
<1>2. ASSUME NEW b \in new PROVE b \notin P \cup C \cup W \cup T
  <2>1. b \in P \cup C \cup W \cup T => p.ref[b] > 0
      BY <1>1, CountedOwned
  <2> QED BY <1>1, <2>1
<1>3. new \cap W = {} /\ new \cap T = {}
    BY <1>2
<1>4. new \in SUBSET Block
    BY DEF Unowned
<1>5. /\ new \cap W = {} => Counted(Touch(p, new), P, C, W \cup new, T)
      /\ new \cap T = {} => Counted(Touch(p, new), P, C, W, T \cup new)
    BY <1>4, CountedTouch
<1> QED BY <1>2, <1>3, <1>5

\* Blocks that have an owner are touched without a change of the free queue.
LEMMA TouchKeepsFree ==
    ASSUME NEW p, NEW P, NEW C, NEW W, NEW T, Counted(p, P, C, W, T),
           NEW bs \in SUBSET Block, bs \subseteq P \cup C \cup W \cup T
    PROVE  Touch(p, bs).free = p.free
<1>1. GoodPool(p)
    BY DEF Counted
<1>2. \A b \in bs : p.ref[b] > 0
    BY CountedOwned
<1> QED BY <1>1, <1>2, TouchGood

\* The tables when only one request has any.
LEMMA TablesOfOne ==
    ASSUME NEW q, NEW r \in Turn, q[r].attn \in Seq(Block), q[r].state \in Seq(Block),
           \A t \in Turn \ {r} : q[t].attn = << >> /\ q[t].state = << >>
    PROVE  TablesOf(q) = ToSet(q[r].attn) \cup ToSet(q[r].state)
<1>1. ToSet(q[r].attn \o q[r].state) = ToSet(q[r].attn) \cup ToSet(q[r].state)
    BY Joined
<1>2. ToSet(<< >> \o << >>) = {}
    BY DEF ToSet
<1>3. \A t \in Turn \ {r} : ToSet(q[t].attn \o q[t].state) = {}
    BY <1>2
<1> DEFINE B(t) == ToSet(q[t].attn \o q[t].state)
<1>4. TablesOf(q) = UNION {B(t) : t \in Turn}
    BY DEF TablesOf
<1>5. B(r) = ToSet(q[r].attn) \cup ToSet(q[r].state) /\ \A t \in Turn \ {r} : B(t) = {}
    BY <1>1, <1>3
<1> HIDE DEF B
<1> QED BY <1>4, <1>5

\* The tables when none has any.
LEMMA TablesOfNone ==
    ASSUME NEW q, \A t \in Turn : q[t].attn = << >> /\ q[t].state = << >>
    PROVE  TablesOf(q) = {}
<1>1. ToSet(<< >> \o << >>) = {}
    BY DEF ToSet
<1> QED BY <1>1 DEF TablesOf

\* The tables only depend on the two lists of each request.
LEMMA SameTables ==
    ASSUME NEW p, NEW q, \A t \in Turn : p[t].attn = q[t].attn /\ p[t].state = q[t].state
    PROVE  TablesOf(p) = TablesOf(q)
<1> DEFINE A(t) == ToSet(p[t].attn \o p[t].state)
           B(t) == ToSet(q[t].attn \o q[t].state)
<1>1. TablesOf(p) = UNION {A(t) : t \in Turn} /\ TablesOf(q) = UNION {B(t) : t \in Turn}
    BY DEF TablesOf
<1>2. \A t \in Turn : A(t) = B(t)
    OBVIOUS
<1> HIDE DEF A, B
<1> QED BY <1>1, <1>2

\* One turn runs at a time, and its blocks are all there are in tables.
LEMMA RunsAlone ==
    ASSUME EndTypeOK, OneTurn, NoneTwice, NEW r \in Turn, req[r].phase = "running"
    PROVE  /\ \A q \in Turn \ {r} : /\ req[q].phase \notin {"running", "waiting"}
                                    /\ req[q].attn = << >> /\ req[q].state = << >>
           /\ req[r].attn \in Seq(Block) /\ req[r].attn # << >>
           /\ req[r].state \in Seq(Block) /\ req[r].state # << >>
           /\ TablesOf(req) = ToSet(req[r].attn) \cup ToSet(req[r].state)
           /\ Injective(req[r].attn) /\ Injective(req[r].state)
           /\ ToSet(req[r].attn) \cap ToSet(req[r].state) = {}
<1>1. ASSUME NEW q \in Turn \ {r} PROVE req[q].phase \notin {"running", "waiting"}
  <2>1. q \in 1..(r - 1) \/ r \in 1..(q - 1)
      BY EndAssumption DEF Turn
  <2> QED BY <2>1, <1>1 DEF OneTurn
<1>2. \A q \in Turn \ {r} : req[q].attn = << >> /\ req[q].state = << >>
    BY <1>1 DEF OneTurn
<1>3. /\ req[r].attn \in Seq(Block) /\ req[r].attn # << >>
      /\ req[r].state \in Seq(Block) /\ req[r].state # << >>
    BY DEF OneTurn, EndTypeOK, Request
<1>4. Injective(req[r].attn \o req[r].state)
    BY DEF NoneTwice
<1> QED BY <1>1, <1>2, <1>3, <1>4, Joined, TablesOfOne

\* What the endpoint pins.
LEMMA EndpointFacts ==
    ASSUME NEW e \in Endpoint
    PROVE  /\ e # NoEntry /\ e.turn \in Turn
           /\ e.attn \in Seq(Block) /\ e.attn # << >> /\ e.state \in Block
           /\ Append(e.attn, e.state) \in Seq(Block)
           /\ PinnedBy(e) = ToSet(e.attn) \cup {e.state}
           /\ PinnedBy(e) \subseteq Block
           /\ Injective(Append(e.attn, e.state)) <=>
                Injective(e.attn) /\ e.state \notin ToSet(e.attn)
<1>1. /\ e.turn # 0 /\ e.turn \in Turn
      /\ e.attn \in Seq(Block) /\ e.attn # << >> /\ e.state \in Block
    BY EndAssumption DEF Turn, Endpoint
<1>2. e # NoEntry
    BY <1>1 DEF NoEntry
<1>3. ToSet(e.attn) \subseteq Block
    BY <1>1 DEF ToSet
<1> QED BY <1>1, <1>2, <1>3, Appended DEF PinnedBy

\* clear gives back what the endpoint pins.
LEMMA ClearedCounted ==
    ASSUME EndTypeOK, NoneTwice, NEW p, NEW C, NEW W, NEW T,
           Counted(p, PinnedBy(entry), C, W, T)
    PROVE  Counted(Cleared(p), {}, C, W, T)
<1>1. CASE entry = NoEntry
    BY <1>1 DEF Cleared, PinnedBy
<1>2. CASE entry # NoEntry
  <2>1. Pins \in Seq(Block) /\ Injective(Pins)
      BY <1>2, EndpointFacts DEF EndTypeOK, NoneTwice, Pins
  <2>2. PinnedBy(entry) = ToSet(Pins) /\ Cleared(p) = Freed(p, Pins)
      BY <1>2 DEF PinnedBy, Pins, Cleared
  <2>3. Counted(Freed(p, Pins), ToSet(Pins) \ ToSet(Pins), C, W, T)
      BY <2>1, <2>2, CountedFreed
  <2>4. ToSet(Pins) \ ToSet(Pins) = {}
      OBVIOUS
  <2> QED BY <2>2, <2>3, <2>4
<1> QED BY <1>1, <1>2

\* A request's two tables are given back, each from its end.
LEMMA TablesFreed ==
    ASSUME NEW a \in Seq(Block), NEW s \in Seq(Block), Injective(a), Injective(s),
           ToSet(a) \cap ToSet(s) = {},
           NEW p, NEW P, NEW C, NEW W, Counted(p, P, C, W, ToSet(a) \cup ToSet(s))
    PROVE  Counted(Freed(Freed(p, Reverse(a)), Reverse(s)), P, C, W, {})
<1> DEFINE ra == Reverse(a)
           rs == Reverse(s)
           q == Freed(p, ra)
<1>1. /\ ra \in Seq(Block) /\ Injective(ra) /\ ToSet(ra) = ToSet(a)
      /\ rs \in Seq(Block) /\ Injective(rs) /\ ToSet(rs) = ToSet(s)
    BY Reversed
<1> HIDE DEF ra, rs
<1>2. Counted(q, P, C, W, (ToSet(a) \cup ToSet(s)) \ ToSet(ra))
    BY <1>1, CountedFreed
<1>3. (ToSet(a) \cup ToSet(s)) \ ToSet(ra) = ToSet(rs)
    BY <1>1
<1> HIDE DEF q
<1>4. Counted(Freed(q, rs), P, C, W, ToSet(rs) \ ToSet(rs))
    BY <1>1, <1>2, <1>3, CountedFreed
<1>5. ToSet(rs) \ ToSet(rs) = {}
    OBVIOUS
<1> QED BY <1>4, <1>5 DEF q, ra, rs

\* While a turn waits no request has blocks.
LEMMA WaitsAlone ==
    ASSUME EndTypeOK, OneTurn, NEW r \in Turn, req[r].phase = "waiting"
    PROVE  /\ \A q \in Turn : /\ req[q].phase # "running"
                              /\ req[q].attn = << >> /\ req[q].state = << >>
           /\ TablesOf(req) = {}
<1>1. ASSUME NEW q \in Turn PROVE req[q].phase # "running"
  <2>1. q = r \/ q \in 1..(r - 1) \/ r \in 1..(q - 1)
      BY EndAssumption DEF Turn
  <2> QED BY <2>1 DEF OneTurn
<1>2. \A q \in Turn : req[q].attn = << >> /\ req[q].state = << >>
    BY <1>1 DEF OneTurn
<1> QED BY <1>1, <1>2, TablesOfNone

\* reclaim_snapshot_history splits the states of a request, and keeps the last.
LEMMA SnapshotsSplit ==
    ASSUME EndTypeOK, OneTurn, NoneTwice, NEW r \in Turn, req[r].phase = "running"
    PROVE  /\ Snapshots(r) \in Seq(Block) /\ Injective(Snapshots(r))
           /\ Reclaimed(r) \in Seq(Block) /\ Injective(Reclaimed(r))
           /\ ToSet(Snapshots(r)) \subseteq ToSet(req[r].state)
           /\ ToSet(Reclaimed(r)) = ToSet(req[r].state) \ ToSet(Snapshots(r))
           /\ Reclaimed(r) # << >> /\ Last(Reclaimed(r)) = Last(req[r].state)
<1> DEFINE s == req[r].state
           K == {Last(s)} \cup transfer
<1>1. s \in Seq(Block) /\ s # << >> /\ Injective(s)
    BY RunsAlone
<1>2. K \in SUBSET Block /\ Block \ K \in SUBSET Block /\ Last(s) \in K
    BY <1>1, Fronted DEF EndTypeOK
<1>3. Reverse(s) \in Seq(Block) /\ ToSet(Reverse(s)) = ToSet(s) /\ Injective(Reverse(s))
    BY <1>1, Reversed
<1>4. Snapshots(r) = Only[Reverse(s)][Block \ K] /\ Reclaimed(r) = Only[s][K]
    BY DEF Snapshots, Reclaimed
<1>5. ToSet(s) \subseteq Block
    BY <1>1 DEF ToSet
<1> HIDE DEF s, K
<1>6. /\ Snapshots(r) \in Seq(Block) /\ Injective(Snapshots(r))
      /\ ToSet(Snapshots(r)) = ToSet(s) \cap (Block \ K)
  <2> DEFINE v == Reverse(s)
             L == Block \ K
  <2>1. v \in Seq(Block) /\ ToSet(v) = ToSet(s) /\ Injective(v) /\ L \in SUBSET Block
        /\ Snapshots(r) = Only[v][L]
      BY <1>2, <1>3, <1>4
  <2> HIDE DEF v, L
  <2>2. /\ Only[v][L] \in Seq(Block) /\ Injective(Only[v][L])
        /\ ToSet(Only[v][L]) = ToSet(v) \cap L
      BY <2>1, OnlyFacts
  <2> QED BY <2>1, <2>2 DEF L
<1>7. /\ Reclaimed(r) \in Seq(Block) /\ Injective(Reclaimed(r))
      /\ ToSet(Reclaimed(r)) = ToSet(s) \cap K
      /\ Reclaimed(r) # << >> /\ Last(Reclaimed(r)) = Last(s)
    BY <1>1, <1>2, <1>4, OnlyFacts
<1> QED BY <1>5, <1>6, <1>7 DEF s

\* What is pinned for the endpoint after pressure.
PinnedAfter(r) == IF Releases(r) THEN {} ELSE PinnedBy(entry)

\* The pool after an allocation failed, for a running and for a waiting request.
LEMMA RelievedCounted ==
    ASSUME EndTypeOK, OneTurn, NoneTwice, RefsAre, frame = IdleFrame, NEW r \in Turn
    PROVE  /\ req[r].phase = "running" =>
                Counted(Relieved(r), PinnedAfter(r), ToSet(copyPins), {},
                        ToSet(req[r].attn) \cup ToSet(Reclaimed(r)))
           /\ req[r].phase = "waiting" =>
                /\ Counted(Relieved(r), PinnedAfter(r), ToSet(copyPins), {}, {})
                /\ Matches(r) => ~Releases(r) /\ Relieved(r) = pool
<1> DEFINE p == IF Releases(r) THEN Cleared(pool) ELSE pool
<1>1. ToSet(frame.cow) = {}
    BY DEF IdleFrame, ToSet
<1>2. Counted(pool, PinnedBy(entry), ToSet(copyPins), {}, TablesOf(req))
    BY <1>1 DEF RefsAre
<1>3. Counted(p, PinnedAfter(r), ToSet(copyPins), {}, TablesOf(req))
    BY <1>2, ClearedCounted DEF PinnedAfter
<1>4. Relieved(r) = IF req[r].state = << >> THEN p ELSE Freed(p, Snapshots(r))
    BY DEF Relieved
<1> HIDE DEF p
<1>5. ASSUME req[r].phase = "running"
      PROVE  Counted(Relieved(r), PinnedAfter(r), ToSet(copyPins), {},
                     ToSet(req[r].attn) \cup ToSet(Reclaimed(r)))
  <2> DEFINE A == ToSet(req[r].attn)
             S == ToSet(req[r].state)
  <2>1. req[r].state # << >> /\ TablesOf(req) = A \cup S /\ A \cap S = {}
      BY <1>5, RunsAlone
  <2>2. /\ Snapshots(r) \in Seq(Block) /\ Injective(Snapshots(r))
        /\ ToSet(Snapshots(r)) \subseteq S
        /\ ToSet(Reclaimed(r)) = S \ ToSet(Snapshots(r))
      BY <1>5, SnapshotsSplit
  <2> HIDE DEF A, S
  <2>3. ToSet(Snapshots(r)) \subseteq TablesOf(req)
      BY <2>1, <2>2
  <2>4. Counted(Freed(p, Snapshots(r)), PinnedAfter(r), ToSet(copyPins), {},
                TablesOf(req) \ ToSet(Snapshots(r)))
      BY <1>3, <2>2, <2>3, CountedFreed
  <2>5. TablesOf(req) \ ToSet(Snapshots(r)) = A \cup ToSet(Reclaimed(r))
      BY <2>1, <2>2
  <2> QED BY <1>4, <2>1, <2>4, <2>5 DEF A
<1>6. ASSUME req[r].phase = "waiting"
      PROVE  /\ Counted(Relieved(r), PinnedAfter(r), ToSet(copyPins), {}, {})
             /\ Matches(r) => ~Releases(r) /\ Relieved(r) = pool
  <2>1. req[r].state = << >> /\ TablesOf(req) = {}
      BY <1>6, WaitsAlone
  <2>2. Matches(r) => ~Releases(r)
      BY <1>6 DEF Releases, Unused, Progressed
  <2> QED BY <1>3, <1>4, <2>1, <2>2 DEF p
<1> QED BY <1>5, <1>6

\* copies_complete: nothing is pinned for copies once the output is there.
LEMMA CompletedCounted ==
    ASSUME EndTypeOK, FrameFits, OneCopy, NoneTwice, RefsAre, frame.at = "output"
    PROVE  /\ Counted(Completed, PinnedBy(entry), {}, {}, TablesOf(req))
           /\ PinsLeft = << >> /\ pending = << >>
<1>1. pending = << >>
    BY DEF FrameFits
<1>2. frame.cow \in Seq(Block) /\ Injective(frame.cow) /\ copyPins \in Seq(Block)
    BY DEF EndTypeOK, NoneTwice, Frame
<1>3. ToSet(<< >>) = {}
    BY DEF ToSet
<1> DEFINE p == IF frame.copies = << >> THEN pool ELSE Freed(pool, copyPins)
<1>4. PinsLeft = << >> /\ Counted(p, PinnedBy(entry), {}, ToSet(frame.cow), TablesOf(req))
  <2>1. CASE frame.copies = << >>
    <3>1. copyPins = << >>
      <4>1. \A c : << >> # <<c>>
          OBVIOUS
      <4> QED BY <1>1, <2>1, <4>1 DEF OneCopy
    <3> QED BY <2>1, <3>1, <1>3 DEF PinsLeft, RefsAre
  <2>2. CASE frame.copies # << >>
    <3>1. PICK c \in Copy : copyPins = <<c.src, c.dst>> /\ c.src # c.dst
        BY <2>2 DEF OneCopy
    <3>2. Injective(copyPins)
        BY <3>1 DEF Injective
    <3>3. Counted(Freed(pool, copyPins), PinnedBy(entry), ToSet(copyPins) \ ToSet(copyPins),
                  ToSet(frame.cow), TablesOf(req))
        BY <1>2, <3>2, CountedFreed DEF RefsAre
    <3>4. ToSet(copyPins) \ ToSet(copyPins) = {}
        OBVIOUS
    <3> QED BY <2>2, <3>3, <3>4 DEF PinsLeft
  <2> QED BY <2>1, <2>2
<1>5. Completed = Freed(p, frame.cow)
    BY DEF Completed
<1> HIDE DEF p
<1>6. Counted(Freed(p, frame.cow), PinnedBy(entry), {}, ToSet(frame.cow) \ ToSet(frame.cow),
              TablesOf(req))
    BY <1>2, <1>4, CountedFreed
<1>7. ToSet(frame.cow) \ ToSet(frame.cow) = {}
    OBVIOUS
<1> QED BY <1>1, <1>4, <1>5, <1>6, <1>7

-----------------------------------------------------------------------------
(***************************************************************************)
(* EInv is inductive: one lemma per action.                                *)
(***************************************************************************)
\* A list of one and of two elements.
LEMMA ShortLists ==
    /\ ToSet(<< >>) = {}
    /\ \A a : ToSet(<<a>>) = {a}
    /\ \A a, b : ToSet(<<a, b>>) = {a, b}
    /\ \A a, b : a # b => Injective(<<a, b>>)
    /\ Injective(<< >>)
<1>1. ToSet(<< >>) = {} /\ Injective(<< >>)
    BY DEF ToSet, Injective
<1>2. ASSUME NEW a PROVE ToSet(<<a>>) = {a}
  <2>1. DOMAIN <<a>> = {1} /\ <<a>>[1] = a
      OBVIOUS
  <2> QED BY <2>1 DEF ToSet
<1>3. ASSUME NEW a, NEW b
      PROVE  ToSet(<<a, b>>) = {a, b} /\ (a # b => Injective(<<a, b>>))
  <2>1. DOMAIN <<a, b>> = {1, 2} /\ <<a, b>>[1] = a /\ <<a, b>>[2] = b
      OBVIOUS
  <2> QED BY <2>1 DEF ToSet, Injective
<1> QED BY <1>1, <1>2, <1>3

\* The blocks of a copy are pinned.
LEMMA CopyPinned ==
    ASSUME OneCopy
    PROVE  \A c \in Copies : c.src \in ToSet(copyPins) /\ c.dst \in ToSet(copyPins)
<1>1. CASE pending = << >> /\ frame.copies = << >>
    BY <1>1, ShortLists DEF Copies
<1>2. ASSUME NEW c \in Copy, copyPins = <<c.src, c.dst>>,
             \/ pending = <<c>> /\ frame.copies = << >>
             \/ pending = << >> /\ frame.copies = <<c>>
      PROVE  \A d \in Copies : d.src \in ToSet(copyPins) /\ d.dst \in ToSet(copyPins)
  <2>1. Copies = {c} /\ ToSet(copyPins) = {c.src, c.dst}
      BY <1>2, ShortLists DEF Copies
  <2> QED BY <2>1
<1> QED BY <1>1, <1>2 DEF OneCopy

\* A turn's text begins with itself, and with what its beginnings begin with.
LEMMA ChainFacts ==
    ASSUME NEW r \in Turn
    PROVE  /\ r \in Chain(r)
           /\ \A q \in Chain(r) : q \in Turn /\ Chain(q) \subseteq Chain(r)
<1>1. r \in Nat /\ r >= 1 /\ Len(End) \in Nat /\ r <= Len(End)
    BY EndAssumption DEF Turn
<1>2. r \in Chain(r)
    BY <1>1 DEF Chain
<1>3. ASSUME NEW q \in Chain(r), NEW t \in Chain(q) PROVE t \in Chain(r)
  <2>1. q \in 1..r /\ \A p \in (q + 1)..r : p \in Continues
      BY DEF Chain
  <2>2. t \in 1..q /\ \A p \in (t + 1)..q : p \in Continues
      BY DEF Chain
  <2>3. t \in 1..r
      BY <1>1, <2>1, <2>2
  <2>4. \A p \in (t + 1)..r : p \in (t + 1)..q \/ p \in (q + 1)..r
      BY <1>1, <2>1, <2>2
  <2> QED BY <2>1, <2>2, <2>3, <2>4 DEF Chain
<1>4. \A q \in Chain(r) : q \in Turn
    BY <1>1 DEF Chain, Turn
<1> QED BY <1>2, <1>3, <1>4

\* A request arrives: its tables stay empty.
LEMMA StepArrive ==
    ASSUME EInv, NEW r \in Turn, Arrive(r)
    PROVE  EInv'
<1>1. /\ \A t \in Turn : req'[t].attn = req[t].attn /\ req'[t].state = req[t].state
      /\ \A t \in Turn \ {r} : req'[t] = req[t]
      /\ req'[r].phase = "waiting" /\ req[r].phase = "new"
      /\ \A q \in 1..(r - 1) : req[q].phase = "done"
      /\ req' \in [Turn -> Request]
  <2>1. PromptEnd[r] \in Nat
      BY EndAssumption DEF Turn
  <2> QED BY <2>1, ZenonT(60) DEF Arrive, EInv, EndTypeOK, Request
<1>2. /\ UNCHANGED <<pool, content, entry, pending, copyPins, frame, transfer, resets>>
      /\ frame = IdleFrame
    BY DEF Arrive
<1>3. EndTypeOK'
    BY <1>1, <1>2 DEF EInv, EndTypeOK
<1>4. OneTurn'
  <2>1. \A t \in Turn :
          IF req'[t].phase = "running" THEN req'[t].attn # << >> /\ req'[t].state # << >>
          ELSE req'[t].attn = << >> /\ req'[t].state = << >>
    <3> TAKE t \in Turn
    <3>1. IF req[t].phase = "running" THEN req[t].attn # << >> /\ req[t].state # << >>
          ELSE req[t].attn = << >> /\ req[t].state = << >>
        BY DEF EInv, OneTurn
    <3>2. req'[t].attn = req[t].attn /\ req'[t].state = req[t].state
        BY <1>1
    <3>3. req'[t].phase = "running" <=> req[t].phase = "running"
      <4>1. CASE t = r
          BY <1>1, <4>1
      <4>2. CASE t # r
        <5>1. req'[t] = req[t]
            BY <1>1, <4>2
        <5> QED BY <5>1
      <4> QED BY <4>1, <4>2
    <3> QED BY <3>1, <3>2, <3>3
  <2>2. ASSUME NEW t \in Turn, NEW q \in 1..(t - 1), req'[t].phase # "new"
        PROVE  req'[q].phase = "done"
    <3>1. q \in Turn /\ q # t
        BY EndAssumption DEF Turn
    <3>2. CASE t = r
        BY <3>1, <3>2, <1>1
    <3>3. CASE t # r
        BY <3>1, <3>3, <1>1, <2>2 DEF EInv, OneTurn
    <3> QED BY <3>2, <3>3
  <2> QED BY <2>1, <2>2 DEF OneTurn
<1>5. TablesOf(req') = TablesOf(req)
    BY <1>1, SameTables
<1>6. FrameFits' /\ OneCopy' /\ Copies' = Copies /\ ToMake' = ToMake
    BY <1>2 DEF EInv, FrameFits, OneCopy, Copies, ToMake, IdleFrame
<1>7. CopyPrivate' /\ RefsAre'
    BY <1>2, <1>5, <1>6 DEF EInv, CopyPrivate, RefsAre
<1>8. NoneTwice'
    BY <1>1, <1>2 DEF EInv, NoneTwice
<1>9. EntryState' /\ EntryExact'
    BY <1>2, <1>6 DEF EInv, EntryState, EntryExact
<1>10. \A t \in Turn : ~Computing(t) /\ ~Computing(t)'
    BY <1>2 DEF Computing, IdleFrame
<1>11. FreshOutputs' /\ StepStarts'
    BY <1>10 DEF FreshOutputs, StepStarts
<1>12. StateComputed' /\ TablesExact'
    BY <1>1, <1>2, <1>10 DEF EInv, StateComputed, TablesExact
<1> QED BY <1>3, <1>4, <1>6, <1>7, <1>8, <1>9, <1>11, <1>12 DEF EInv

\* The transfers end: nothing else changes.
LEMMA StepTransferDone ==
    ASSUME EInv, TransferDone
    PROVE  EInv'
<1>1. /\ UNCHANGED <<pool, content, req, entry, pending, copyPins, frame, resets>>
      /\ transfer' = {}
    BY DEF TransferDone
<1>2. EndTypeOK' /\ OneTurn' /\ FrameFits' /\ OneCopy'
    BY <1>1 DEF EInv, EndTypeOK, OneTurn, FrameFits, OneCopy
<1>3. CopyPrivate' /\ NoneTwice' /\ RefsAre'
    BY <1>1 DEF EInv, CopyPrivate, Copies, NoneTwice, RefsAre
<1>4. \A r \in Turn : Computing(r)' <=> Computing(r)
    BY <1>1 DEF Computing
<1>5. EntryState' /\ FreshOutputs' /\ StateComputed'
    BY <1>1, <1>4 DEF EInv, EntryState, ToMake, FreshOutputs, StateComputed
<1>6. StepStarts'
    BY <1>1, <1>4 DEF EInv, StepStarts, FromEntry, FromState, Matches
<1>7. TablesExact' /\ EntryExact'
    BY <1>1, <1>4 DEF EInv, TablesExact, EntryExact
<1> QED BY <1>2, <1>3, <1>5, <1>6, <1>7 DEF EInv

\* Between frames a turn's places are in the tables, and those in the endpoint are pinned.
LEMMA PlacesOwned ==
    ASSUME EInv
    PROVE  /\ \A r \in Turn : \A i \in 1..Len(req[r].attn) :
                req[r].attn[i] \in TablesOf(req) /\ req[r].attn[i] \in Block
           /\ \A r \in Turn : req[r].phase = "running" =>
                Last(req[r].state) \in TablesOf(req) /\ Last(req[r].state) \in Block
           /\ entry # NoEntry =>
                /\ \A i \in 1..Len(entry.attn) :
                     entry.attn[i] \in PinnedBy(entry) /\ entry.attn[i] \in Block
                /\ entry.state \in PinnedBy(entry) /\ entry.state \in Block
<1>1. ASSUME NEW r \in Turn, req[r].phase = "running"
      PROVE  /\ \A i \in 1..Len(req[r].attn) :
                  req[r].attn[i] \in TablesOf(req) /\ req[r].attn[i] \in Block
             /\ Last(req[r].state) \in TablesOf(req) /\ Last(req[r].state) \in Block
  <2>1. /\ req[r].attn \in Seq(Block) /\ req[r].state \in Seq(Block) /\ req[r].state # << >>
        /\ TablesOf(req) = ToSet(req[r].attn) \cup ToSet(req[r].state)
      BY <1>1, RunsAlone DEF EInv
  <2>2. \A i \in 1..Len(req[r].attn) :
           req[r].attn[i] \in ToSet(req[r].attn) /\ req[r].attn[i] \in Block
      BY <2>1 DEF ToSet
  <2>3. Last(req[r].state) \in ToSet(req[r].state) /\ Last(req[r].state) \in Block
    <3> DEFINE s == req[r].state
    <3>1. s \in Seq(Block) /\ s # << >>
        BY <2>1
    <3> HIDE DEF s
    <3>2. Last(s) \in ToSet(s) /\ Last(s) \in Block
        BY <3>1, Fronted
    <3> QED BY <3>2 DEF s
  <2> QED BY <2>1, <2>2, <2>3
<1>2. ASSUME NEW r \in Turn, req[r].phase # "running", NEW i \in 1..Len(req[r].attn) PROVE FALSE
  <2>1. Len(req[r].attn) = 0
      BY <1>2 DEF EInv, OneTurn
  <2> QED BY <2>1, <1>2
<1>3. ASSUME entry # NoEntry
      PROVE  /\ \A i \in 1..Len(entry.attn) :
                  entry.attn[i] \in PinnedBy(entry) /\ entry.attn[i] \in Block
             /\ entry.state \in PinnedBy(entry) /\ entry.state \in Block
  <2>1. entry \in Endpoint
      BY <1>3 DEF EInv, EndTypeOK
  <2>2. /\ entry.attn \in Seq(Block) /\ entry.state \in Block
        /\ PinnedBy(entry) = ToSet(entry.attn) \cup {entry.state}
      BY <2>1, EndpointFacts
  <2>3. \A i \in 1..Len(entry.attn) : entry.attn[i] \in ToSet(entry.attn) /\ entry.attn[i] \in Block
      BY <2>2 DEF ToSet
  <2> QED BY <2>2, <2>3
<1> QED BY <1>1, <1>2, <1>3

\* A handover loses only what no owner holds.
LEMMA StepHandover ==
    ASSUME EInv, Handover
    PROVE  EInv'
<1>1. /\ UNCHANGED <<pool, req, entry, pending, copyPins, frame, transfer, resets>>
      /\ frame = IdleFrame
      /\ content' = [b \in Block |-> IF pool.ref[b] = 0 THEN Junk ELSE content[b]]
    BY DEF Handover
<1>2. content' \in [Block -> (0..Len(End)) \X Nat]
  <2>1. Len(End) \in Nat
      BY EndAssumption
  <2> QED BY <1>1, <2>1 DEF EInv, EndTypeOK, Junk
<1>3. EndTypeOK' /\ OneTurn' /\ FrameFits' /\ OneCopy'
    BY <1>1, <1>2 DEF EInv, EndTypeOK, OneTurn, FrameFits, OneCopy
<1>4. CopyPrivate' /\ NoneTwice' /\ RefsAre'
    BY <1>1 DEF EInv, CopyPrivate, Copies, NoneTwice, RefsAre
<1>5. \A r \in Turn : ~Computing(r) /\ ~Computing(r)'
    BY <1>1 DEF Computing, IdleFrame
<1>6. FreshOutputs' /\ StepStarts'
    BY <1>5 DEF FreshOutputs, StepStarts
<1>7. ASSUME NEW b \in Block, b \in PinnedBy(entry) \cup ToSet(copyPins) \cup TablesOf(req)
      PROVE  content'[b] = content[b]
  <2>1. pool.ref[b] > 0
      BY <1>7, CountedOwned DEF EInv, RefsAre
  <2> QED BY <2>1, <1>1
<1>8. TablesExact' /\ EntryExact' /\ StateComputed'
  <2>1. ASSUME NEW r \in Turn, NEW i \in 1..Len(req[r].attn)
        PROVE  Holds(content', req[r].attn[i], i, r)
    <3>1. Holds(content, req[r].attn[i], i, r)
        BY <1>5 DEF EInv, TablesExact
    <3>2. content'[req[r].attn[i]] = content[req[r].attn[i]]
        BY <1>7, PlacesOwned
    <3> QED BY <3>1, <3>2 DEF Holds
  <2>2. ASSUME entry # NoEntry, NEW i \in 1..Len(entry.attn)
        PROVE  Holds(content', entry.attn[i], i, entry.turn)
    <3>1. Holds(content, entry.attn[i], i, entry.turn)
        BY <2>2 DEF EInv, EntryExact
    <3>2. content'[entry.attn[i]] = content[entry.attn[i]]
        BY <2>2, <1>7, PlacesOwned
    <3> QED BY <3>1, <3>2 DEF Holds
  <2>3. ASSUME NEW r \in Turn, req[r].phase = "running"
        PROVE  content'[Last(req[r].state)] = <<r, Len(req[r].attn)>>
    <3>1. content[Last(req[r].state)] = <<r, Len(req[r].attn)>>
        BY <2>3, <1>5 DEF EInv, StateComputed
    <3>2. content'[Last(req[r].state)] = content[Last(req[r].state)]
        BY <2>3, <1>7, PlacesOwned
    <3> QED BY <3>1, <3>2
  <2> QED BY <1>1, <1>5, <2>1, <2>2, <2>3 DEF TablesExact, EntryExact, StateComputed
<1>9. EntryState'
  <2>1. \A c \in ToMake : c.src \in Block /\ c.src \in ToSet(copyPins)
    <3>1. ToMake \subseteq Copies
        BY DEF ToMake, Copies
    <3>2. ToSet(copyPins) \subseteq Block
        BY DEF EInv, EndTypeOK, ToSet
    <3> QED BY <3>1, <3>2, CopyPinned DEF EInv
  <2>2. ToMake' = ToMake
      BY <1>1 DEF ToMake
  <2> QED BY <1>1, <1>7, <2>1, <2>2, PlacesOwned DEF EInv, EntryState
<1> QED BY <1>3, <1>4, <1>6, <1>8, <1>9 DEF EInv

\* The endpoint is dropped by a reset: a copy under way keeps its pins.
LEMMA StepReset ==
    ASSUME EInv, Reset
    PROVE  EInv'
<1>1. /\ UNCHANGED <<content, req, pending, copyPins, frame, transfer>>
      /\ frame = IdleFrame /\ pool' = Cleared(pool) /\ entry' = NoEntry
      /\ resets' = resets + 1
    BY DEF Reset
<1>2. EndTypeOK' /\ OneTurn' /\ FrameFits' /\ OneCopy'
  <2>1. EndTypeOK'
    <3>1. resets' \in Nat
        BY <1>1 DEF EInv, EndTypeOK
    <3> QED BY <1>1, <3>1 DEF EInv, EndTypeOK
  <2> QED BY <1>1, <2>1 DEF EInv, OneTurn, FrameFits, OneCopy
<1>3. entry'.attn = << >> /\ entry'.state = 0 /\ PinnedBy(entry') = {}
    BY <1>1 DEF NoEntry, PinnedBy
<1>4. CopyPrivate'
    BY <1>1, <1>3, ShortLists DEF EInv, CopyPrivate, Copies
<1>5. NoneTwice'
  <2>1. Injective(Append(<< >>, 0))
      BY DEF Injective
  <2> QED BY <1>1, <1>3, <2>1 DEF EInv, NoneTwice
<1>6. RefsAre'
    BY <1>1, <1>3, ClearedCounted DEF EInv, RefsAre
<1>7. \A r \in Turn : ~Computing(r) /\ ~Computing(r)'
    BY <1>1 DEF Computing, IdleFrame
<1>8. FreshOutputs' /\ StepStarts' /\ EntryState' /\ EntryExact'
    BY <1>1, <1>7 DEF FreshOutputs, StepStarts, EntryState, EntryExact
<1>9. TablesExact' /\ StateComputed'
    BY <1>1, <1>7 DEF EInv, TablesExact, StateComputed
<1> QED BY <1>2, <1>4, <1>5, <1>6, <1>8, <1>9 DEF EInv

\* What every scheduled frame does: it takes the copies along, and the endpoint
\* is what it was or is gone.
LEMMA SendFacts ==
    ASSUME EInv, frame = IdleFrame, NEW t \in {0} \cup Turn, NEW w \in Seq(Block),
           Send(t, w), copyPins' = copyPins, content' = content,
           entry' = entry \/ entry' = NoEntry,
           t # 0 => req'[t].phase = "running",
           \A c \in Copies : c.dst \notin TablesOf(req')
    PROVE  /\ frame' \in Frame /\ pending' \in Seq(Copy)
           /\ frame'.at = "worker" /\ frame'.turn = t /\ frame'.cow = w
           /\ entry' = NoEntry \/ entry' \in Endpoint
           /\ Injective(Append(entry'.attn, entry'.state))
           /\ FrameFits' /\ OneCopy' /\ CopyPrivate' /\ EntryState' /\ EntryExact'
<1>1. /\ frame.at = "idle" /\ frame.copies = << >>
      /\ frame' = [at |-> "worker", turn |-> t, copies |-> pending, cow |-> w]
      /\ pending' = << >>
    BY DEF Send, IdleFrame
<1>2. /\ frame'.at = "worker" /\ frame'.turn = t /\ frame'.cow = w /\ frame'.copies = pending
    BY <1>1
<1>3. frame' \in Frame /\ pending' \in Seq(Copy)
    BY <1>1 DEF EInv, EndTypeOK, Frame
<1>4. FrameFits'
  <2>1. frame' # IdleFrame
      BY <1>2 DEF IdleFrame
  <2> QED BY <1>1, <1>2, <2>1 DEF FrameFits
<1>5. OneCopy'
    BY <1>1, <1>2 DEF EInv, OneCopy
<1>6. Copies' = Copies /\ ToMake' = ToMake
    BY <1>1, <1>2, ShortLists DEF Copies, ToMake
<1>7. ToSet(NoEntry.attn) = {} /\ Injective(Append(NoEntry.attn, NoEntry.state))
  <2>1. NoEntry.attn = << >> /\ NoEntry.state = 0
      BY DEF NoEntry
  <2>2. Injective(Append(<< >>, 0))
      BY DEF Injective
  <2> QED BY <2>1, <2>2, ShortLists
<1>8. CopyPrivate'
  <2>1. \A c \in Copies : c.dst \notin ToSet(entry.attn)
      BY DEF EInv, CopyPrivate
  <2> QED BY <1>6, <1>7, <2>1 DEF CopyPrivate
<1>9. EntryState' /\ EntryExact'
    BY <1>6 DEF EInv, EntryState, EntryExact
<1>10. entry' = NoEntry \/ entry' \in Endpoint
    BY DEF EInv, EndTypeOK
<1>11. Injective(Append(entry'.attn, entry'.state))
    BY <1>7 DEF EInv, NoneTwice
<1> QED BY <1>2, <1>3, <1>4, <1>5, <1>8, <1>9, <1>10, <1>11

\* A frame for no turn computes nothing.
LEMMA NothingComputed ==
    ASSUME frame'.turn = 0
    PROVE  /\ \A r \in Turn : ~Computing(r)'
           /\ FreshOutputs' /\ StepStarts'
<1>1. \A r \in Turn : r # 0
    BY EndAssumption DEF Turn
<1>2. \A r \in Turn : ~Computing(r)'
    BY <1>1 DEF Computing
<1> QED BY <1>2 DEF FreshOutputs, StepStarts

\* A frame without tokens.
LEMMA StepEmptyFrame ==
    ASSUME EInv, EmptyFrame
    PROVE  EInv'
<1>1. /\ UNCHANGED <<pool, content, req, entry, copyPins, transfer, resets>>
      /\ frame = IdleFrame /\ Send(0, << >>)
    BY DEF EmptyFrame
<1>2. /\ frame' \in Frame /\ pending' \in Seq(Copy)
      /\ frame'.turn = 0 /\ frame'.cow = << >>
      /\ FrameFits' /\ OneCopy' /\ CopyPrivate' /\ EntryState' /\ EntryExact'
  <2>1. << >> \in Seq(Block) /\ 0 \in {0} \cup Turn
      OBVIOUS
  <2>2. \A c \in Copies : c.dst \notin TablesOf(req')
      BY <1>1 DEF EInv, CopyPrivate
  <2>3. copyPins' = copyPins /\ content' = content /\ (entry' = entry \/ entry' = NoEntry)
      BY <1>1
  <2> QED BY <1>1, <2>1, <2>2, <2>3, SendFacts
<1>3. EndTypeOK' /\ OneTurn'
    BY <1>1, <1>2 DEF EInv, EndTypeOK, OneTurn
<1>4. NoneTwice' /\ RefsAre'
  <2>1. frame.cow = << >>
      BY <1>1 DEF IdleFrame
  <2> QED BY <1>1, <1>2, <2>1 DEF EInv, NoneTwice, RefsAre
<1>5. FreshOutputs' /\ StepStarts'
    BY <1>2, NothingComputed
<1>6. TablesExact' /\ StateComputed'
  <2>1. \A r \in Turn : ~Computing(r) /\ ~Computing(r)'
      BY <1>1, <1>2, NothingComputed DEF Computing, IdleFrame
  <2> QED BY <1>1, <2>1 DEF EInv, TablesExact, StateComputed
<1> QED BY <1>2, <1>3, <1>4, <1>5, <1>6 DEF EInv

\* The prompt does not fit even under pressure: the endpoint may be gone.
LEMMA StepAdmitFails ==
    ASSUME EInv, NEW r \in Turn, AdmitFails(r)
    PROVE  EInv'
<1>1. /\ UNCHANGED <<content, req, copyPins, transfer, resets>>
      /\ frame = IdleFrame /\ Send(0, << >>) /\ req[r].phase = "waiting"
      /\ pool' = Relieved(r) /\ entry' = IF Releases(r) THEN NoEntry ELSE entry
    BY DEF AdmitFails
<1>2. /\ frame' \in Frame /\ pending' \in Seq(Copy)
      /\ frame'.turn = 0 /\ frame'.cow = << >>
      /\ entry' = NoEntry \/ entry' \in Endpoint
      /\ Injective(Append(entry'.attn, entry'.state))
      /\ FrameFits' /\ OneCopy' /\ CopyPrivate' /\ EntryState' /\ EntryExact'
  <2>1. << >> \in Seq(Block) /\ 0 \in {0} \cup Turn
      OBVIOUS
  <2>2. \A c \in Copies : c.dst \notin TablesOf(req')
      BY <1>1 DEF EInv, CopyPrivate
  <2>3. copyPins' = copyPins /\ content' = content /\ (entry' = entry \/ entry' = NoEntry)
      BY <1>1
  <2> QED BY <1>1, <2>1, <2>2, <2>3, SendFacts
<1>3. EndTypeOK' /\ OneTurn'
    BY <1>1, <1>2 DEF EInv, EndTypeOK, OneTurn
<1>4. NoneTwice'
    BY <1>1, <1>2, ShortLists DEF EInv, NoneTwice
<1>5. RefsAre'
  <2>1. PinnedBy(entry') = PinnedAfter(r)
      BY <1>1 DEF PinnedBy, PinnedAfter
  <2>2. TablesOf(req') = {} /\ ToSet(frame'.cow) = {}
      BY <1>1, <1>2, WaitsAlone, ShortLists DEF EInv
  <2> QED BY <1>1, <2>1, <2>2, RelievedCounted DEF EInv, RefsAre
<1>6. FreshOutputs' /\ StepStarts'
    BY <1>2, NothingComputed
<1>7. TablesExact' /\ StateComputed'
  <2>1. \A q \in Turn : ~Computing(q) /\ ~Computing(q)'
      BY <1>1, <1>2, NothingComputed DEF Computing, IdleFrame
  <2> QED BY <1>1, <2>1 DEF EInv, TablesExact, StateComputed
<1> QED BY <1>2, <1>3, <1>4, <1>5, <1>6, <1>7 DEF EInv

\* What comes before a turn are turns.
LEMMA TurnsBefore ==
    ASSUME NEW t \in Turn, NEW q \in 1..(t - 1)
    PROVE  q \in Turn /\ q # t
    BY EndAssumption DEF Turn

\* A turn that waits or runs goes on: the order of the turns stays.
LEMMA OneTurnKept ==
    ASSUME OneTurn, NEW r \in Turn, req[r].phase \in {"waiting", "running"},
           \A t \in Turn \ {r} : req'[t] = req[t], req'[r].phase # "new",
           IF req'[r].phase = "running" THEN req'[r].attn # << >> /\ req'[r].state # << >>
                                        ELSE req'[r].attn = << >> /\ req'[r].state = << >>
    PROVE  OneTurn'
<1>1. \A t \in Turn :
        IF req'[t].phase = "running" THEN req'[t].attn # << >> /\ req'[t].state # << >>
        ELSE req'[t].attn = << >> /\ req'[t].state = << >>
    BY DEF OneTurn
<1>2. ASSUME NEW t \in Turn, NEW q \in 1..(t - 1), req'[t].phase # "new"
      PROVE  req'[q].phase = "done"
  <2>1. q \in Turn /\ q # t
      BY TurnsBefore
  <2>2. req[t].phase # "new"
      BY <1>2
  <2>3. req[q].phase = "done"
      BY <2>2 DEF OneTurn
  <2> QED BY <2>1, <2>3
<1> QED BY <1>1, <1>2 DEF OneTurn

\* The tables of a turn that waits or runs are all the tables.
LEMMA ActiveTables ==
    ASSUME EndTypeOK, OneTurn, NoneTwice, NEW r \in Turn,
           req[r].phase \in {"waiting", "running"}
    PROVE  /\ \A q \in Turn \ {r} : req[q].attn = << >> /\ req[q].state = << >>
                                    /\ req[q].phase # "running"
           /\ req[r].attn \in Seq(Block) /\ req[r].state \in Seq(Block)
           /\ Injective(req[r].attn) /\ Injective(req[r].state)
           /\ ToSet(req[r].attn) \cap ToSet(req[r].state) = {}
           /\ TablesOf(req) = ToSet(req[r].attn) \cup ToSet(req[r].state)
<1>1. CASE req[r].phase = "running"
    BY <1>1, RunsAlone
<1>2. CASE req[r].phase = "waiting"
  <2>1. /\ \A q \in Turn : req[q].attn = << >> /\ req[q].state = << >>
                           /\ req[q].phase # "running"
        /\ TablesOf(req) = {}
      BY <1>2, WaitsAlone
  <2>2. req[r].attn = << >> /\ req[r].state = << >>
      BY <2>1
  <2> QED BY <2>1, <2>2, ShortLists
<1> QED BY <1>1, <1>2

\* The turn gives up its blocks: nothing is left in tables.
LEMMA TurnEmptied ==
    ASSUME EInv, NEW r \in Turn, req[r].phase \in {"waiting", "running"},
           NEW x \in Request, req' = [req EXCEPT ![r] = x],
           x.phase \in {"waiting", "done"}, x.attn = << >>, x.state = << >>
    PROVE  /\ req' \in [Turn -> Request] /\ OneTurn' /\ TablesOf(req') = {}
           /\ \A t \in Turn : Injective(req'[t].attn \o req'[t].state)
           /\ TablesExact' /\ StateComputed'
<1>1. req' \in [Turn -> Request]
    BY DEF EInv, EndTypeOK
<1>2. req'[r] = x /\ \A t \in Turn \ {r} : req'[t] = req[t]
    BY DEF EInv, EndTypeOK
<1>3. OneTurn'
    BY <1>2, OneTurnKept DEF EInv
<1>4. \A t \in Turn : req'[t].attn = << >> /\ req'[t].state = << >> /\ req'[t].phase # "running"
    BY <1>2, ActiveTables DEF EInv
<1>5. TablesOf(req') = {}
    BY <1>4, TablesOfNone
<1>6. \A t \in Turn : Injective(req'[t].attn \o req'[t].state)
  <2>1. Injective(<< >> \o << >>)
      BY DEF Injective
  <2> QED BY <1>4, <2>1
<1>7. TablesExact'
  <2>1. \A t \in Turn : Len(req'[t].attn) = 0
      BY <1>4
  <2> QED BY <2>1 DEF TablesExact
<1>8. StateComputed'
    BY <1>4 DEF StateComputed
<1> QED BY <1>1, <1>3, <1>5, <1>6, <1>7, <1>8

\* A running turn is preempted: it waits with nothing.
LEMMA StepPreempt ==
    ASSUME EInv, NEW r \in Turn, Preempt(r)
    PROVE  EInv'
<1> DEFINE a == req[r].attn
           s == Reclaimed(r)
           x == [NewReq EXCEPT !.phase = "waiting", !.known = Len(a) + 1]
<1>1. /\ UNCHANGED <<content, copyPins, transfer, resets>>
      /\ frame = IdleFrame /\ Send(0, << >>) /\ req[r].phase = "running"
      /\ pool' = Freed(Freed(Relieved(r), Reverse(a)), Reverse(s))
      /\ entry' = IF Releases(r) THEN NoEntry ELSE entry
      /\ req' = [req EXCEPT ![r] = x]
    BY DEF Preempt
<1>2. /\ a \in Seq(Block) /\ Injective(a)
      /\ ToSet(a) \cap ToSet(req[r].state) = {}
    BY <1>1, RunsAlone DEF EInv
<1>3. s \in Seq(Block) /\ Injective(s) /\ ToSet(s) \subseteq ToSet(req[r].state)
    BY <1>1, SnapshotsSplit DEF EInv
<1>4. /\ x \in Request /\ x.phase = "waiting" /\ x.attn = << >> /\ x.state = << >>
  <2>1. Len(a) + 1 \in Nat /\ 0 \in 0..Len(End)
      BY <1>2, EndAssumption
  <2>2. x = [phase |-> "waiting", attn |-> << >>, state |-> << >>, lease |-> 0,
             known |-> Len(a) + 1]
    <3> DEFINE k == Len(a) + 1
               y == [NewReq EXCEPT !.phase = "waiting"]
    <3>1. y = [phase |-> "waiting", attn |-> << >>, state |-> << >>, lease |-> 0, known |-> 0]
        BY DEF NewReq
    <3>2. x = [y EXCEPT !.known = k]
        BY DEF NewReq
    <3> HIDE DEF x, y, k
    <3>3. x = [phase |-> "waiting", attn |-> << >>, state |-> << >>, lease |-> 0, known |-> k]
        BY <3>1, <3>2
    <3> QED BY <3>3 DEF k
  <2>3. << >> \in Seq(Block)
      OBVIOUS
  <2> HIDE DEF a, x
  <2> QED BY <2>1, <2>2, <2>3 DEF Request
<1> HIDE DEF x
<1>5. /\ req' \in [Turn -> Request] /\ OneTurn' /\ TablesOf(req') = {}
      /\ \A t \in Turn : Injective(req'[t].attn \o req'[t].state)
      /\ TablesExact' /\ StateComputed'
    BY <1>1, <1>4, TurnEmptied
<1>6. /\ frame' \in Frame /\ pending' \in Seq(Copy)
      /\ frame'.turn = 0 /\ frame'.cow = << >>
      /\ entry' = NoEntry \/ entry' \in Endpoint
      /\ Injective(Append(entry'.attn, entry'.state))
      /\ FrameFits' /\ OneCopy' /\ CopyPrivate' /\ EntryState' /\ EntryExact'
  <2>1. << >> \in Seq(Block) /\ 0 \in {0} \cup Turn
      OBVIOUS
  <2>2. \A c \in Copies : c.dst \notin TablesOf(req')
      BY <1>5
  <2>3. copyPins' = copyPins /\ content' = content /\ (entry' = entry \/ entry' = NoEntry)
      BY <1>1
  <2> QED BY <1>1, <2>1, <2>2, <2>3, SendFacts
<1>7. EndTypeOK'
    BY <1>1, <1>5, <1>6 DEF EInv, EndTypeOK
<1>8. NoneTwice'
    BY <1>5, <1>6, ShortLists DEF NoneTwice
<1>9. RefsAre'
  <2>1. PinnedBy(entry') = PinnedAfter(r)
      BY <1>1 DEF PinnedBy, PinnedAfter
  <2>2. ToSet(frame'.cow) = {}
      BY <1>6, ShortLists
  <2>3. Counted(Relieved(r), PinnedAfter(r), ToSet(copyPins), {}, ToSet(a) \cup ToSet(s))
      BY <1>1, RelievedCounted DEF EInv
  <2>4. ToSet(a) \cap ToSet(s) = {}
      BY <1>2, <1>3
  <2> HIDE DEF a, s
  <2>5. Counted(pool', PinnedAfter(r), ToSet(copyPins), {}, {})
      BY <1>1, <1>2, <1>3, <2>3, <2>4, TablesFreed
  <2> QED BY <1>1, <1>5, <2>1, <2>2, <2>5 DEF RefsAre
<1>10. FreshOutputs' /\ StepStarts'
    BY <1>6, NothingComputed
<1> QED BY <1>5, <1>6, <1>7, <1>8, <1>9, <1>10 DEF EInv

\* A turn is cancelled between frames; the endpoint and a copy stay.
LEMMA StepCancel ==
    ASSUME EInv, NEW r \in Turn, Cancel(r)
    PROVE  EInv'
<1> DEFINE x == [NewReq EXCEPT !.phase = "done"]
<1>1. /\ UNCHANGED <<content, entry, pending, copyPins, frame, transfer, resets>>
      /\ frame = IdleFrame /\ req[r].phase \in {"waiting", "running"}
      /\ pool' = Released(pool, r) /\ req' = [req EXCEPT ![r] = x]
    BY DEF Cancel
<1>2. x \in Request /\ x.phase = "done" /\ x.attn = << >> /\ x.state = << >>
  <2>1. 0 \in 0..Len(End) /\ << >> \in Seq(Block)
      BY EndAssumption
  <2>2. x = [phase |-> "done", attn |-> << >>, state |-> << >>, lease |-> 0, known |-> 0]
      BY DEF NewReq
  <2> HIDE DEF x
  <2> QED BY <2>1, <2>2 DEF Request
<1> HIDE DEF x
<1>3. /\ req' \in [Turn -> Request] /\ OneTurn' /\ TablesOf(req') = {}
      /\ \A t \in Turn : Injective(req'[t].attn \o req'[t].state)
      /\ TablesExact' /\ StateComputed'
    BY <1>1, <1>2, TurnEmptied
<1>4. EndTypeOK'
    BY <1>1, <1>3 DEF EInv, EndTypeOK
<1>5. FrameFits' /\ OneCopy' /\ Copies' = Copies /\ ToMake' = ToMake
  <2>1. frame.turn = 0
      BY <1>1 DEF IdleFrame
  <2> QED BY <1>1, <2>1 DEF EInv, FrameFits, OneCopy, Copies, ToMake
<1>6. CopyPrivate' /\ NoneTwice' /\ EntryState' /\ EntryExact'
    BY <1>1, <1>3, <1>5 DEF EInv, CopyPrivate, NoneTwice, EntryState, EntryExact
<1>7. RefsAre'
  <2> DEFINE a == req[r].attn
             s == req[r].state
  <2>1. /\ a \in Seq(Block) /\ s \in Seq(Block) /\ Injective(a) /\ Injective(s)
        /\ ToSet(a) \cap ToSet(s) = {} /\ TablesOf(req) = ToSet(a) \cup ToSet(s)
      BY <1>1, ActiveTables DEF EInv
  <2>2. pool' = Freed(Freed(pool, Reverse(a)), Reverse(s))
      BY <1>1 DEF Released
  <2> HIDE DEF a, s
  <2>3. Counted(pool', PinnedBy(entry), ToSet(copyPins), ToSet(frame.cow), {})
      BY <2>1, <2>2, TablesFreed DEF EInv, RefsAre
  <2> QED BY <1>1, <1>3, <2>3 DEF RefsAre
<1>8. FreshOutputs' /\ StepStarts'
  <2>1. frame'.turn = 0
      BY <1>1 DEF IdleFrame
  <2> QED BY <2>1, NothingComputed
<1> QED BY <1>3, <1>4, <1>5, <1>6, <1>7, <1>8 DEF EInv

\* A step is scheduled: the turn's tables a and s grow by the two new blocks n1
\* and n2, and its inputs are the endpoint's or its own.
LEMMA StepScheduled ==
    ASSUME EInv, frame = IdleFrame,
           NEW r \in Turn, req[r].phase \in {"waiting", "running"},
           NEW w \in Seq(Block), Injective(w), Send(r, w),
           UNCHANGED <<content, copyPins, transfer, resets>>,
           entry' = entry \/ entry' = NoEntry,
           NEW a \in Seq(Block), NEW s \in Seq(Block), Injective(a), Injective(s),
           ToSet(a) \cap ToSet(s) = {},
           NEW n1 \in Block, NEW n2 \in Block, n1 # n2,
           {n1, n2} \cap (ToSet(a) \cup ToSet(s) \cup PinnedBy(entry') \cup ToSet(copyPins)
                            \cup ToSet(w)) = {},
           \A c \in Copies : c.dst \notin ToSet(a) \cup ToSet(s),
           Counted(pool', PinnedBy(entry'), ToSet(copyPins), ToSet(w),
                   (ToSet(a) \cup ToSet(s)) \cup {n1, n2}),
           req' \in [Turn -> Request], \A t \in Turn \ {r} : req'[t] = req[t],
           req'[r].phase = "running",
           req'[r].attn = Append(a, n1), req'[r].state = Append(s, n2),
           \A i \in 1..Len(a) : Holds(content, a[i], i, r),
           FromEntry(r)' \/ FromState(r)'
    PROVE  EInv'
<1> DEFINE A == Append(a, n1)
           S == Append(s, n2)
<1>1. /\ A \in Seq(Block) /\ A # << >> /\ ToSet(A) = ToSet(a) \cup {n1} /\ Injective(A)
      /\ Last(A) = n1 /\ Len(A) = Len(a) + 1 /\ \A i \in 1..Len(a) : A[i] = a[i]
    BY Appended, SMTT(30)
<1>2. /\ S \in Seq(Block) /\ S # << >> /\ ToSet(S) = ToSet(s) \cup {n2} /\ Injective(S)
      /\ Last(S) = n2
    BY Appended, SMTT(30)
<1>3. req'[r].attn = A /\ req'[r].state = S
    OBVIOUS
<1> HIDE DEF A, S
<1>4. \A t \in Turn \ {r} : /\ req'[t].attn = << >> /\ req'[t].state = << >>
                            /\ req'[t].phase # "running"
    BY ActiveTables DEF EInv
<1>5. TablesOf(req') = (ToSet(a) \cup ToSet(s)) \cup {n1, n2}
  <2>1. TablesOf(req') = ToSet(req'[r].attn) \cup ToSet(req'[r].state)
    <3>1. req'[r].attn \in Seq(Block) /\ req'[r].state \in Seq(Block)
        BY <1>1, <1>2, <1>3
    <3>2. \A t \in Turn \ {r} : req'[t].attn = << >> /\ req'[t].state = << >>
        BY <1>4
    <3> DEFINE q == req'
    <3>3. q[r].attn \in Seq(Block) /\ q[r].state \in Seq(Block)
          /\ \A t \in Turn \ {r} : q[t].attn = << >> /\ q[t].state = << >>
        BY <3>1, <3>2
    <3> HIDE DEF q
    <3>4. TablesOf(q) = ToSet(q[r].attn) \cup ToSet(q[r].state)
        BY <3>3, TablesOfOne
    <3> QED BY <3>4 DEF q
  <2> QED BY <1>1, <1>2, <1>3, <2>1
<1>6. ToSet(A) \cap ToSet(S) = {}
    BY <1>1, <1>2
<1>7. \A t \in Turn : Injective(req'[t].attn \o req'[t].state)
  <2>1. Injective(A \o S)
      BY <1>1, <1>2, <1>6, Joined
  <2>2. Injective(<< >> \o << >>)
      BY DEF Injective
  <2> QED BY <1>3, <1>4, <2>1, <2>2
<1>8. OneTurn'
    BY <1>1, <1>2, <1>3, OneTurnKept DEF EInv
<1>9. \A c \in Copies : c.dst \notin TablesOf(req')
  <2>1. \A c \in Copies : c.dst \in ToSet(copyPins)
      BY CopyPinned DEF EInv
  <2> QED BY <1>5, <2>1
<1>10. /\ frame' \in Frame /\ pending' \in Seq(Copy)
       /\ frame'.at = "worker" /\ frame'.turn = r /\ frame'.cow = w
       /\ entry' = NoEntry \/ entry' \in Endpoint
       /\ Injective(Append(entry'.attn, entry'.state))
       /\ FrameFits' /\ OneCopy' /\ CopyPrivate' /\ EntryState' /\ EntryExact'
  <2>1. r \in {0} \cup Turn
      OBVIOUS
  <2>2. copyPins' = copyPins /\ content' = content
      OBVIOUS
  <2> QED BY <1>9, <2>1, <2>2, SendFacts
<1>11. EndTypeOK'
    BY <1>10 DEF EInv, EndTypeOK
<1>12. NoneTwice'
    BY <1>7, <1>10 DEF NoneTwice
<1>13. RefsAre'
    BY <1>5, <1>10 DEF RefsAre
<1>14. \A t \in Turn : Computing(t)' <=> t = r
    BY <1>10 DEF Computing
<1>15. FreshOutputs'
    BY <1>1, <1>2, <1>3, <1>10, <1>14 DEF FreshOutputs
<1>16. StateComputed'
    BY <1>4, <1>14 DEF StateComputed
<1>17. StepStarts'
    BY <1>14 DEF StepStarts
<1>18. TablesExact'
  <2>1. ASSUME NEW t \in Turn \ {r} PROVE Len(req'[t].attn) = 0
      BY <1>4
  <2>2. \A i \in 1..(Len(req'[r].attn) - 1) : Holds(content', req'[r].attn[i], i, r)
    <3>1. Len(a) \in Nat /\ Len(req'[r].attn) - 1 = Len(a)
        BY <1>1, <1>3
    <3> QED BY <3>1, <1>1, <1>3
  <2> QED BY <1>14, <2>1, <2>2 DEF TablesExact
<1> QED BY <1>8, <1>10, <1>11, <1>12, <1>13, <1>15, <1>16, <1>17, <1>18 DEF EInv

\* Two blocks from the queue: nobody had them, and the tables have them now.
LEMMA TwoTaken ==
    ASSUME NEW p, NEW P, NEW C, NEW W, NEW T, Counted(p, P, C, W, T), Fits(p, 2)
    PROVE  /\ p.free[1] \in Block /\ p.free[2] \in Block /\ p.free[1] # p.free[2]
           /\ p.free[1] \notin P \cup C \cup W \cup T
           /\ p.free[2] \notin P \cup C \cup W \cup T
           /\ Counted(Taken(p, 2), P, C, W, T \cup {p.free[1], p.free[2]})
           /\ SubSeq(p.free, 1, 2)[1] = p.free[1] /\ SubSeq(p.free, 1, 2)[2] = p.free[2]
<1>1. GoodPool(p) /\ 2 \in {1, 2} /\ 1 \in 1..2 /\ 2 \in 1..2
    BY DEF Counted
<1>2. /\ ToSet(SubSeq(p.free, 1, 2)) = {p.free[1], p.free[2]}
      /\ \A i \in 1..2 : /\ SubSeq(p.free, 1, 2)[i] = p.free[i]
                         /\ p.free[i] \in Block /\ p.ref[p.free[i]] = 0
      /\ p.free[1] # p.free[2]
    BY <1>1, TakenFacts
<1> DEFINE new == {p.free[1], p.free[2]}
<1>3. Taken(p, 2) = Touch(p, new)
    BY <1>2 DEF Taken
<1>4. Unowned(p, new)
    BY <1>1, <1>2 DEF Unowned
<1> HIDE DEF new
<1>5. /\ \A b \in new : b \notin P \cup C \cup W \cup T
      /\ Counted(Touch(p, new), P, C, W, T \cup new)
    BY <1>4, CountedTaken
<1> QED BY <1>1, <1>2, <1>3, <1>5 DEF new

\* One block from the queue: nobody had it, and the one who touches it has it.
LEMMA OneTaken ==
    ASSUME NEW p, NEW P, NEW C, NEW W, NEW T, Counted(p, P, C, W, T), Fits(p, 1)
    PROVE  /\ Head(p.free) \in Block /\ Head(p.free) \notin P \cup C \cup W \cup T
           /\ Counted(Taken(p, 1), P, C, W \cup {Head(p.free)}, T)
<1>1. GoodPool(p) /\ 1 \in {1, 2} /\ 1 \in 1..1
    BY DEF Counted
<1>2. /\ ToSet(SubSeq(p.free, 1, 1)) = {p.free[1]}
      /\ p.free[1] \in Block /\ p.ref[p.free[1]] = 0
      /\ Head(p.free) = p.free[1]
    BY <1>1, TakenFacts
<1> DEFINE new == {p.free[1]}
<1>3. Taken(p, 1) = Touch(p, new)
    BY <1>2 DEF Taken
<1>4. Unowned(p, new)
    BY <1>2 DEF Unowned
<1> HIDE DEF new
<1>5. /\ \A b \in new : b \notin P \cup C \cup W \cup T
      /\ Counted(Touch(p, new), P, C, W \cup new, T)
    BY <1>4, CountedTaken
<1> QED BY <1>2, <1>3, <1>5 DEF new

\* A running turn gets the blocks of its next step.
LEMMA StepGrow ==
    ASSUME EInv, NEW r \in Turn, Grow(r)
    PROVE  EInv'
<1> DEFINE relief == ~Fits(pool, 2)
           p == IF relief THEN Relieved(r) ELSE pool
           a == req[r].attn
           s == IF relief THEN Reclaimed(r) ELSE req[r].state
           n1 == p.free[1]
           n2 == p.free[2]
<1>1. /\ frame = IdleFrame /\ req[r].phase = "running" /\ Fits(p, 2)
      /\ pool' = Taken(p, 2) /\ Send(r, << >>)
      /\ entry' = IF relief /\ Releases(r) THEN NoEntry ELSE entry
      /\ UNCHANGED <<content, copyPins, transfer, resets>>
    BY DEF Grow
<1>2. /\ a \in Seq(Block) /\ a # << >> /\ Injective(a)
      /\ req[r].state \in Seq(Block) /\ req[r].state # << >> /\ Injective(req[r].state)
      /\ ToSet(a) \cap ToSet(req[r].state) = {}
      /\ TablesOf(req) = ToSet(a) \cup ToSet(req[r].state)
    BY <1>1, RunsAlone DEF EInv
<1>3. /\ s \in Seq(Block) /\ s # << >> /\ Injective(s) /\ Last(s) = Last(req[r].state)
      /\ ToSet(s) \subseteq ToSet(req[r].state)
    BY <1>1, <1>2, SnapshotsSplit DEF EInv
<1>4. Counted(p, PinnedBy(entry'), ToSet(copyPins), {}, ToSet(a) \cup ToSet(s))
  <2>1. CASE relief
    <3>1. PinnedBy(entry') = PinnedAfter(r)
        BY <1>1, <2>1 DEF PinnedBy, PinnedAfter
    <3> QED BY <1>1, <2>1, <3>1, RelievedCounted DEF EInv
  <2>2. CASE ~relief
    <3>1. ToSet(frame.cow) = {}
        BY <1>1, ShortLists DEF IdleFrame
    <3> QED BY <1>1, <1>2, <2>2, <3>1 DEF EInv, RefsAre
  <2> QED BY <2>1, <2>2
<1>5. /\ req' = [req EXCEPT ![r].attn = Append(@, n1), ![r].state = Append(s, n2),
                            ![r].lease = IF relief THEN 0 ELSE @]
    BY DEF Grow
<1>6. entry' = entry \/ entry' = NoEntry
    BY <1>1
<1> HIDE DEF relief, p, s
<1>7. /\ n1 \in Block /\ n2 \in Block /\ n1 # n2
      /\ {n1, n2} \cap (ToSet(a) \cup ToSet(s) \cup PinnedBy(entry') \cup ToSet(copyPins)
                          \cup ToSet(<< >>)) = {}
      /\ Counted(pool', PinnedBy(entry'), ToSet(copyPins), ToSet(<< >>),
                 (ToSet(a) \cup ToSet(s)) \cup {n1, n2})
  <2> HIDE DEF a
  <2>1. /\ n1 \in Block /\ n2 \in Block /\ n1 # n2
        /\ {n1, n2} \cap (PinnedBy(entry') \cup ToSet(copyPins) \cup {}
                            \cup (ToSet(a) \cup ToSet(s))) = {}
        /\ Counted(Taken(p, 2), PinnedBy(entry'), ToSet(copyPins), {},
                   (ToSet(a) \cup ToSet(s)) \cup {n1, n2})
    <3> DEFINE P == PinnedBy(entry')
               C == ToSet(copyPins)
               W == {}
               T == ToSet(a) \cup ToSet(s)
    <3>1. Counted(p, P, C, W, T) /\ Fits(p, 2)
        BY <1>1, <1>4
    <3> HIDE DEF P, C, W, T, n1, n2
    <3>2. n1 \in Block /\ n2 \in Block /\ n1 # n2
        BY <3>1, TwoTaken DEF n1, n2
    <3>4. n1 \notin P \cup C \cup W \cup T /\ n2 \notin P \cup C \cup W \cup T
        BY <3>1, TwoTaken DEF n1, n2
    <3>3. Counted(Taken(p, 2), P, C, W, T \cup {n1, n2})
        BY <3>1, TwoTaken DEF n1, n2
    <3> QED BY <3>2, <3>3, <3>4 DEF P, C, W, T
  <2> HIDE DEF n1, n2
  <2>2. ToSet(<< >>) = {}
      BY ShortLists
  <2>3. {n1, n2} \cap (ToSet(a) \cup ToSet(s) \cup PinnedBy(entry') \cup ToSet(copyPins)
                         \cup {}) = {}
      BY <2>1
  <2>4. pool' = Taken(p, 2)
      BY <1>1
  <2> QED BY <2>1, <2>2, <2>3, <2>4
<1> HIDE DEF n1, n2
<1>8. /\ req' \in [Turn -> Request] /\ \A t \in Turn \ {r} : req'[t] = req[t]
      /\ req'[r].phase = "running"
      /\ req'[r].attn = Append(a, n1) /\ req'[r].state = Append(s, n2)
  <2>1. Append(a, n1) \in Seq(Block) /\ Append(s, n2) \in Seq(Block) /\ 0 \in 0..Len(End)
      BY <1>2, <1>3, <1>7, Appended, EndAssumption
  <2> DEFINE l == IF relief THEN 0 ELSE req[r].lease
             y == [req[r] EXCEPT !.attn = Append(a, n1), !.state = Append(s, n2), !.lease = l]
  <2>2. req \in [Turn -> Request] /\ req[r] \in Request
      BY DEF EInv, EndTypeOK
  <2>3. l \in 0..Len(End)
      BY <2>1, <2>2 DEF Request
  <2>4. req' = [req EXCEPT ![r] = y]
      BY <1>5, <2>2
  <2> HIDE DEF l
  <2>5. /\ y \in Request /\ y.phase = req[r].phase
        /\ y.attn = Append(a, n1) /\ y.state = Append(s, n2)
      BY <2>1, <2>2, <2>3 DEF Request
  <2> HIDE DEF y
  <2> QED BY <1>1, <2>2, <2>4, <2>5
<1>9. \A c \in Copies : c.dst \notin ToSet(a) \cup ToSet(s)
    BY <1>2, <1>3 DEF EInv, CopyPrivate
<1>10. ~Computing(r)
  <2>1. frame.at = "idle"
      BY <1>1 DEF IdleFrame
  <2> QED BY <2>1 DEF Computing
<1>11. \A i \in 1..Len(a) : Holds(content, a[i], i, r)
    BY <1>10 DEF EInv, TablesExact
<1>12. FromState(r)'
  <2>1. frame'.cow = << >>
      BY <1>1 DEF Send
  <2> DEFINE S == Append(s, n2)
  <2> HIDE DEF a
  <2>2. Len(Append(a, n1)) = Len(a) + 1 /\ Len(a) \in Nat
      BY <1>2, <1>7
  <2>3. /\ Len(S) = Len(s) + 1 /\ Len(s) \in Nat \ {0} /\ \A i \in 1..Len(s) : S[i] = s[i]
      BY <1>3, <1>7
  <2>4. Last(s) = s[Len(s)]
      BY DEF Last
  <2> HIDE DEF S
  <2>5. Len(S) > 1 /\ Len(S) - 1 = Len(s) /\ S[Len(s)] = s[Len(s)]
      BY <2>3
  <2>6. content[Last(req[r].state)] = <<r, Len(a)>>
      BY <1>1, <1>10 DEF EInv, StateComputed, a
  <2>7. Len(req'[r].attn) - 1 = Len(a) /\ req'[r].state = S
      BY <1>8, <2>2 DEF S
  <2>8. content'[S[Len(S) - 1]] = <<r, Len(a)>>
      BY <1>1, <1>3, <2>4, <2>5, <2>6
  <2> QED BY <2>1, <2>5, <2>7, <2>8 DEF FromState
<1>13. << >> \in Seq(Block) /\ Injective(<< >>)
    BY ShortLists
<1>14. ToSet(a) \cap ToSet(s) = {}
    BY <1>2, <1>3
<1>15. frame = IdleFrame /\ req[r].phase \in {"waiting", "running"} /\ Send(r, << >>)
       /\ UNCHANGED <<content, copyPins, transfer, resets>>
    BY <1>1
<1> HIDE DEF a
<1> QED BY <1>2, <1>3, <1>6, <1>7, <1>8, <1>9, <1>11, <1>12, <1>13, <1>14, <1>15, StepScheduled

\* The blocks of one owner are shared out between a reader and a table.
LEMMA CountedShared ==
    ASSUME NEW p, NEW P, NEW C, NEW W, NEW T, NEW X,
           Counted(p, P, C, X, {}), X = W \cup T, W \cap T = {}
    PROVE  Counted(p, P, C, W, T)
<1>1. \A b \in Block : p.ref[b] = One(b, P) + One(b, C) + One(b, X) + One(b, {})
    BY DEF Counted
<1>2. ASSUME NEW b \in Block
      PROVE  p.ref[b] = One(b, P) + One(b, C) + One(b, W) + One(b, T)
  <2>1. One(b, X) = One(b, W) + One(b, T) /\ One(b, {}) = 0
      BY DEF One
  <2>2. One(b, P) \in {0, 1} /\ One(b, C) \in {0, 1} /\ One(b, W) \in {0, 1} /\ One(b, T) \in {0, 1}
      BY DEF One
  <2> QED BY <1>1, <2>1, <2>2
<1> QED BY <1>2 DEF Counted

\* What an admitted request is.
LEMMA AdmittedRequest ==
    ASSUME EInv, NEW r \in Turn, NEW a \in Seq(Block), NEW s \in Seq(Block),
           req' = [req EXCEPT ![r] = [phase |-> "running", lease |-> Lease(r),
                                      known |-> req[r].known, state |-> s, attn |-> a]]
    PROVE  /\ req' \in [Turn -> Request] /\ \A t \in Turn \ {r} : req'[t] = req[t]
           /\ req'[r].phase = "running" /\ req'[r].attn = a /\ req'[r].state = s
<1>1. req \in [Turn -> Request] /\ req[r].known \in Nat
    BY DEF EInv, EndTypeOK, Request
<1>2. Lease(r) \in 0..Len(End)
  <2>1. 0 \in 0..Len(End) /\ \A q \in Turn : q \in 0..Len(End)
      BY EndAssumption DEF Turn
  <2>2. Matches(r) => entry.turn \in Turn
      BY ChainFacts DEF Matches
  <2> QED BY <2>1, <2>2 DEF Lease
<1> DEFINE x == [phase |-> "running", lease |-> Lease(r), known |-> req[r].known,
                 state |-> s, attn |-> a]
<1>3. x \in Request /\ x.phase = "running" /\ x.attn = a /\ x.state = s
    BY <1>1, <1>2 DEF Request
<1>4. req' = [req EXCEPT ![r] = x]
    OBVIOUS
<1> HIDE DEF x
<1> QED BY <1>1, <1>3, <1>4

\* A request is admitted with nothing.
LEMMA StepAdmitAlone ==
    ASSUME EInv, NEW r \in Turn, Admit(r), ~Matches(r)
    PROVE  EInv'
<1> DEFINE relief == ~Fits(pool, Needed(r))
           p == IF relief THEN Relieved(r) ELSE pool
           n1 == p.free[1]
           n2 == p.free[2]
           new == SubSeq(p.free, 1, 2)
<1>1. /\ frame = IdleFrame /\ req[r].phase = "waiting" /\ Fits(p, Needed(r))
      /\ pool' = Taken(p, 2) /\ Send(r, << >>)
      /\ entry' = IF relief /\ Releases(r) THEN NoEntry ELSE entry
      /\ UNCHANGED <<content, copyPins, transfer, resets>>
    BY DEF Admit
<1>2. req' = [req EXCEPT ![r] = [phase |-> "running", lease |-> Lease(r),
                                 known |-> req[r].known, state |-> <<new[2]>>,
                                 attn |-> <<new[1]>>]]
    BY DEF Admit
<1>3. Counted(p, PinnedBy(entry'), ToSet(copyPins), {}, {})
  <2>1. CASE relief
    <3>1. PinnedBy(entry') = PinnedAfter(r)
        BY <1>1, <2>1 DEF PinnedBy, PinnedAfter
    <3> QED BY <1>1, <2>1, <3>1, RelievedCounted DEF EInv
  <2>2. CASE ~relief
    <3>1. ToSet(frame.cow) = {} /\ TablesOf(req) = {}
        BY <1>1, ShortLists, WaitsAlone DEF EInv, IdleFrame
    <3> QED BY <1>1, <2>2, <3>1 DEF EInv, RefsAre
  <2> QED BY <2>1, <2>2
<1>4. entry' = entry \/ entry' = NoEntry
    BY <1>1
<1>5. Needed(r) = req[r].known + 2
    BY DEF Needed
<1> HIDE DEF relief, p
<1>6. Fits(p, 2)
  <2>1. req[r].known \in Nat
      BY DEF EInv, EndTypeOK, Request
  <2>2. Len(p.free) \in Nat
      BY <1>3 DEF Counted, GoodPool, PoolType
  <2> QED BY <1>1, <1>5, <2>1, <2>2 DEF Fits
<1> HIDE DEF n1, n2, new
<1>7. /\ n1 \in Block /\ n2 \in Block /\ n1 # n2
      /\ {n1, n2} \cap (ToSet(<< >>) \cup ToSet(<< >>) \cup PinnedBy(entry') \cup ToSet(copyPins)
                          \cup ToSet(<< >>)) = {}
      /\ Counted(pool', PinnedBy(entry'), ToSet(copyPins), ToSet(<< >>),
                 (ToSet(<< >>) \cup ToSet(<< >>)) \cup {n1, n2})
      /\ new[1] = n1 /\ new[2] = n2
  <2> DEFINE P == PinnedBy(entry')
             C == ToSet(copyPins)
             W == {}
             T == {}
  <2>1. Counted(p, P, C, W, T) /\ Fits(p, 2)
      BY <1>3, <1>6
  <2> HIDE DEF P, C, W, T
  <2>2. n1 \in Block /\ n2 \in Block /\ n1 # n2
      BY <2>1, TwoTaken DEF n1, n2
  <2>3. n1 \notin P \cup C \cup W \cup T /\ n2 \notin P \cup C \cup W \cup T
      BY <2>1, TwoTaken DEF n1, n2
  <2>4. Counted(Taken(p, 2), P, C, W, T \cup {n1, n2})
      BY <2>1, TwoTaken DEF n1, n2
  <2>5. new[1] = n1 /\ new[2] = n2
      BY <2>1, TwoTaken DEF n1, n2, new
  <2>6. ToSet(<< >>) = {} /\ T = {} /\ W = {}
      BY ShortLists DEF T, W
  <2>7. (ToSet(<< >>) \cup ToSet(<< >>)) \cup {n1, n2} = T \cup {n1, n2}
      BY <2>6
  <2>8. {n1, n2} \cap (ToSet(<< >>) \cup ToSet(<< >>) \cup P \cup C \cup ToSet(<< >>)) = {}
      BY <2>3, <2>6
  <2>9. Counted(pool', P, C, ToSet(<< >>), (ToSet(<< >>) \cup ToSet(<< >>)) \cup {n1, n2})
    <3>1. pool' = Taken(p, 2)
        BY <1>1
    <3>2. ToSet(<< >>) = W
        BY <2>6
    <3> QED BY <2>4, <2>7, <3>1, <3>2
  <2> QED BY <2>2, <2>5, <2>8, <2>9 DEF P, C
<1>8. /\ << >> \in Seq(Block) /\ Append(<< >>, n1) = <<n1>> /\ Append(<< >>, n2) = <<n2>>
      /\ <<n1>> \in Seq(Block) /\ <<n2>> \in Seq(Block) /\ Len(<<n1>>) = 1
    BY <1>7
<1>9. /\ req' \in [Turn -> Request] /\ \A t \in Turn \ {r} : req'[t] = req[t]
      /\ req'[r].phase = "running" /\ req'[r].attn = <<n1>> /\ req'[r].state = <<n2>>
    BY <1>2, <1>7, <1>8, AdmittedRequest
<1>10. FromState(r)'
  <2>1. frame'.cow = << >>
      BY <1>1 DEF Send
  <2> QED BY <1>8, <1>9, <2>1 DEF FromState
<1>11. /\ Injective(<< >>) /\ ToSet(<< >>) \cap ToSet(<< >>) = {}
       /\ \A c \in Copies : c.dst \notin ToSet(<< >>) \cup ToSet(<< >>)
       /\ \A i \in 1..Len(<< >>) : Holds(content, << >>[i], i, r)
  <2>1. ToSet(<< >>) = {} /\ Injective(<< >>)
      BY ShortLists
  <2>2. Len(<< >>) = 0
      OBVIOUS
  <2> QED BY <2>1, <2>2
<1>12. frame = IdleFrame /\ req[r].phase \in {"waiting", "running"} /\ Send(r, << >>)
       /\ UNCHANGED <<content, copyPins, transfer, resets>>
    BY <1>1
<1>13. req'[r].attn = Append(<< >>, n1) /\ req'[r].state = Append(<< >>, n2)
    BY <1>8, <1>9
<1> QED BY <1>4, <1>7, <1>8, <1>9, <1>10, <1>11, <1>12, <1>13, StepScheduled, ZenonT(60)

\* A request is admitted with the endpoint's blocks: those before the last go to
\* its table, the last and the state are read by the copy on write.
LEMMA StepAdmitContinuation ==
    ASSUME EInv, NEW r \in Turn, Admit(r), Matches(r)
    PROVE  EInv'
<1> DEFINE a == Front(entry.attn)
           w == <<Last(entry.attn), entry.state>>
           q == Touch(pool, ToSet(Pins))
           n1 == q.free[1]
           n2 == q.free[2]
           new == SubSeq(pool.free, 1, 2)
<1>1. frame = IdleFrame /\ req[r].phase = "waiting"
    BY DEF Admit
<1>2. /\ entry # NoEntry /\ entry \in Endpoint /\ Injective(Append(entry.attn, entry.state))
      /\ entry.turn \in Chain(r)
    BY DEF Matches, EInv, EndTypeOK, NoneTwice
<1>3. /\ entry.attn \in Seq(Block) /\ entry.attn # << >> /\ entry.state \in Block
      /\ PinnedBy(entry) = ToSet(entry.attn) \cup {entry.state} /\ PinnedBy(entry) \subseteq Block
      /\ Injective(entry.attn) /\ entry.state \notin ToSet(entry.attn)
      /\ ToSet(Pins) = PinnedBy(entry)
    BY <1>2, EndpointFacts DEF PinnedBy, Pins
<1>4. /\ a \in Seq(Block) /\ Len(a) = Len(entry.attn) - 1 /\ Len(entry.attn) \in Nat \ {0}
      /\ Last(entry.attn) \in Block
      /\ \A i \in 1..(Len(entry.attn) - 1) : a[i] = entry.attn[i]
      /\ ToSet(entry.attn) = ToSet(a) \cup {Last(entry.attn)}
      /\ Injective(a) /\ Last(entry.attn) \notin ToSet(a)
  <2> DEFINE ea == entry.attn
  <2>1. ea \in Seq(Block) /\ ea # << >> /\ Injective(ea)
      BY <1>3
  <2> HIDE DEF ea
  <2>2. /\ Front(ea) \in Seq(Block) /\ Len(Front(ea)) = Len(ea) - 1
        /\ Last(ea) \in Block /\ Len(ea) \in Nat \ {0}
        /\ \A i \in 1..(Len(ea) - 1) : Front(ea)[i] = ea[i]
        /\ ToSet(ea) = ToSet(Front(ea)) \cup {Last(ea)}
        /\ Injective(Front(ea)) /\ Last(ea) \notin ToSet(Front(ea))
      BY <2>1, Fronted
  <2> QED BY <2>2 DEF ea
<1>5. /\ w \in Seq(Block) /\ Injective(w) /\ ToSet(w) = {Last(entry.attn), entry.state}
  <2>1. Last(entry.attn) # entry.state
      BY <1>3, <1>4
  <2> QED BY <1>3, <1>4, <2>1, ShortLists
<1>6. ~Releases(r) /\ Relieved(r) = pool
    BY <1>1, RelievedCounted DEF EInv
<1>7. /\ pool' = Taken(q, 2) /\ Fits(pool, 2) /\ Send(r, w) /\ entry' = entry
      /\ UNCHANGED <<content, copyPins, transfer, resets>>
      /\ req' = [req EXCEPT ![r] = [phase |-> "running", lease |-> Lease(r),
                                    known |-> req[r].known, state |-> <<new[2]>>,
                                    attn |-> Append(a, new[1])]]
    BY <1>6 DEF Admit, Needed
<1>8. q.free = pool.free /\ Counted(q, PinnedBy(entry), ToSet(copyPins), PinnedBy(entry), {})
  <2>1. ToSet(frame.cow) = {} /\ TablesOf(req) = {}
      BY <1>1, ShortLists, WaitsAlone DEF EInv, IdleFrame
  <2>2. Counted(pool, PinnedBy(entry), ToSet(copyPins), {}, {})
      BY <2>1 DEF EInv, RefsAre
  <2> DEFINE P == PinnedBy(entry)
             C == ToSet(copyPins)
             W == {}
  <2>3. P \in SUBSET Block /\ q = Touch(pool, P) /\ P \cap W = {} /\ P = W \cup P
      BY <1>3
  <2>4. Counted(pool, P, C, W, W)
      BY <2>2
  <2>5. P \subseteq P \cup C \cup W \cup W
      OBVIOUS
  <2> HIDE DEF P, C, W, q
  <2>6. q.free = pool.free
      BY <2>3, <2>4, <2>5, TouchKeepsFree
  <2>7. Counted(Touch(pool, P), P, C, W \cup P, W)
      BY <2>3, <2>4, CountedTouch
  <2> QED BY <2>3, <2>6, <2>7 DEF P, C, W
<1>9. Counted(q, PinnedBy(entry), ToSet(copyPins), ToSet(w), ToSet(a))
  <2>1. /\ PinnedBy(entry) = ToSet(w) \cup ToSet(a) /\ ToSet(w) \cap ToSet(a) = {}
      BY <1>3, <1>4, <1>5
  <2> HIDE DEF a, w, q
  <2> QED BY <1>8, <2>1, CountedShared
<1> HIDE DEF q, w, a, n1, n2, new
<1>10. Fits(q, 2)
    BY <1>7, <1>8 DEF Fits
<1>11. /\ n1 \in Block /\ n2 \in Block /\ n1 # n2
       /\ {n1, n2} \cap (ToSet(a) \cup ToSet(<< >>) \cup PinnedBy(entry') \cup ToSet(copyPins)
                           \cup ToSet(w)) = {}
       /\ Counted(pool', PinnedBy(entry'), ToSet(copyPins), ToSet(w),
                  (ToSet(a) \cup ToSet(<< >>)) \cup {n1, n2})
       /\ new[1] = n1 /\ new[2] = n2
  <2> DEFINE P == PinnedBy(entry)
             C == ToSet(copyPins)
             W == ToSet(w)
             T == ToSet(a)
  <2>1. Counted(q, P, C, W, T) /\ Fits(q, 2)
      BY <1>9, <1>10
  <2>2. PinnedBy(entry') = P
      BY <1>7
  <2> HIDE DEF P, C, W, T
  <2>3. n1 \in Block /\ n2 \in Block /\ n1 # n2
      BY <2>1, TwoTaken DEF n1, n2
  <2>4. n1 \notin P \cup C \cup W \cup T /\ n2 \notin P \cup C \cup W \cup T
      BY <2>1, TwoTaken DEF n1, n2
  <2>5. Counted(Taken(q, 2), P, C, W, T \cup {n1, n2})
      BY <2>1, TwoTaken DEF n1, n2
  <2>6. SubSeq(q.free, 1, 2)[1] = n1 /\ SubSeq(q.free, 1, 2)[2] = n2
      BY <2>1, TwoTaken DEF n1, n2
  <2>7. new[1] = n1 /\ new[2] = n2
      BY <2>6, <1>8 DEF new
  <2>8. ToSet(<< >>) = {}
      BY ShortLists
  <2>9. (T \cup ToSet(<< >>)) \cup {n1, n2} = T \cup {n1, n2}
      BY <2>8
  <2>10. {n1, n2} \cap (T \cup ToSet(<< >>) \cup P \cup C \cup W) = {}
      BY <2>4, <2>8
  <2>11. Counted(pool', P, C, W, (T \cup ToSet(<< >>)) \cup {n1, n2})
    <3>1. pool' = Taken(q, 2)
        BY <1>7
    <3> QED BY <2>5, <2>9, <3>1
  <2> QED BY <2>2, <2>3, <2>7, <2>10, <2>11 DEF P, C, W, T
<1>12. /\ << >> \in Seq(Block) /\ Append(<< >>, n2) = <<n2>>
       /\ <<n2>> \in Seq(Block) /\ Append(a, n1) \in Seq(Block)
       /\ Len(Append(a, n1)) = Len(a) + 1
       /\ \A i \in 1..Len(a) : Append(a, n1)[i] = a[i]
    BY <1>4, <1>11, Appended
<1>13. /\ req' \in [Turn -> Request] /\ \A t \in Turn \ {r} : req'[t] = req[t]
       /\ req'[r].phase = "running" /\ req'[r].attn = Append(a, n1) /\ req'[r].state = <<n2>>
    BY <1>7, <1>11, <1>12, AdmittedRequest
<1>14. FromEntry(r)'
  <2>1. Matches(r)'
      BY <1>7 DEF Matches
  <2>2. frame'.cow = <<Last(entry'.attn), entry'.state>>
      BY <1>7 DEF Send, w
  <2>3. Len(req'[r].attn) = Len(entry'.attn)
      BY <1>4, <1>7, <1>12, <1>13
  <2>4. ASSUME NEW i \in 1..(Len(entry.attn) - 1) PROVE req'[r].attn[i] = entry.attn[i]
    <3>1. i \in 1..Len(a)
        BY <1>4
    <3> QED BY <3>1, <1>4, <1>12, <1>13
  <2> QED BY <1>7, <2>1, <2>2, <2>3, <2>4 DEF FromEntry
<1>15. /\ Injective(<< >>) /\ ToSet(a) \cap ToSet(<< >>) = {}
       /\ \A c \in Copies : c.dst \notin ToSet(a) \cup ToSet(<< >>)
  <2>1. ToSet(<< >>) = {} /\ Injective(<< >>)
      BY ShortLists
  <2>2. \A c \in Copies : c.dst \notin ToSet(entry.attn)
      BY DEF EInv, CopyPrivate
  <2> QED BY <1>4, <2>1, <2>2
<1>16. \A i \in 1..Len(a) : Holds(content, a[i], i, r)
  <2> TAKE i \in 1..Len(a)
  <2>1. i \in 1..Len(entry.attn) /\ a[i] = entry.attn[i]
      BY <1>4
  <2>2. Holds(content, entry.attn[i], i, entry.turn)
      BY <1>2, <2>1 DEF EInv, EntryExact
  <2>3. Chain(entry.turn) \subseteq Chain(r)
      BY <1>2, ChainFacts
  <2> QED BY <2>1, <2>2, <2>3 DEF Holds
<1>17. frame = IdleFrame /\ req[r].phase \in {"waiting", "running"} /\ Send(r, w)
       /\ UNCHANGED <<content, copyPins, transfer, resets>>
       /\ (entry' = entry \/ entry' = NoEntry)
    BY <1>1, <1>7
<1>18. req'[r].state = Append(<< >>, n2)
    BY <1>12, <1>13
<1>19. w \in Seq(Block) /\ Injective(w)
    BY <1>5
<1>20. a \in Seq(Block) /\ Injective(a)
    BY <1>4
<1>21. << >> \in Seq(Block)
    OBVIOUS
<1>22. FromEntry(r)' \/ FromState(r)'
    BY <1>14
<1>23. /\ req' \in [Turn -> Request] /\ \A t \in Turn \ {r} : req'[t] = req[t]
       /\ req'[r].phase = "running" /\ req'[r].attn = Append(a, n1)
    BY <1>13
<1>24. n1 \in Block /\ n2 \in Block /\ n1 # n2
    BY <1>11
<1>25. {n1, n2} \cap (ToSet(a) \cup ToSet(<< >>) \cup PinnedBy(entry') \cup ToSet(copyPins)
                         \cup ToSet(w)) = {}
    BY <1>11
<1>26. Counted(pool', PinnedBy(entry'), ToSet(copyPins), ToSet(w),
               (ToSet(a) \cup ToSet(<< >>)) \cup {n1, n2})
    BY <1>11
<1> QED BY <1>23, <1>24, <1>25, <1>26, <1>15, <1>16, <1>17, <1>18, <1>19, <1>20, <1>21, <1>22, StepScheduled

\* What the worker's copies do: a block that is no destination is left alone, and
\* the destination gets the source's data.
LEMMA CopiesMade ==
    ASSUME EInv
    PROVE  /\ \A b \in Block : AfterCopies[b] \in (0..Len(End)) \X Nat
           /\ \A b \in Block : (\A c \in ToSet(frame.copies) : c.dst # b) =>
                AfterCopies[b] = content[b]
           /\ \A c \in ToSet(frame.copies) : AfterCopies[c.dst] = content[c.src]
           /\ \A c \in ToSet(frame.copies) : c \in Copy
<1>1. content \in [Block -> (0..Len(End)) \X Nat]
    BY DEF EInv, EndTypeOK
<1>2. PICK cs \in SUBSET Copy :
        /\ ToSet(frame.copies) = cs
        /\ cs = {} \/ \E c \in Copy : cs = {c}
  <2>1. ToSet(frame.copies) = {} \/ \E c \in Copy : ToSet(frame.copies) = {c}
      BY ShortLists DEF EInv, OneCopy
  <2> QED BY <2>1
<1>3. \A c \in cs : c \in Copy /\ c.src \in Block /\ c.dst \in Block
    BY DEF Copy
<1> DEFINE Into(b) == {c \in cs : c.dst = b}
<1>4. ASSUME NEW b \in Block
      PROVE  AfterCopies[b] = IF Into(b) = {} THEN content[b]
                                              ELSE content[(CHOOSE c \in Into(b) : TRUE).src]
    BY <1>2 DEF AfterCopies
<1>5. \A b \in Block : (\A c \in cs : c.dst # b) => Into(b) = {}
    OBVIOUS
<1>6. ASSUME NEW c \in cs PROVE Into(c.dst) = {c}
    BY <1>2
<1> HIDE DEF Into
<1>7. \A b \in Block : (\A c \in cs : c.dst # b) => AfterCopies[b] = content[b]
    BY <1>4, <1>5
<1>8. ASSUME NEW c \in cs PROVE AfterCopies[c.dst] = content[c.src]
  <2>1. AfterCopies[c.dst] = IF Into(c.dst) = {} THEN content[c.dst]
                             ELSE content[(CHOOSE d \in Into(c.dst) : TRUE).src]
      BY <1>3, <1>4
  <2>2. (CHOOSE d \in {c} : TRUE) = c
      OBVIOUS
  <2>3. Into(c.dst) = {c} /\ Into(c.dst) # {}
      BY <1>6
  <2> QED BY <2>1, <2>2, <2>3
<1>9. ASSUME NEW b \in Block PROVE AfterCopies[b] \in (0..Len(End)) \X Nat
  <2>1. CASE \A c \in cs : c.dst # b
      BY <2>1, <1>1, <1>7
  <2>2. ASSUME NEW c \in cs, c.dst = b PROVE AfterCopies[b] \in (0..Len(End)) \X Nat
      BY <2>2, <1>1, <1>3, <1>8
  <2> QED BY <2>1, <2>2
<1> QED BY <1>2, <1>3, <1>7, <1>8, <1>9

\* The step's inputs are what the request believes.
LEMMA InputsAreExact ==
    ASSUME EInv, frame.at = "worker", NEW r \in Turn, frame.turn = r
    PROVE  InputsExact(r)
<1> DEFINE a == req[r].attn
           s == req[r].state
           n == Len(a)
<1>1. /\ Computing(r) /\ req[r].phase = "running"
      /\ a \in Seq(Block) /\ a # << >> /\ s \in Seq(Block) /\ s # << >>
      /\ TablesOf(req) = ToSet(a) \cup ToSet(s)
  <2>1. Computing(r) /\ r # 0
      BY EndAssumption DEF Computing, Turn
  <2>2. req[r].phase = "running"
      BY <2>1 DEF EInv, FrameFits
  <2> QED BY <2>1, <2>2, RunsAlone DEF EInv
<1>2. /\ n \in Nat \ {0} /\ Front(a) \in Seq(Block) /\ Len(Front(a)) = n - 1
      /\ \A i \in 1..(n - 1) : Front(a)[i] = a[i]
      /\ \A i \in 1..n : a[i] \in ToSet(a) /\ a[i] \in Block
  <2> HIDE DEF a
  <2>1. /\ n \in Nat \ {0} /\ Front(a) \in Seq(Block) /\ Len(Front(a)) = n - 1
        /\ \A i \in 1..(n - 1) : Front(a)[i] = a[i]
      BY <1>1, Fronted
  <2>2. \A i \in 1..n : a[i] \in ToSet(a) /\ a[i] \in Block
      BY <1>1 DEF ToSet
  <2> QED BY <2>1, <2>2
<1>3. ToSet(frame.copies) \subseteq Copies /\ ToMake = ToSet(frame.copies)
    BY DEF Copies, ToMake
<1>4. \A c \in ToSet(frame.copies) : c.dst \notin TablesOf(req) /\ c.dst \notin ToSet(entry.attn)
    BY <1>3 DEF EInv, CopyPrivate
<1>5. \A b \in Block : b \in TablesOf(req) \/ b \in ToSet(entry.attn) =>
                         AfterCopies[b] = content[b]
    BY <1>4, CopiesMade
<1>6. ASSUME NEW i \in 1..(n - 1) PROVE Holds(AfterCopies, a[i], i, r)
  <2>1. Holds(content, a[i], i, r)
      BY <1>1 DEF EInv, TablesExact
  <2>2. i \in 1..n
      BY <1>2
  <2>3. AfterCopies[a[i]] = content[a[i]]
      BY <1>1, <1>2, <1>5, <2>2
  <2> QED BY <2>1, <2>3 DEF Holds
<1>7. CASE FromEntry(r)
  <2>1. /\ entry # NoEntry /\ entry \in Endpoint /\ entry.turn \in Chain(r)
        /\ frame.cow = <<Last(entry.attn), entry.state>> /\ frame.cow # << >>
        /\ n = Len(entry.attn)
      BY <1>7 DEF FromEntry, Matches, EInv, EndTypeOK
  <2>2. /\ entry.attn \in Seq(Block) /\ entry.state \in Block /\ Last(entry.attn) = entry.attn[n]
        /\ n \in 1..n /\ entry.attn[n] \in ToSet(entry.attn) /\ entry.attn[n] \in Block
    <3>1. entry.attn \in Seq(Block) /\ entry.state \in Block
        BY <2>1, EndpointFacts
    <3>2. n \in 1..n /\ Last(entry.attn) = entry.attn[n]
        BY <1>2, <2>1 DEF Last
    <3> QED BY <2>1, <3>1, <3>2 DEF ToSet
  <2>3. Chain(entry.turn) \subseteq Chain(r)
      BY <2>1, ChainFacts
  <2>4. Holds(AfterCopies, entry.attn[n], n, r)
    <3>1. Holds(content, entry.attn[n], n, entry.turn)
        BY <2>1, <2>2 DEF EInv, EntryExact
    <3>2. AfterCopies[entry.attn[n]] = content[entry.attn[n]]
        BY <1>5, <2>2
    <3> QED BY <2>3, <3>1, <3>2 DEF Holds
  <2>5. AfterCopies[entry.state] = <<entry.turn, n>>
    <3>1. CASE ToSet(frame.copies) = {}
      <4>1. content[entry.state] = <<entry.turn, n>>
          BY <1>3, <2>1, <3>1 DEF EInv, EntryState
      <4> QED BY <2>2, <3>1, <4>1, CopiesMade
    <3>2. ASSUME NEW c \in ToSet(frame.copies) PROVE AfterCopies[entry.state] = <<entry.turn, n>>
      <4>1. c.dst = entry.state /\ content[c.src] = <<entry.turn, n>>
          BY <1>3, <2>1 DEF EInv, EntryState
      <4> QED BY <4>1, CopiesMade
    <3> QED BY <3>1, <3>2
  <2>6. Holds(AfterCopies, entry.state, n, r)
      BY <2>1, <2>5 DEF Holds
  <2> DEFINE b == Append(Front(a), frame.cow[1])
  <2>7. frame.cow[1] = entry.attn[n] /\ frame.cow[2] = entry.state
      BY <2>1, <2>2
  <2>8. /\ \A i \in 1..(n - 1) : b[i] = a[i]
        /\ b[n] = entry.attn[n]
    <3>1. frame.cow[1] \in Block
        BY <2>2, <2>7
    <3> DEFINE f == Front(a)
               e == frame.cow[1]
    <3>2. f \in Seq(Block) /\ e \in Block /\ Len(f) = n - 1 /\ \A i \in 1..(n - 1) : f[i] = a[i]
        BY <1>2, <3>1
    <3> HIDE DEF f, e
    <3>3. /\ \A i \in 1..Len(f) : Append(f, e)[i] = f[i]
          /\ Append(f, e)[Len(f) + 1] = e
        BY <3>2, Appended
    <3>4. Len(f) + 1 = n
        BY <1>2, <3>2
    <3> QED BY <2>7, <3>2, <3>3, <3>4 DEF f, e
  <2> HIDE DEF b
  <2>9. \A i \in 1..n : Holds(AfterCopies, b[i], i, r)
    <3> TAKE i \in 1..n
    <3>1. i \in 1..(n - 1) \/ i = n
        BY <1>2
    <3>2. i \in 1..(n - 1) => Holds(AfterCopies, b[i], i, r)
        BY <1>6, <2>8
    <3>3. i = n => Holds(AfterCopies, b[i], i, r)
        BY <2>4, <2>8
    <3> QED BY <3>1, <3>2, <3>3
  <2> QED BY <2>1, <2>6, <2>7, <2>9 DEF InputsExact, b
<1>8. CASE FromState(r)
  <2>1. frame.cow = << >>
      BY <1>8 DEF FromState
  <2>2. \A i \in 1..(n - 1) : Holds(AfterCopies, Front(a)[i], i, r)
      BY <1>2, <1>6
  <2>3. ASSUME n - 1 > 0 PROVE Holds(AfterCopies, s[Len(s) - 1], n - 1, r)
    <3>1. Len(s) > 1 /\ content[s[Len(s) - 1]] = <<r, n - 1>>
        BY <1>2, <1>8, <2>3 DEF FromState
    <3>2. s[Len(s) - 1] \in ToSet(s) /\ s[Len(s) - 1] \in Block
      <4>1. Len(s) - 1 \in 1..Len(s)
          BY <1>1, <3>1
      <4> QED BY <1>1, <4>1 DEF ToSet
    <3>3. AfterCopies[s[Len(s) - 1]] = <<r, n - 1>>
        BY <1>1, <1>5, <3>1, <3>2
    <3>4. r \in Chain(r)
        BY ChainFacts
    <3> QED BY <3>3, <3>4 DEF Holds
  <2> QED BY <2>1, <2>2, <2>3 DEF InputsExact
<1> QED BY <1>1, <1>7, <1>8 DEF EInv, StepStarts

\* The worker's step: the copies are made, and the step's results go into blocks
\* that nobody else needs.
LEMMA StepWork ==
    ASSUME EInv, Work
    PROVE  EInv'
<1> DEFINE r == frame.turn
           n == Len(req[r].attn)
           data == IF r # 0 /\ InputsExact(r) THEN <<r, n>> ELSE Junk
           computed == IF r = 0 THEN {} ELSE {Last(req[r].attn), Last(req[r].state)}
<1>1. /\ frame.at = "worker"
      /\ content' = [b \in Block |-> IF b \in computed THEN data ELSE AfterCopies[b]]
      /\ transfer' = Stored
      /\ frame' = [frame EXCEPT !.at = "output"]
      /\ UNCHANGED <<pool, req, entry, pending, copyPins, resets>>
    BY DEF Work
<1>2. /\ frame \in Frame /\ frame.at # "idle" /\ pending = << >>
      /\ r \in {0} \cup Turn /\ (r # 0 => req[r].phase = "running")
    BY <1>1 DEF EInv, EndTypeOK, Frame, FrameFits
<1>3. /\ frame' \in Frame /\ frame'.at = "output" /\ frame'.turn = r
      /\ frame'.copies = frame.copies /\ frame'.cow = frame.cow
    BY <1>1, <1>2, SMTT(30) DEF Frame
<1>4. \A t \in Turn : t # 0
    BY EndAssumption DEF Turn
\* What the turn of the step has.
<1>5. ASSUME r # 0
      PROVE  /\ r \in Turn /\ Computing(r) /\ data = <<r, n>>
             /\ computed = {Last(req[r].attn), Last(req[r].state)} /\ computed \subseteq Block
             /\ computed \subseteq TablesOf(req)
             /\ computed \cap PinnedBy(entry) = {}
             /\ n \in Nat \ {0} /\ Last(req[r].attn) = req[r].attn[n]
             /\ \A i \in 1..(n - 1) : req[r].attn[i] \notin computed
             /\ \A t \in Turn \ {r} : req[t].attn = << >> /\ req[t].phase # "running"
             /\ r \in 0..Len(End)
  <2>1. r \in Turn /\ Computing(r) /\ req[r].phase = "running" /\ r \in 0..Len(End)
      BY <1>1, <1>2, <1>5, EndAssumption DEF Computing, Turn
  <2>2. InputsExact(r)
      BY <1>1, <2>1, InputsAreExact
  <2> DEFINE a == req[r].attn
             s == req[r].state
  <2>3. /\ a \in Seq(Block) /\ a # << >> /\ s \in Seq(Block) /\ s # << >>
        /\ TablesOf(req) = ToSet(a) \cup ToSet(s)
        /\ Injective(a) /\ ToSet(a) \cap ToSet(s) = {}
        /\ \A t \in Turn \ {r} : req[t].attn = << >> /\ req[t].phase # "running"
      BY <2>1, RunsAlone DEF EInv
  <2>4. data = <<r, n>> /\ computed = {Last(a), Last(s)}
      BY <1>5, <2>2
  <2>5. computed \cap PinnedBy(entry) = {}
      BY <2>1, <2>4 DEF EInv, FreshOutputs
  <2> HIDE DEF a, s, data, computed
  <2>6. /\ Len(a) \in Nat \ {0} /\ Last(a) = a[Len(a)] /\ Last(a) \in ToSet(a) /\ Last(a) \in Block
        /\ \A i \in 1..(Len(a) - 1) : a[i] \in ToSet(a) /\ a[i] # Last(a)
    <3>1. Len(a) \in Nat \ {0} /\ Last(a) \in Block /\ ToSet(a) = ToSet(Front(a)) \cup {Last(a)}
        BY <2>3, Fronted
    <3>2. Last(a) = a[Len(a)]
        BY DEF Last
    <3>3. Len(a) \in 1..Len(a) /\ \A i \in 1..(Len(a) - 1) : i \in 1..Len(a) /\ i # Len(a)
        BY <3>1
    <3>4. DOMAIN a = 1..Len(a)
        BY <2>3
    <3> QED BY <2>3, <3>1, <3>2, <3>3, <3>4 DEF ToSet, Injective
  <2>7. Last(s) \in ToSet(s) /\ Last(s) \in Block
    <3>1. Last(s) \in Block /\ ToSet(s) = ToSet(Front(s)) \cup {Last(s)}
        BY <2>3, Fronted
    <3> QED BY <3>1
  <2>8. n = Len(a)
      BY DEF a
  <2>9. \A i \in 1..(n - 1) : a[i] \notin computed
      BY <2>3, <2>4, <2>6, <2>7, <2>8
  <2>10. computed \subseteq Block /\ computed \subseteq TablesOf(req)
      BY <2>3, <2>4, <2>6, <2>7
  <2> QED BY <2>1, <2>3, <2>4, <2>5, <2>6, <2>8, <2>9, <2>10 DEF a, s
<1>6. r = 0 => computed = {}
    OBVIOUS
<1>7. data \in (0..Len(End)) \X Nat
  <2>1. r # 0 => data = <<r, n>> /\ r \in 0..Len(End) /\ n \in Nat
      BY <1>5
  <2>2. r = 0 => data = Junk
      OBVIOUS
  <2>3. Junk \in (0..Len(End)) \X Nat
      BY EndAssumption DEF Junk
  <2> HIDE DEF data
  <2> QED BY <2>1, <2>2, <2>3
<1> HIDE DEF data, computed, n, r
\* Where the data go.
<1>8. /\ content' \in [Block -> (0..Len(End)) \X Nat]
      /\ \A b \in computed : b \in Block => content'[b] = data
      /\ \A b \in Block \ computed : content'[b] = AfterCopies[b]
  <2>1. \A b \in Block : AfterCopies[b] \in (0..Len(End)) \X Nat
      BY CopiesMade
  <2>2. content' \in [Block -> (0..Len(End)) \X Nat]
      BY <1>1, <1>7, <2>1
  <2> QED BY <1>1, <2>2
<1>9. ToMake = ToSet(frame.copies) /\ ToMake' = {} /\ Copies' = Copies
      /\ ToSet(frame.copies) \subseteq Copies
    BY <1>1, <1>2, <1>3, ShortLists DEF ToMake, Copies
<1>10. \A b \in Block \ computed : b \in TablesOf(req) \/ b \in ToSet(entry.attn) =>
                                     content'[b] = content[b]
  <2>1. \A c \in ToSet(frame.copies) : c.dst \notin TablesOf(req) /\ c.dst \notin ToSet(entry.attn)
      BY <1>9 DEF EInv, CopyPrivate
  <2> QED BY <1>8, <2>1, CopiesMade
<1>11. EndTypeOK'
  <2>1. transfer' \subseteq Block
    <3>1. \A c \in ToSet(frame.copies) : c.dst \in Block /\ c.tail \in Block
        BY CopiesMade DEF Copy
    <3>2. transfer \subseteq Block
        BY DEF EInv, EndTypeOK
    <3> QED BY <1>1, <3>1, <3>2 DEF Stored
  <2> QED BY <1>1, <1>3, <1>8, <2>1 DEF EInv, EndTypeOK
<1>12. OneTurn' /\ NoneTwice' /\ RefsAre' /\ OneCopy' /\ CopyPrivate'
    BY <1>1, <1>3, <1>9 DEF EInv, OneTurn, NoneTwice, RefsAre, OneCopy, CopyPrivate
<1>13. FrameFits'
  <2>1. frame' # IdleFrame
      BY <1>3 DEF IdleFrame
  <2> QED BY <1>1, <1>2, <1>3, <2>1 DEF EInv, FrameFits
<1>14. \A t \in Turn : ~Computing(t)'
    BY <1>3 DEF Computing
<1>15. FreshOutputs' /\ StepStarts'
    BY <1>14 DEF FreshOutputs, StepStarts
<1>16. ASSUME NEW t \in Turn, NEW i \in 1..Len(req[t].attn)
       PROVE  Holds(content', req[t].attn[i], i, t)
  <2>1. req[t].attn[i] \in TablesOf(req) /\ req[t].attn[i] \in Block
      BY PlacesOwned
  <2>2. CASE r = 0
    <3>1. ~Computing(t)
        BY <1>4, <2>2 DEF Computing, r
    <3>2. Holds(content, req[t].attn[i], i, t)
        BY <3>1 DEF EInv, TablesExact
    <3>3. content'[req[t].attn[i]] = content[req[t].attn[i]]
        BY <1>6, <1>10, <2>1, <2>2
    <3> QED BY <3>2, <3>3 DEF Holds
  <2>3. CASE r # 0 /\ t # r
    <3>1. req[t].attn = << >>
        BY <1>5, <2>3
    <3> QED BY <3>1
  <2>4. CASE r # 0 /\ t = r
    <3>1. /\ n \in Nat \ {0} /\ n = Len(req[t].attn)
          /\ req[r].attn[n] \in computed /\ computed \subseteq Block /\ data = <<r, n>>
          /\ \A j \in 1..(n - 1) : req[r].attn[j] \notin computed
        BY <1>5, <2>4 DEF n
    <3>2. CASE i = n
      <4>1. content'[req[t].attn[i]] = <<r, n>>
          BY <1>8, <2>4, <3>1, <3>2
      <4>2. t \in Chain(t)
          BY ChainFacts
      <4> QED BY <2>4, <3>2, <4>1, <4>2 DEF Holds
    <3>3. CASE i # n
      <4>1. i \in 1..(n - 1)
          BY <3>1, <3>3
      <4>2. Holds(content, req[t].attn[i], i, t)
          BY <1>5, <2>4, <3>1, <4>1 DEF EInv, TablesExact
      <4>3. content'[req[t].attn[i]] = content[req[t].attn[i]]
          BY <1>10, <2>1, <2>4, <3>1, <4>1
      <4> QED BY <4>2, <4>3 DEF Holds
    <3> QED BY <3>2, <3>3
  <2> QED BY <2>2, <2>3, <2>4
<1>17. TablesExact'
    BY <1>1, <1>14, <1>16 DEF TablesExact
<1>18. StateComputed'
  <2>1. ASSUME NEW t \in Turn, req[t].phase = "running"
        PROVE  content'[Last(req[t].state)] = <<t, Len(req[t].attn)>>
    <3>1. CASE r = 0
      <4>1. ~Computing(t)
          BY <1>4, <3>1 DEF Computing, r
      <4>2. content[Last(req[t].state)] = <<t, Len(req[t].attn)>>
          BY <2>1, <4>1 DEF EInv, StateComputed
      <4>3. Last(req[t].state) \in TablesOf(req) /\ Last(req[t].state) \in Block
          BY <2>1, PlacesOwned
      <4> QED BY <1>6, <1>10, <3>1, <4>2, <4>3
    <3>2. CASE r # 0
      <4>1. t = r /\ Last(req[r].state) \in computed /\ computed \subseteq Block
            /\ data = <<r, Len(req[r].attn)>>
          BY <1>5, <2>1, <3>2 DEF n
      <4> QED BY <1>8, <4>1
    <3> QED BY <3>1, <3>2
  <2> QED BY <1>1, <2>1 DEF StateComputed
<1>19. \A b \in PinnedBy(entry) : b \notin computed
    BY <1>5, <1>6
<1>20. EntryExact'
  <2>1. ASSUME entry # NoEntry, NEW i \in 1..Len(entry.attn)
        PROVE  Holds(content', entry.attn[i], i, entry.turn)
    <3>1. entry.attn[i] \in PinnedBy(entry) /\ entry.attn[i] \in Block
        BY <2>1, PlacesOwned
    <3>2. entry.attn[i] \in ToSet(entry.attn)
      <4>1. entry.attn \in Seq(Block)
          BY <2>1, EndpointFacts DEF EInv, EndTypeOK
      <4> QED BY <4>1 DEF ToSet
    <3>3. content'[entry.attn[i]] = content[entry.attn[i]]
        BY <1>10, <1>19, <3>1, <3>2
    <3>4. Holds(content, entry.attn[i], i, entry.turn)
        BY <2>1 DEF EInv, EntryExact
    <3> QED BY <3>3, <3>4 DEF Holds
  <2> QED BY <1>1, <2>1 DEF EntryExact
<1>21. EntryState'
  <2>1. ASSUME entry # NoEntry PROVE content'[entry.state] = <<entry.turn, Len(entry.attn)>>
    <3>1. entry.state \in Block /\ entry.state \notin computed
        BY <1>19, <2>1, PlacesOwned
    <3>2. content'[entry.state] = AfterCopies[entry.state]
        BY <1>8, <3>1
    <3>3. CASE ToSet(frame.copies) = {}
      <4>1. content[entry.state] = <<entry.turn, Len(entry.attn)>>
          BY <1>9, <2>1, <3>3 DEF EInv, EntryState
      <4> QED BY <3>1, <3>2, <3>3, <4>1, CopiesMade
    <3>4. ASSUME NEW c \in ToSet(frame.copies)
          PROVE  content'[entry.state] = <<entry.turn, Len(entry.attn)>>
      <4>1. c.dst = entry.state /\ content[c.src] = <<entry.turn, Len(entry.attn)>>
          BY <1>9, <2>1 DEF EInv, EntryState
      <4> QED BY <3>2, <4>1, CopiesMade
    <3> QED BY <3>3, <3>4
  <2> QED BY <1>1, <1>9, <2>1 DEF EntryState
<1> QED BY <1>11, <1>12, <1>13, <1>15, <1>17, <1>18, <1>20, <1>21 DEF EInv

\* The output of a frame is there: nothing is computed, and no copy is to be made.
LEMMA OutputTaken ==
    ASSUME EInv, frame.at = "output", frame' = IdleFrame
    PROVE  /\ frame' \in Frame /\ frame'.at = "idle" /\ frame'.turn = 0
           /\ frame'.copies = << >> /\ frame'.cow = << >>
           /\ pending = << >> /\ ToMake = {}
           /\ \A t \in Turn : ~Computing(t) /\ ~Computing(t)'
           /\ FrameFits' /\ FreshOutputs' /\ StepStarts'
<1>1. /\ frame'.at = "idle" /\ frame'.turn = 0 /\ frame'.copies = << >> /\ frame'.cow = << >>
    BY DEF IdleFrame
<1>2. frame' \in Frame
    BY DEF IdleFrame, Frame
<1>3. pending = << >>
    BY DEF EInv, FrameFits
<1>4. ToMake = {}
    BY <1>3, ShortLists DEF ToMake
<1>5. \A t \in Turn : ~Computing(t)
    BY DEF Computing
<1>6. FrameFits'
    BY <1>1 DEF FrameFits
<1> QED BY <1>1, <1>2, <1>3, <1>4, <1>5, <1>6, NothingComputed

\* The turn whose response ends, and the pool once its step is completed.
LEMMA TurnEnds ==
    ASSUME EInv, frame.at = "output", Ends
    PROVE  /\ frame.turn \in Turn /\ req[frame.turn].phase = "running"
           /\ Counted(Completed, PinnedBy(entry), {}, {},
                      ToSet(req[frame.turn].attn) \cup ToSet(req[frame.turn].state))
<1>1. frame.turn \in Turn /\ req[frame.turn].phase = "running"
    BY DEF EInv, EndTypeOK, Frame, FrameFits, Ends
<1>2. TablesOf(req) = ToSet(req[frame.turn].attn) \cup ToSet(req[frame.turn].state)
    BY <1>1, RunsAlone DEF EInv
<1>3. Counted(Completed, PinnedBy(entry), {}, {}, TablesOf(req))
    BY CompletedCounted DEF EInv
<1> QED BY <1>1, <1>2, <1>3

\* A step that is not the last of its response.
LEMMA StepStepDone ==
    ASSUME EInv, StepDone
    PROVE  EInv'
<1>1. /\ frame.at = "output" /\ frame' = IdleFrame
      /\ pool' = Completed /\ copyPins' = PinsLeft
      /\ UNCHANGED <<content, req, entry, pending, transfer, resets>>
    BY DEF StepDone
<1>2. /\ frame' \in Frame /\ frame'.at = "idle" /\ frame'.turn = 0
      /\ frame'.copies = << >> /\ frame'.cow = << >>
      /\ pending = << >> /\ ToMake = {}
      /\ \A t \in Turn : ~Computing(t) /\ ~Computing(t)'
      /\ FrameFits' /\ FreshOutputs' /\ StepStarts'
    BY <1>1, OutputTaken
<1>3. /\ Counted(pool', PinnedBy(entry), {}, {}, TablesOf(req)) /\ copyPins' = << >>
    BY <1>1, CompletedCounted DEF EInv
<1>4. copyPins' \in Seq(Block) /\ ToSet(copyPins') = {} /\ ToSet(frame'.cow) = {}
      /\ Injective(frame'.cow)
    BY <1>2, <1>3, ShortLists
<1>5. EndTypeOK' /\ OneTurn' /\ NoneTwice'
    BY <1>1, <1>2, <1>4 DEF EInv, EndTypeOK, OneTurn, NoneTwice
<1>6. RefsAre'
    BY <1>1, <1>3, <1>4 DEF RefsAre
<1>7. OneCopy' /\ Copies' = {} /\ ToMake' = {}
    BY <1>1, <1>2, <1>3, ShortLists DEF OneCopy, Copies, ToMake
<1>8. CopyPrivate'
    BY <1>7 DEF CopyPrivate
<1>9. EntryState' /\ EntryExact'
    BY <1>1, <1>2, <1>7 DEF EInv, EntryState, EntryExact
<1>10. TablesExact' /\ StateComputed'
    BY <1>1, <1>2 DEF EInv, TablesExact, StateComputed
<1> QED BY <1>2, <1>5, <1>6, <1>7, <1>8, <1>9, <1>10 DEF EInv

\* A turn that is over.
LEMMA DoneRequest ==
    LET x == [NewReq EXCEPT !.phase = "done"]
    IN x \in Request /\ x.phase = "done" /\ x.attn = << >> /\ x.state = << >>
<1> DEFINE x == [NewReq EXCEPT !.phase = "done"]
<1>1. 0 \in 0..Len(End) /\ << >> \in Seq(Block)
    BY EndAssumption
<1>2. x = [phase |-> "done", attn |-> << >>, state |-> << >>, lease |-> 0, known |-> 0]
    BY DEF NewReq
<1> HIDE DEF x
<1>3. x \in Request /\ x.phase = "done" /\ x.attn = << >> /\ x.state = << >>
    BY <1>1, <1>2 DEF Request
<1> QED BY <1>3 DEF x

\* A response ends and its end is not kept; the older one is.
LEMMA StepEndForgotten ==
    ASSUME EInv, EndForgotten
    PROVE  EInv'
<1> DEFINE r == frame.turn
           x == [NewReq EXCEPT !.phase = "done"]
           a == req[r].attn
           s == req[r].state
<1>1. /\ frame.at = "output" /\ Ends /\ frame' = IdleFrame
      /\ pool' = Released(Completed, r) /\ copyPins' = PinsLeft
      /\ req' = [req EXCEPT ![r] = x]
      /\ UNCHANGED <<content, entry, pending, transfer, resets>>
    BY DEF EndForgotten
<1>2. /\ r \in Turn /\ req[r].phase = "running"
      /\ Counted(Completed, PinnedBy(entry), {}, {}, ToSet(a) \cup ToSet(s))
    BY <1>1, TurnEnds
<1>3. /\ frame' \in Frame /\ frame'.at = "idle" /\ frame'.turn = 0
      /\ frame'.copies = << >> /\ frame'.cow = << >>
      /\ pending = << >> /\ ToMake = {}
      /\ \A t \in Turn : ~Computing(t) /\ ~Computing(t)'
      /\ FrameFits' /\ FreshOutputs' /\ StepStarts'
    BY <1>1, OutputTaken
<1>4. x \in Request /\ x.phase = "done" /\ x.attn = << >> /\ x.state = << >>
    BY DoneRequest
<1>5. /\ a \in Seq(Block) /\ s \in Seq(Block) /\ Injective(a) /\ Injective(s)
      /\ ToSet(a) \cap ToSet(s) = {}
    BY <1>2, RunsAlone DEF EInv
<1>6. pool' = Freed(Freed(Completed, Reverse(a)), Reverse(s))
    BY <1>1 DEF Released
<1> HIDE DEF x, r
<1>7. /\ req' \in [Turn -> Request] /\ OneTurn' /\ TablesOf(req') = {}
      /\ \A t \in Turn : Injective(req'[t].attn \o req'[t].state)
      /\ TablesExact' /\ StateComputed'
    BY <1>1, <1>2, <1>4, TurnEmptied
<1> HIDE DEF a, s
<1>8. Counted(pool', PinnedBy(entry), {}, {}, {})
    BY <1>2, <1>5, <1>6, TablesFreed
<1>9. copyPins' = << >>
    BY <1>1, CompletedCounted DEF EInv
<1>10. copyPins' \in Seq(Block) /\ ToSet(copyPins') = {} /\ ToSet(frame'.cow) = {}
       /\ Injective(frame'.cow)
    BY <1>3, <1>9, ShortLists
<1>11. EndTypeOK' /\ NoneTwice'
    BY <1>1, <1>3, <1>7, <1>10 DEF EInv, EndTypeOK, NoneTwice
<1>12. RefsAre'
    BY <1>1, <1>7, <1>8, <1>10 DEF RefsAre
<1>13. OneCopy' /\ Copies' = {} /\ ToMake' = {}
    BY <1>1, <1>3, <1>9, ShortLists DEF OneCopy, Copies, ToMake
<1>14. CopyPrivate'
    BY <1>13 DEF CopyPrivate
<1>15. EntryState' /\ EntryExact'
    BY <1>1, <1>3, <1>13 DEF EInv, EntryState, EntryExact
<1> QED BY <1>3, <1>7, <1>11, <1>12, <1>13, <1>14, <1>15 DEF EInv

\* What one owner had another has now.
LEMMA CountedHandedOn ==
    ASSUME NEW p, NEW C, NEW X, NEW T, Counted(p, {}, C, X, T)
    PROVE  Counted(p, X, C, {}, T)
<1>1. \A b \in Block : p.ref[b] = One(b, {}) + One(b, C) + One(b, X) + One(b, T)
    BY DEF Counted
<1>2. ASSUME NEW b \in Block
      PROVE  p.ref[b] = One(b, X) + One(b, C) + One(b, {}) + One(b, T)
  <2>1. /\ One(b, {}) = 0
        /\ One(b, C) \in {0, 1} /\ One(b, X) \in {0, 1} /\ One(b, T) \in {0, 1}
      BY DEF One
  <2> QED BY <1>1, <2>1
<1> QED BY <1>2 DEF Counted

\* remember: a fresh state block for the endpoint, pinned for it and for the copy
\* like its source, and the older endpoint and the tables given back.
LEMMA Remembered ==
    ASSUME EInv, frame.at = "output", Ends, Fits(Completed, 1),
           NEW r \in Turn, frame.turn = r,
           NEW fresh, fresh = Head(Completed.free),
           NEW source, source = Last(req[r].state)
    PROVE  /\ fresh \in Block /\ source \in Block /\ source # fresh
           /\ fresh \notin ToSet(req[r].attn)
           /\ Counted(Released(Cleared(Capture(Completed, r)), r),
                      ToSet(req[r].attn) \cup {fresh}, {source, fresh}, {}, {})
<1> DEFINE a == req[r].attn
           s == req[r].state
           P == PinnedBy(entry)
           T == ToSet(a) \cup ToSet(s)
           c1 == Taken(Completed, 1)
           c2 == Touch(c1, ToSet(a))
           c3 == Touch(c2, {source, fresh})
           c4 == Cleared(c3)
<1>1. req[r].phase = "running" /\ Counted(Completed, P, {}, {}, T)
    BY TurnEnds
<1>2. /\ a \in Seq(Block) /\ s \in Seq(Block) /\ s # << >> /\ Injective(a) /\ Injective(s)
      /\ ToSet(a) \cap ToSet(s) = {}
    BY <1>1, RunsAlone DEF EInv
<1>3. Capture(Completed, r) = c3
    BY DEF Capture
<1>4. Released(c4, r) = Freed(Freed(c4, Reverse(a)), Reverse(s))
    BY DEF Released
<1> HIDE DEF a, s
<1>5. source \in Block /\ source \in ToSet(s) /\ ToSet(a) \in SUBSET Block
  <2>1. Last(s) \in Block /\ ToSet(s) = ToSet(Front(s)) \cup {Last(s)}
      BY <1>2, Fronted
  <2>2. source = Last(s)
      BY DEF s
  <2> QED BY <1>2, <2>1, <2>2 DEF ToSet
<1> DEFINE E == {}
<1>6. Counted(Completed, P, E, E, T)
    BY <1>1
<1> HIDE DEF P, c1, c2, c3, c4
<1>7. fresh \in Block /\ fresh \notin T /\ Counted(c1, P, E, E \cup {fresh}, T)
  <2> HIDE DEF E, T
  <2>1. fresh \in Block
      BY <1>6, OneTaken
  <2>2. fresh \notin P \cup E \cup E \cup T
      BY <1>6, OneTaken
  <2>3. Counted(Taken(Completed, 1), P, E, E \cup {fresh}, T)
      BY <1>6, OneTaken
  <2> QED BY <2>1, <2>2, <2>3 DEF c1
<1>8. fresh \notin ToSet(a) /\ source # fresh
    BY <1>5, <1>7
<1> DEFINE W == E \cup {fresh}
           X == W \cup ToSet(a)
           B == {source, fresh}
<1>9. Counted(c2, P, E, X, T)
  <2>1. ToSet(a) \cap W = {}
      BY <1>8
  <2>2. Counted(c1, P, E, W, T)
      BY <1>7
  <2> HIDE DEF E, T, W
  <2>3. Counted(Touch(c1, ToSet(a)), P, E, W \cup ToSet(a), T)
      BY <1>5, <2>1, <2>2, CountedTouch
  <2> QED BY <2>3 DEF c2
<1>10. Counted(c3, P, B, X, T)
  <2>1. B \cap E = {} /\ B \in SUBSET Block /\ E \cup B = B
      BY <1>5, <1>7
  <2> HIDE DEF E, T, X, B
  <2>2. Counted(Touch(c2, B), P, E \cup B, X, T)
      BY <1>9, <2>1, CountedTouch
  <2>3. c3 = Touch(c2, B)
      BY DEF c3, B
  <2> QED BY <2>1, <2>2, <2>3
<1>11. Counted(c4, E, B, X, T)
  <2> HIDE DEF T, X, B
  <2>1. Counted(c3, PinnedBy(entry), B, X, T)
      BY <1>10 DEF P
  <2>2. Counted(Cleared(c3), {}, B, X, T)
      BY <2>1, ClearedCounted DEF EInv
  <2> QED BY <2>2 DEF c4
<1>12. Counted(Freed(Freed(c4, Reverse(a)), Reverse(s)), E, B, X, {})
  <2>1. Counted(c4, E, B, X, ToSet(a) \cup ToSet(s))
      BY <1>11
  <2> HIDE DEF E, B, X, T
  <2> QED BY <1>2, <2>1, TablesFreed
<1>13. Counted(Freed(Freed(c4, Reverse(a)), Reverse(s)), X, B, {}, {})
  <2> DEFINE q == Freed(Freed(c4, Reverse(a)), Reverse(s))
  <2>1. Counted(q, {}, B, X, {})
      BY <1>12
  <2> HIDE DEF q, B, X
  <2>2. Counted(q, X, B, {}, {})
      BY <2>1, CountedHandedOn
  <2> QED BY <2>2 DEF q
<1>14. X = ToSet(a) \cup {fresh}
    BY DEF W
<1>15. Released(Cleared(Capture(Completed, r)), r) = Freed(Freed(c4, Reverse(a)), Reverse(s))
    BY <1>3, <1>4 DEF c4
<1> HIDE DEF X, T
<1>16. Counted(Released(Cleared(Capture(Completed, r)), r), ToSet(a) \cup {fresh}, B, {}, {})
    BY <1>13, <1>14, <1>15
<1> QED BY <1>5, <1>7, <1>8, <1>16 DEF a

\* A response ends and its end is the endpoint now; a copy of its state is ordered.
LEMMA StepEndRemembered ==
    ASSUME EInv, EndRemembered
    PROVE  EInv'
<1> DEFINE r == frame.turn
           x == [NewReq EXCEPT !.phase = "done"]
           a == req[r].attn
           fresh == Head(Completed.free)
           source == Last(req[r].state)
           c == [src |-> source, dst |-> fresh, tail |-> Last(a)]
           e == [turn |-> r, attn |-> a, state |-> fresh]
<1>1. /\ frame.at = "output" /\ Ends /\ frame' = IdleFrame /\ Fits(Completed, 1)
      /\ entry' = e /\ pending' = Append(pending, c)
      /\ copyPins' = PinsLeft \o <<source, fresh>>
      /\ req' = [req EXCEPT ![r] = x]
      /\ UNCHANGED <<content, transfer, resets>>
    BY DEF EndRemembered
<1>2. pool' = Released(Cleared(Capture(Completed, r)), r)
    BY DEF EndRemembered
<1>3. r \in Turn /\ req[r].phase = "running"
    BY <1>1, TurnEnds
<1>4. /\ frame' \in Frame /\ frame'.at = "idle" /\ frame'.turn = 0
      /\ frame'.copies = << >> /\ frame'.cow = << >>
      /\ pending = << >> /\ ToMake = {}
      /\ \A t \in Turn : ~Computing(t) /\ ~Computing(t)'
      /\ FrameFits' /\ FreshOutputs' /\ StepStarts'
    BY <1>1, OutputTaken
<1>5. x \in Request /\ x.phase = "done" /\ x.attn = << >> /\ x.state = << >>
    BY DoneRequest
<1> HIDE DEF x, r
<1>6. /\ req' \in [Turn -> Request] /\ OneTurn' /\ TablesOf(req') = {}
      /\ \A t \in Turn : Injective(req'[t].attn \o req'[t].state)
      /\ TablesExact' /\ StateComputed'
    BY <1>1, <1>3, <1>5, TurnEmptied
<1>7. a \in Seq(Block) /\ a # << >> /\ Injective(a)
    BY <1>3, RunsAlone DEF EInv
<1>8. /\ fresh \in Block /\ source \in Block /\ source # fresh
      /\ fresh \notin ToSet(a)
      /\ Counted(pool', ToSet(a) \cup {fresh}, {source, fresh}, {}, {})
  <2>1. r = frame.turn
      BY DEF r
  <2> HIDE DEF fresh, source
  <2>2. fresh = Head(Completed.free) /\ source = Last(req[r].state)
      BY DEF fresh, source
  <2>3. /\ fresh \in Block /\ source \in Block /\ source # fresh
        /\ fresh \notin ToSet(req[r].attn)
        /\ Counted(Released(Cleared(Capture(Completed, r)), r),
                   ToSet(req[r].attn) \cup {fresh}, {source, fresh}, {}, {})
      BY <1>1, <1>3, <2>1, <2>2, Remembered
  <2> QED BY <1>2, <2>3
<1>9. content[source] = <<r, Len(a)>>
    BY <1>3, <1>4 DEF EInv, StateComputed
<1>10. \A i \in 1..Len(a) : Holds(content, a[i], i, r)
    BY <1>3, <1>4 DEF EInv, TablesExact
<1> HIDE DEF fresh, source, a
<1>11. Last(a) \in Block
    BY <1>7, Fronted
<1>12. /\ c \in Copy /\ c.src = source /\ c.dst = fresh
    BY <1>8, <1>11 DEF Copy
<1>13. /\ e \in Endpoint /\ e.turn = r /\ e.attn = a /\ e.state = fresh
    BY <1>3, <1>7, <1>8 DEF Endpoint
<1> HIDE DEF c, e
<1>14. PinsLeft = << >>
    BY <1>1, CompletedCounted DEF EInv
<1>15. pending' = <<c>> /\ copyPins' = <<source, fresh>>
    BY <1>1, <1>4, <1>8, <1>12, <1>14
<1>16. /\ pending' \in Seq(Copy) /\ copyPins' \in Seq(Block)
       /\ ToSet(pending') = {c} /\ ToSet(copyPins') = {source, fresh}
       /\ ToSet(frame'.copies) = {} /\ ToSet(frame'.cow) = {} /\ Injective(frame'.cow)
    BY <1>4, <1>8, <1>12, <1>15, ShortLists
<1>17. /\ PinnedBy(entry') = ToSet(a) \cup {fresh}
       /\ Injective(Append(entry'.attn, entry'.state))
    BY <1>1, <1>7, <1>8, <1>13, EndpointFacts
<1>18. EndTypeOK'
    BY <1>1, <1>4, <1>6, <1>13, <1>16 DEF EInv, EndTypeOK
<1>19. NoneTwice'
    BY <1>6, <1>16, <1>17 DEF NoneTwice
<1>20. RefsAre'
    BY <1>6, <1>8, <1>16, <1>17 DEF RefsAre
<1>21. OneCopy'
    BY <1>4, <1>8, <1>12, <1>15 DEF OneCopy
<1>22. Copies' = {c} /\ ToMake' = {c}
    BY <1>4, <1>16 DEF Copies, ToMake
<1>23. CopyPrivate'
    BY <1>1, <1>6, <1>8, <1>12, <1>13, <1>22 DEF CopyPrivate
<1>24. EntryState'
    BY <1>1, <1>9, <1>12, <1>13, <1>22 DEF EntryState
<1>25. EntryExact'
    BY <1>1, <1>10, <1>13 DEF EntryExact
<1> QED BY <1>4, <1>6, <1>18, <1>19, <1>20, <1>21, <1>23, <1>24, <1>25 DEF EInv

-----------------------------------------------------------------------------
(***************************************************************************)
(* The theorems.                                                           *)
(***************************************************************************)
\* Every behaviour starts with the invariant.
LEMMA EInvInit ==
    ASSUME Init
    PROVE  EInv
<1>1. /\ pool = [free |-> [i \in Block |-> i], ref |-> [b \in Block |-> 0]]
      /\ content = [b \in Block |-> Junk] /\ req = [r \in Turn |-> NewReq]
      /\ entry = NoEntry /\ pending = << >> /\ copyPins = << >>
      /\ frame = IdleFrame /\ transfer = {} /\ resets = 0
    BY DEF Init
<1>2. Len(End) \in Nat /\ PoolSize \in Nat
    BY EndAssumption
<1>3. /\ frame.at = "idle" /\ frame.turn = 0 /\ frame.copies = << >> /\ frame.cow = << >>
      /\ frame \in Frame
    BY <1>1 DEF IdleFrame, Frame
<1>4. /\ ToSet(copyPins) = {} /\ ToSet(pending) = {} /\ ToSet(frame.copies) = {}
      /\ ToSet(frame.cow) = {} /\ Injective(frame.cow)
    BY <1>1, <1>3, ShortLists
<1>5. \A r \in Turn : /\ req[r].phase = "new" /\ req[r].attn = << >> /\ req[r].state = << >>
                      /\ req[r] \in Request
    BY <1>1, <1>2 DEF NewReq, Request
<1>6. EndTypeOK
  <2>1. content \in [Block -> (0..Len(End)) \X Nat]
    <3>1. Junk \in (0..Len(End)) \X Nat
        BY <1>2 DEF Junk
    <3> QED BY <1>1, <3>1
  <2>2. req \in [Turn -> Request]
      BY <1>1, <1>5
  <2> QED BY <1>1, <1>3, <2>1, <2>2 DEF EndTypeOK
<1>7. OneTurn
    BY <1>5 DEF OneTurn
<1>8. FrameFits
    BY <1>1, <1>3 DEF FrameFits
<1>9. OneCopy /\ Copies = {} /\ ToMake = {}
    BY <1>1, <1>3, <1>4 DEF OneCopy, Copies, ToMake
<1>10. CopyPrivate
    BY <1>9 DEF CopyPrivate
<1>11. NoneTwice
  <2>1. Injective(<< >> \o << >>)
      BY DEF Injective
  <2>2. entry.attn = << >> /\ entry.state = 0
      BY <1>1 DEF NoEntry
  <2>3. Injective(Append(<< >>, 0))
      BY DEF Injective
  <2> QED BY <1>4, <1>5, <2>1, <2>2, <2>3 DEF NoneTwice
<1>12. RefsAre
  <2>1. TablesOf(req) = {}
      BY <1>5, TablesOfNone
  <2>2. PinnedBy(entry) = {}
      BY <1>1 DEF PinnedBy
  <2> DEFINE f == [i \in 1..PoolSize |-> i]
  <2>3. pool.free = f /\ \A b \in Block : pool.ref[b] = 0
      BY <1>1 DEF Block
  <2>4. pool.ref \in [Block -> Nat] /\ pool = [free |-> pool.free, ref |-> pool.ref]
      BY <1>1
  <2>5. /\ f \in Seq(1..PoolSize) /\ DOMAIN f = 1..PoolSize
        /\ \A i \in 1..PoolSize : f[i] = i
      BY <1>2
  <2> HIDE DEF f
  <2>6. Injective(f) /\ ToSet(f) = Block
      BY <2>5 DEF Injective, ToSet, Block
  <2>7. GoodPool(pool)
      BY <2>3, <2>4, <2>5, <2>6 DEF GoodPool, PoolType, Block
  <2>8. \A b \in Block : pool.ref[b] = One(b, {}) + One(b, {}) + One(b, {}) + One(b, {})
      BY <2>3 DEF One
  <2> QED BY <1>4, <2>1, <2>2, <2>7, <2>8 DEF RefsAre, Counted
<1>13. EntryState /\ EntryExact
    BY <1>1 DEF EntryState, EntryExact
<1>14. \A r \in Turn : ~Computing(r)
    BY <1>3 DEF Computing
<1>15. FreshOutputs /\ StepStarts
    BY <1>14 DEF FreshOutputs, StepStarts
<1>16. StateComputed /\ TablesExact
  <2>1. \A r \in Turn : Len(req[r].attn) = 0
      BY <1>5
  <2> QED BY <1>5, <1>14, <2>1 DEF StateComputed, TablesExact
<1> QED BY <1>6, <1>7, <1>8, <1>9, <1>10, <1>11, <1>12, <1>13, <1>15, <1>16 DEF EInv

\* Every step keeps the invariant.
LEMMA EInvStep ==
    ASSUME EInv, [Next]_vars
    PROVE  EInv'
<1>1. CASE UNCHANGED vars
  <2>1. /\ UNCHANGED <<pool, content, req, entry, pending, copyPins, frame, transfer, resets>>
      BY <1>1 DEF vars
  <2>2. EndTypeOK' /\ OneTurn' /\ FrameFits' /\ OneCopy'
      BY <2>1 DEF EInv, EndTypeOK, OneTurn, FrameFits, OneCopy
  <2>3. CopyPrivate' /\ NoneTwice' /\ RefsAre'
      BY <2>1 DEF EInv, CopyPrivate, Copies, NoneTwice, RefsAre
  <2>4. \A r \in Turn : Computing(r)' <=> Computing(r)
      BY <2>1 DEF Computing
  <2>5. EntryState' /\ FreshOutputs' /\ StateComputed'
      BY <2>1, <2>4 DEF EInv, EntryState, ToMake, FreshOutputs, StateComputed
  <2>6. StepStarts'
      BY <2>1, <2>4 DEF EInv, StepStarts, FromEntry, FromState, Matches
  <2>7. TablesExact' /\ EntryExact'
      BY <2>1, <2>4 DEF EInv, TablesExact, EntryExact
  <2> QED BY <2>2, <2>3, <2>5, <2>6, <2>7 DEF EInv
<1>2. CASE \E r \in Turn : Arrive(r) \/ Cancel(r)
    BY <1>2, StepArrive, StepCancel
<1>3. CASE Schedule
  <2>1. ASSUME NEW r \in Turn, Admit(r) PROVE EInv'
      BY <2>1, StepAdmitAlone, StepAdmitContinuation
  <2>2. ASSUME NEW r \in Turn, AdmitFails(r) \/ Grow(r) \/ Preempt(r) PROVE EInv'
      BY <2>2, StepAdmitFails, StepGrow, StepPreempt
  <2>3. CASE EmptyFrame
      BY <2>3, StepEmptyFrame
  <2> QED BY <1>3, <2>1, <2>2, <2>3 DEF Schedule
<1>4. CASE Work
    BY <1>4, StepWork
<1>5. CASE Update
    BY <1>5, StepStepDone, StepEndForgotten, StepEndRemembered DEF Update
<1>6. CASE Reset \/ Handover \/ TransferDone
    BY <1>6, StepReset, StepHandover, StepTransferDone
<1> QED BY <1>1, <1>2, <1>3, <1>4, <1>5, <1>6 DEF Next

\* The inductive invariant: who owns which block, what the copy under way is of,
\* and where the state of a turn and of the endpoint is.
THEOREM EInvHolds == Spec => []EInv
<1>1. Init => EInv
    BY EInvInit
<1>2. EInv /\ [Next]_vars => EInv'
    BY EInvStep
<1> QED BY <1>1, <1>2, PTL DEF Spec

\* Every variable has its type.
THEOREM EndTypeCorrect == Spec => []EndTypeOK
<1>1. EInv => EndTypeOK
    BY DEF EInv
<1> QED BY <1>1, EInvHolds, PTL

\* A block occurs in a list without repetitions once, if at all.
LEMMA OccursOnce ==
    ASSUME NEW T, NEW s \in Seq(T), Injective(s), NEW b
    PROVE  Occurrences(b, s) = One(b, ToSet(s))
<1> DEFINE I == {i \in DOMAIN s : s[i] = b}
<1>1. CASE b \in ToSet(s)
  <2>1. PICK i \in DOMAIN s : s[i] = b
      BY <1>1 DEF ToSet
  <2>2. I = {i}
      BY <2>1 DEF Injective
  <2> QED BY <1>1, <2>2, FS_Singleton DEF Occurrences, One
<1>2. CASE b \notin ToSet(s)
  <2>1. I = {}
      BY <1>2 DEF ToSet
  <2> QED BY <1>2, <2>1, FS_EmptySet DEF Occurrences, One
<1> QED BY <1>1, <1>2

\* A block is in the tables of the requests once, if at all.
LEMMA HeldOnce ==
    ASSUME EInv, NEW b
    PROVE  Cardinality(Held(b)) = One(b, TablesOf(req))
<1> DEFINE H(r) == {r} \X {i \in DOMAIN HeldBy(r) : HeldBy(r)[i] = b}
<1>1. Held(b) = UNION {H(r) : r \in Turn}
    BY DEF Held
<1>2. \A r \in Turn : Injective(HeldBy(r))
    BY DEF EInv, NoneTwice, HeldBy
<1>3. b \in TablesOf(req) <=> \E r \in Turn : b \in ToSet(HeldBy(r))
    BY DEF TablesOf, HeldBy
<1>4. CASE b \notin TablesOf(req)
  <2>1. \A r \in Turn : H(r) = {}
      BY <1>3, <1>4 DEF ToSet
  <2> HIDE DEF H
  <2>2. Held(b) = {}
      BY <1>1, <2>1
  <2> QED BY <1>4, <2>2, FS_EmptySet DEF One
<1>5. CASE b \in TablesOf(req)
  <2>1. PICK r \in Turn : b \in ToSet(HeldBy(r))
      BY <1>3, <1>5
  <2>2. PICK i \in DOMAIN HeldBy(r) : HeldBy(r)[i] = b
      BY <2>1 DEF ToSet
  <2>3. req[r].phase = "running"
    <3>1. req[r].phase # "running" => HeldBy(r) = << >> \o << >>
        BY DEF EInv, OneTurn, HeldBy
    <3>2. ToSet(<< >> \o << >>) = {}
        BY DEF ToSet
    <3> QED BY <2>1, <3>1, <3>2
  <2>4. H(r) = {<<r, i>>}
    <3>1. {j \in DOMAIN HeldBy(r) : HeldBy(r)[j] = b} = {i}
        BY <1>2, <2>2 DEF Injective
    <3> QED BY <3>1
  <2>5. ASSUME NEW t \in Turn \ {r} PROVE H(t) = {}
    <3>1. req[t].attn = << >> /\ req[t].state = << >>
        BY <2>3, RunsAlone DEF EInv
    <3>2. DOMAIN HeldBy(t) = {}
        BY <3>1 DEF HeldBy
    <3> QED BY <3>2
  <2> HIDE DEF H
  <2>6. Held(b) = {<<r, i>>}
      BY <1>1, <2>4, <2>5
  <2> QED BY <1>5, <2>6, FS_Singleton DEF One
<1> QED BY <1>4, <1>5

\* A list without repetitions is as long as the set of its elements is large.
LEMMA LongAsLarge ==
    ASSUME NEW T, NEW s \in Seq(T), Injective(s)
    PROVE  Len(s) = Cardinality(ToSet(s))
<1> DEFINE n == Len(s)
           S == ToSet(s)
<1>1. n \in Nat /\ DOMAIN s = 1..n /\ s = [i \in 1..n |-> s[i]]
    OBVIOUS
<1>2. S = {s[i] : i \in 1..n}
    BY <1>1 DEF ToSet
<1> HIDE DEF n, S
<1>3. s \in [1..n -> S]
    BY <1>1, <1>2
<1>4. s \in Injection(1..n, S)
    BY <1>1, <1>3 DEF Injection, IsInjective, Injective
<1>5. s \in Surjection(1..n, S)
    BY <1>2, <1>3 DEF Surjection
<1>6. ExistsBijection(1..n, S)
    BY <1>4, <1>5 DEF ExistsBijection, Bijection
<1>7. Cardinality(S) = n
    BY <1>1, <1>6, FS_CountingElements
<1> QED BY <1>7 DEF n, S

\* The counts of EInv are the numbers of owners.
LEMMA EInvRefs ==
    ASSUME EInv
    PROVE  RefsAccounted
<1>1. /\ GoodPool(pool)
      /\ \A b \in Block : pool.ref[b] = One(b, PinnedBy(entry)) + One(b, ToSet(copyPins))
                                         + One(b, ToSet(frame.cow)) + One(b, TablesOf(req))
    BY DEF EInv, RefsAre, Counted
<1>2. pool.free \in Seq(Block) /\ Injective(pool.free)
      /\ ToSet(pool.free) = {b \in Block : pool.ref[b] = 0}
    BY <1>1 DEF GoodPool, PoolType
<1>3. ASSUME NEW b \in Block PROVE Occurrences(b, Pins) = One(b, PinnedBy(entry))
  <2>1. CASE entry = NoEntry
    <3>1. Pins = Append(<< >>, 0) /\ PinnedBy(entry) = {} /\ b # 0
        BY <2>1 DEF Pins, NoEntry, PinnedBy, Block
    <3>2. {i \in DOMAIN Append(<< >>, 0) : Append(<< >>, 0)[i] = b} = {}
        BY <3>1
    <3>3. One(b, PinnedBy(entry)) = 0
        BY <3>1 DEF One
    <3> QED BY <3>1, <3>2, <3>3, FS_EmptySet DEF Occurrences
  <2>2. CASE entry # NoEntry
    <3>1. Pins \in Seq(Block) /\ Injective(Pins) /\ PinnedBy(entry) = ToSet(Pins)
        BY <2>2, EndpointFacts DEF EInv, EndTypeOK, NoneTwice, Pins, PinnedBy
    <3> QED BY <3>1, OccursOnce
  <2> QED BY <2>1, <2>2
<1>4. ASSUME NEW b \in Block PROVE Occurrences(b, copyPins) = One(b, ToSet(copyPins))
  <2>1. copyPins = << >> \/ \E c \in Copy : copyPins = <<c.src, c.dst>> /\ c.src # c.dst
      BY DEF EInv, OneCopy
  <2>2. Injective(copyPins)
      BY <2>1, ShortLists
  <2>3. copyPins \in Seq(Block)
      BY DEF EInv, EndTypeOK
  <2> QED BY <2>2, <2>3, OccursOnce
<1>5. ASSUME NEW b \in Block PROVE Occurrences(b, frame.cow) = One(b, ToSet(frame.cow))
  <2>1. frame.cow \in Seq(Block) /\ Injective(frame.cow)
      BY DEF EInv, EndTypeOK, Frame, NoneTwice
  <2> QED BY <2>1, OccursOnce
<1>6. \A b \in Block : pool.ref[b] = Owners(b)
    BY <1>1, <1>3, <1>4, <1>5, HeldOnce DEF Owners
<1>7. Len(pool.free) = Cardinality(ToSet(pool.free))
    BY <1>2, LongAsLarge
<1> QED BY <1>2, <1>6, <1>7 DEF RefsAccounted

\* What EInv says of the data is what the owners believe.
LEMMA EInvData ==
    ASSUME EInv
    PROVE  DataExact
<1>1. ASSUME NEW r \in Turn
      PROVE  LET n == Len(req[r].attn)
                 done == IF frame.at = "worker" /\ frame.turn = r THEN n - 1 ELSE n
             IN \A i \in 1..done : Holds(content, req[r].attn[i], i, r)
    BY DEF EInv, TablesExact, Computing
<1>2. ASSUME entry # NoEntry
      PROVE  \A i \in DOMAIN entry.attn : Holds(content, entry.attn[i], i, entry.turn)
  <2>1. entry.attn \in Seq(Block)
      BY <1>2, EndpointFacts DEF EInv, EndTypeOK
  <2>2. DOMAIN entry.attn = 1..Len(entry.attn)
      BY <2>1
  <2> QED BY <1>2, <2>2 DEF EInv, EntryExact
<1>3. ASSUME entry # NoEntry
      PROVE  \/ content[entry.state] = <<entry.turn, Len(entry.attn)>>
             \/ \E c \in ToSet(pending \o frame.copies) : c.dst = entry.state
  <2>1. ToSet(pending \o frame.copies) = ToSet(pending) \cup ToSet(frame.copies)
    <3>1. pending \in Seq(Copy) /\ frame.copies \in Seq(Copy)
        BY DEF EInv, EndTypeOK, Frame
    <3> QED BY <3>1, Joined
  <2>2. ToMake \subseteq ToSet(pending \o frame.copies)
      BY <2>1 DEF ToMake
  <2> QED BY <1>3, <2>2 DEF EInv, EntryState
<1> QED BY <1>1, <1>2, <1>3 DEF DataExact

\* A block's reference count is the number of its owners, whatever is captured,
\* continued, cancelled, preempted, reset or handed over.
THEOREM RefsAccountedHolds == Spec => []RefsAccounted
<1>1. EInv => RefsAccounted
    BY EInvRefs
<1> QED BY <1>1, EInvHolds, PTL

\* A response never computes from another's data, and the endpoint holds what it
\* is the endpoint of.
THEOREM DataExactHolds == Spec => []DataExact
<1>1. EInv => DataExact
    BY EInvData
<1> QED BY <1>1, EInvHolds, PTL

\* When a step starts, its inputs are in the blocks its request believes them in.
THEOREM InputsExactHold ==
    Spec => [](\A r \in Turn : frame.at = "worker" /\ frame.turn = r => InputsExact(r))
<1>1. EInv => \A r \in Turn : frame.at = "worker" /\ frame.turn = r => InputsExact(r)
    BY InputsAreExact
<1> QED BY <1>1, EInvHolds, PTL
=============================================================================
