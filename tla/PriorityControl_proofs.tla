----------------------- MODULE PriorityControl_proofs -----------------------
(***************************************************************************)
(* Proofs about PriorityControl, for any chats, windows, settings and      *)
(* numbers of answers, commands, heartbeats, timeouts, losses, late        *)
(* arrivals and repetitions.                                               *)
(*                                                                         *)
(* Neither property is inductive: that a late request cannot win depends   *)
(* on how a window numbers its requests (Numbered), on an answer that has  *)
(* ended not being taken up again (Ordered), on what outlives a tombstone  *)
(* (Outlived), and on what the last request the window sent said (Told).   *)
(*                                                                         *)
(* The windows of one chat number their updates independently, and share   *)
(* one row: a window's invariant is about the row as long as the row is    *)
(* its own (Mine), and a window whose row another one took is overruled    *)
(* (Overruling).                                                           *)
(***************************************************************************)
EXTENDS PriorityControl, TLAPS

\* The row of the window's chat, if the window's own update left it.
Mine(c) == IF chats[ChatOf[c]] # None /\ chats[ChatOf[c]].client = c THEN chats[ChatOf[c]] ELSE None

WindowType ==
    [busy : BOOLEAN, priority : Priority, active : BOOLEAN, answer : Nat, sequence : Nat,
     timer : BOOLEAN, touched : BOOLEAN, queue : Seq(UpdateType),
     sending : UpdateType \cup {None}, previous : Priority \cup {None}, confirmed : BOOLEAN]

Callers == {"start", "release", "heartbeat", "command", "correction"}

\* At most one command is pending, and the setting before it is remembered.
OneCommand(w) ==
    /\ \A i \in 1..Len(w.queue) : w.queue[i].by = "command" =>
         /\ w.previous # None
         /\ w.sending # None => w.sending.by # "command"
         /\ \A j \in 1..Len(w.queue) : w.queue[j].by = "command" => i = j
    /\ w.sending # None => (w.sending.by = "command" => w.previous # None)

\* The level that a row, an update or a window stands for.
Stands(x) == IF x.active THEN x.priority ELSE 0

Types ==
    /\ Open \in DOMAIN Bounds
    /\ windows \in [Open -> WindowType]
    /\ net \subseteq UpdateType
    /\ chats \in [Chat -> RowType \cup {None}]
    /\ \A u \in net : u.client \in Open /\ u.chat = ChatOf[u.client]
    /\ \A ch \in Chat : chats[ch] # None =>
         chats[ch].client \in Open /\ ChatOf[chats[ch].client] = ch

\* The updates of window c on their way, of all those in N.
Of(c, N) == {u \in N : u.client = c}

\* The window's number when it sent its last update.
Sent(w) == w.sequence - Len(w.queue)

\* The updates of a window are numbered consecutively, and sent in that order.
Numbered(c, w, N, row) ==
    /\ \A i \in 1..Len(w.queue) :
         /\ w.queue[i].client = c /\ w.queue[i].chat = ChatOf[c]
         /\ w.queue[i].sequence = Sent(w) + i
    /\ w.sending # None =>
         w.sending.client = c /\ w.sending.chat = ChatOf[c] /\ w.sending.sequence = Sent(w)
    /\ \A u \in Of(c, N) : u.sequence <= Sent(w)
    /\ row # None => row.sequence <= Sent(w)

\* After an update that says an answer has ended, none says that it goes on.
Ordered(c, w, N) ==
    /\ \A i \in 1..Len(w.queue) :
         /\ w.queue[i].answer <= w.answer
         /\ w.queue[i].answer = w.answer /\ w.active => w.queue[i].active
         /\ \A j \in 1..Len(w.queue) :
              i < j /\ w.queue[i].answer = w.queue[j].answer /\ w.queue[j].active => w.queue[i].active
    /\ \A u \in Of(c, N) :
         /\ u.answer <= w.answer
         /\ u.answer = w.answer /\ w.active => u.active
         /\ \A v \in Of(c, N) :
              u.sequence <= v.sequence /\ u.answer = v.answer /\ v.active => u.active
         /\ \A i \in 1..Len(w.queue) :
              u.answer = w.queue[i].answer /\ w.queue[i].active => u.active

\* A row that has outlived its tombstone is older than everything on its way.
Outlived(c, N, row) ==
    row # None /\ row.lease = "stale" => \A u \in Of(c, N) : u.sequence > row.sequence

\* Of an answer whose release was applied, only requests older than the row are left.
Gone(c, w, N, row, R) ==
    \A a \in Nat : <<c, a>> \in R =>
        /\ a <= w.answer /\ (a = w.answer => ~w.active)
        /\ \A i \in 1..Len(w.queue) : w.queue[i].answer = a => ~w.queue[i].active
        /\ \A u \in Of(c, N) : u.answer = a /\ u.active =>
             row # None /\ row.lease # "stale" /\ u.sequence < row.sequence
        /\ row # None /\ row.answer = a => ~row.active

Core(c, w, N, row, R) ==
    Numbered(c, w, N, row) /\ Ordered(c, w, N) /\ Outlived(c, N, row) /\ Gone(c, w, N, row, R)

\* The last update said what the window shows; once it was confirmed, so does
\* the row, unless the window is one of O, the overruled.
Told(c, w, N, row, O) ==
    /\ w.queue # << >> => Stands(w.queue[Len(w.queue)]) = Stands(w)
    /\ w.queue = << >> /\ w.sending # None => Stands(w.sending) = Stands(w)
    /\ ~w.touched => w.queue = << >> /\ w.sending = None /\ ~w.confirmed
    /\ w.queue = << >> /\ w.sending = None /\ w.confirmed /\ c \notin O =>
         /\ row # None => row.sequence = w.sequence /\ Stands(row) = Stands(w)
         /\ row = None \/ row.lease = "stale" => Of(c, N) = {}

\* A window whose chat has a row of another window is overruled.
Overruling ==
    \A c \in Open : chats[ChatOf[c]] # None /\ chats[ChatOf[c]].client # c => c \in overruled

WInv ==
    /\ Types
    /\ Overruling
    /\ \A c \in Open : /\ OneCommand(windows[c])
                       /\ Core(c, windows[c], net, Mine(c), released)
                       /\ Told(c, windows[c], net, Mine(c), overruled)

-----------------------------------------------------------------------------
(***************************************************************************)
(* One window.                                                             *)
(***************************************************************************)
\* The fields of a window.
LEMMA WindowFacts ==
    ASSUME NEW w \in WindowType
    PROVE  /\ w.queue \in Seq(UpdateType) /\ Len(w.queue) \in Nat
           /\ w.sequence \in Nat /\ w.answer \in Nat /\ Sent(w) \in Int
           /\ w.active \in BOOLEAN /\ w.priority \in Priority
           /\ \A i \in 1..Len(w.queue) :
                /\ w.queue[i] \in UpdateType
                /\ w.queue[i].answer \in Nat /\ w.queue[i].sequence \in Nat
<1>1. /\ w.queue \in Seq(UpdateType) /\ w.sequence \in Nat /\ w.answer \in Nat
      /\ w.active \in BOOLEAN /\ w.priority \in Priority
    BY DEF WindowType
<1>2. Len(w.queue) \in Nat /\ \A i \in 1..Len(w.queue) : w.queue[i] \in UpdateType
    BY <1>1
<1>3. \A u \in UpdateType : u.answer \in Nat /\ u.sequence \in Nat
    BY DEF UpdateType
<1> QED BY <1>1, <1>2, <1>3 DEF Sent

\* What sync(s) does to a window: one more number, one more update in the queue.
LEMMA SyncEffect ==
    ASSUME NEW c \in Client, NEW w \in WindowType, NEW by \in Callers,
           NEW v, v = Sync(c, w, by)
    PROVE  /\ v \in WindowType
           /\ v.sequence = w.sequence + 1 /\ v.touched
           /\ v.answer = w.answer /\ v.active = w.active /\ v.priority = w.priority
           /\ v.sending = w.sending /\ v.previous = w.previous
           /\ Len(v.queue) = Len(w.queue) + 1 /\ Sent(v) = Sent(w)
           /\ \A i \in 1..Len(w.queue) : v.queue[i] = w.queue[i]
           /\ v.queue[Len(v.queue)].client = c /\ v.queue[Len(v.queue)].chat = ChatOf[c]
           /\ v.queue[Len(v.queue)].answer = w.answer
           /\ v.queue[Len(v.queue)].sequence = w.sequence + 1
           /\ v.queue[Len(v.queue)].priority = w.priority
           /\ v.queue[Len(v.queue)].active = w.active
           /\ v.queue[Len(v.queue)].by = by
<1> DEFINE n == [w EXCEPT !.sequence = @ + 1, !.touched = TRUE]
           u == Update(c, n, by)
<1>1. /\ n \in WindowType /\ n.sequence = w.sequence + 1 /\ n.touched
      /\ n.answer = w.answer /\ n.active = w.active /\ n.priority = w.priority
      /\ n.sending = w.sending /\ n.previous = w.previous /\ n.queue = w.queue
  <2>1. /\ n.sequence = w.sequence + 1 /\ n.touched
        /\ n.answer = w.answer /\ n.active = w.active /\ n.priority = w.priority
        /\ n.sending = w.sending /\ n.previous = w.previous /\ n.queue = w.queue
      BY DEF WindowType
  <2>2. w.sequence + 1 \in Nat /\ TRUE \in BOOLEAN
      BY DEF WindowType
  <2>3. \A x \in Nat, y \in BOOLEAN : [w EXCEPT !.sequence = x, !.touched = y] \in WindowType
      BY DEF WindowType
  <2> QED BY <2>1, <2>2, <2>3
<1>2. /\ u \in UpdateType /\ u.client = c /\ u.chat = ChatOf[c] /\ u.answer = w.answer
      /\ u.sequence = w.sequence + 1 /\ u.priority = w.priority /\ u.active = w.active
      /\ u.by = by
  <2> HIDE DEF n
  <2> QED BY <1>1, WindowAssumption DEF Update, UpdateType, WindowType, Callers
<1>3. v = [n EXCEPT !.queue = Append(n.queue, u)]
    BY DEF Sync
<1> HIDE DEF n, u
<1>4. w.queue \in Seq(UpdateType) /\ w.sequence \in Nat
    BY DEF WindowType
<1>5. Append(w.queue, u) \in Seq(UpdateType)
    BY <1>2, <1>4
<1>6. /\ v \in WindowType /\ v.queue = Append(w.queue, u)
      /\ v.sequence = w.sequence + 1 /\ v.touched
      /\ v.answer = w.answer /\ v.active = w.active /\ v.priority = w.priority
      /\ v.sending = w.sending /\ v.previous = w.previous
  <2>1. \A x \in Seq(UpdateType) :
          /\ [n EXCEPT !.queue = x] \in WindowType
          /\ [n EXCEPT !.queue = x].queue = x
          /\ [n EXCEPT !.queue = x].sequence = n.sequence
          /\ [n EXCEPT !.queue = x].touched <=> n.touched
          /\ [n EXCEPT !.queue = x].answer = n.answer
          /\ [n EXCEPT !.queue = x].active = n.active
          /\ [n EXCEPT !.queue = x].priority = n.priority
          /\ [n EXCEPT !.queue = x].sending = n.sending
          /\ [n EXCEPT !.queue = x].previous = n.previous
      BY <1>1 DEF WindowType
  <2> QED BY <1>1, <1>3, <1>5, <2>1, ZenonT(60)
<1>7. /\ Len(v.queue) = Len(w.queue) + 1 /\ v.queue[Len(v.queue)] = u
      /\ \A i \in 1..Len(w.queue) : v.queue[i] = w.queue[i]
    BY <1>2, <1>4, <1>6
<1>8. Sent(v) = Sent(w)
    BY <1>4, <1>6, <1>7, SMTT(30) DEF Sent
<1> QED BY <1>2, <1>6, <1>7, <1>8

\* A window may end its answer, or begin another, and number an update.
LEMMA CoreKept ==
    ASSUME NEW c \in Client, NEW w \in WindowType, NEW v \in WindowType,
           NEW N \in SUBSET UpdateType, NEW row \in RowType \cup {None}, NEW R,
           Core(c, w, N, row, R),
           v.sequence = w.sequence, v.queue = w.queue, v.sending \in {w.sending, None},
           \/ v.answer = w.answer /\ (v.active => w.active)
           \/ v.answer = w.answer + 1
    PROVE  Core(c, v, N, row, R)
<1>1. /\ w.queue \in Seq(UpdateType) /\ w.sequence \in Nat /\ w.answer \in Nat /\ Len(w.queue) \in Nat
      /\ \A i \in 1..Len(w.queue) : w.queue[i].answer \in Nat
    BY WindowFacts
<1>2. \A u \in Of(c, N) : u.answer \in Nat
    BY DEF Of, UpdateType
<1>3. Sent(v) = Sent(w)
    BY DEF Sent
<1>4. Numbered(c, v, N, row)
    BY <1>3 DEF Core, Numbered
<1>5. Ordered(c, v, N)
  <2>1. \A i \in 1..Len(w.queue) :
          /\ w.queue[i].answer <= v.answer
          /\ w.queue[i].answer = v.answer /\ v.active => w.queue[i].active
      BY <1>1 DEF Core, Ordered
  <2>2. \A u \in Of(c, N) :
          u.answer <= v.answer /\ (u.answer = v.answer /\ v.active => u.active)
      BY <1>1, <1>2 DEF Core, Ordered
  <2> QED BY <2>1, <2>2 DEF Core, Ordered
<1>6. Gone(c, v, N, row, R)
    BY <1>1 DEF Core, Gone
<1> QED BY <1>4, <1>5, <1>6 DEF Core

\* sync: a window that queues an update with the next sequence number keeps
\* the order of its updates, and tells of nothing that is not in force.
LEMMA SyncKeeps ==
    ASSUME NEW c \in Client, NEW w \in WindowType, NEW by \in Callers,
           NEW N \in SUBSET UpdateType, NEW row \in RowType \cup {None}, NEW R, NEW O,
           Core(c, w, N, row, R),
           NEW v, v = Sync(c, w, by)
    PROVE  v \in WindowType /\ Core(c, v, N, row, R) /\ Told(c, v, N, row, O)
<1> DEFINE n == Len(w.queue)
           q == v.queue[n + 1]
<1>1. /\ w.queue \in Seq(UpdateType) /\ w.sequence \in Nat /\ w.answer \in Nat /\ n \in Nat
      /\ \A i \in 1..n : w.queue[i].answer \in Nat
    BY WindowFacts
<1>2. /\ v \in WindowType
      /\ v.sequence = w.sequence + 1 /\ v.touched
      /\ v.answer = w.answer /\ v.active = w.active /\ v.priority = w.priority
      /\ v.sending = w.sending
      /\ Len(v.queue) = n + 1 /\ Sent(v) = Sent(w)
      /\ \A i \in 1..n : v.queue[i] = w.queue[i]
      /\ q.client = c /\ q.chat = ChatOf[c] /\ q.answer = w.answer
      /\ q.sequence = w.sequence + 1 /\ q.priority = w.priority /\ q.active = w.active
  <2>1. v.queue[Len(v.queue)] = q
      BY SyncEffect
  <2> QED BY <2>1, SyncEffect
<1>3. \A i \in 1..Len(v.queue) : i \in 1..n \/ i = n + 1
    BY <1>1, <1>2
<1>4. Sent(w) + n = w.sequence /\ Sent(w) \in Int
    BY <1>1 DEF Sent
<1> HIDE DEF q, n
<1>5. Numbered(c, v, N, row)
  <2>1. \A i \in 1..Len(v.queue) :
          /\ v.queue[i].client = c /\ v.queue[i].chat = ChatOf[c]
          /\ v.queue[i].sequence = Sent(v) + i
    <3> TAKE i \in 1..Len(v.queue)
    <3>1. CASE i \in 1..n
        BY <1>2, <3>1 DEF Core, Numbered, n
    <3>2. CASE i = n + 1
        BY <1>1, <1>2, <1>4, <3>2 DEF q
    <3> QED BY <1>3, <3>1, <3>2
  <2> QED BY <1>2, <2>1 DEF Core, Numbered
<1>6. Ordered(c, v, N)
  <2>1. \A i \in 1..Len(v.queue) : v.queue[i].answer <= v.answer
                                  /\ (v.queue[i].answer = v.answer /\ v.active => v.queue[i].active)
    <3> TAKE i \in 1..Len(v.queue)
    <3>1. CASE i \in 1..n
        BY <1>2, <3>1 DEF Core, Ordered, n
    <3>2. CASE i = n + 1
        BY <1>1, <1>2, <3>2 DEF q
    <3> QED BY <1>3, <3>1, <3>2
  <2>2. \A i, j \in 1..Len(v.queue) :
          i < j /\ v.queue[i].answer = v.queue[j].answer /\ v.queue[j].active => v.queue[i].active
    <3> SUFFICES ASSUME NEW i \in 1..Len(v.queue), NEW j \in 1..Len(v.queue), i < j,
                        v.queue[i].answer = v.queue[j].answer, v.queue[j].active
                 PROVE  v.queue[i].active
        OBVIOUS
    <3>1. i \in 1..n
        BY <1>1, <1>2
    <3>2. CASE j \in 1..n
        BY <1>2, <3>1, <3>2 DEF Core, Ordered, n
    <3>3. CASE j = n + 1
        BY <1>2, <3>1, <3>3 DEF Core, Ordered, n, q
    <3> QED BY <1>3, <3>2, <3>3
  <2>3. \A u \in Of(c, N) : \A i \in 1..Len(v.queue) :
          u.answer = v.queue[i].answer /\ v.queue[i].active => u.active
    <3> TAKE u \in Of(c, N)
    <3> TAKE i \in 1..Len(v.queue)
    <3>1. CASE i \in 1..n
        BY <1>2, <3>1 DEF Core, Ordered, n
    <3>2. CASE i = n + 1
        BY <1>2, <3>2 DEF Core, Ordered, q
    <3> QED BY <1>3, <3>1, <3>2
  <2> QED BY <1>2, <2>1, <2>2, <2>3 DEF Core, Ordered
<1>7. Gone(c, v, N, row, R)
  <2> SUFFICES ASSUME NEW a \in Nat, <<c, a>> \in R, NEW i \in 1..Len(v.queue), v.queue[i].answer = a
               PROVE  ~v.queue[i].active
      BY <1>2 DEF Core, Gone
  <2>1. CASE i \in 1..n
      BY <1>2, <2>1 DEF Core, Gone, n
  <2>2. CASE i = n + 1
      BY <1>2, <2>2 DEF Core, Gone, q
  <2> QED BY <1>3, <2>1, <2>2
<1>8. Told(c, v, N, row, O)
  <2>1. v.queue # << >>
      BY <1>1, <1>2
  <2>2. Stands(v.queue[Len(v.queue)]) = Stands(v)
      BY <1>2 DEF Stands, q
  <2> QED BY <1>2, <2>1, <2>2 DEF Told
<1> QED BY <1>2, <1>5, <1>6, <1>7, <1>8 DEF Core

\* What the window was told stays true while it shows the same, and sends nothing.
LEMMA ToldKept ==
    ASSUME NEW c, NEW w, NEW v, NEW N, NEW row, NEW O,
           Told(c, w, N, row, O),
           v.queue = w.queue, v.sending = w.sending, v.sequence = w.sequence,
           v.touched <=> w.touched, v.confirmed <=> w.confirmed, Stands(v) = Stands(w)
    PROVE  Told(c, v, N, row, O)
BY DEF Told

\* heartbeat(s) changes nothing but the timer.
LEMMA HeartbeatEffect ==
    ASSUME NEW w \in WindowType, NEW v, v = Heartbeat(w)
    PROVE  /\ v \in WindowType
           /\ v.sequence = w.sequence /\ v.queue = w.queue /\ v.sending = w.sending
           /\ v.answer = w.answer /\ v.priority = w.priority /\ v.previous = w.previous
           /\ v.active <=> w.active
           /\ v.touched <=> w.touched
           /\ v.confirmed <=> w.confirmed
<1> DEFINE t == w.timer \/ (w.active /\ w.priority # 0)
<1>1. t \in BOOLEAN /\ v = [w EXCEPT !.timer = t]
    BY DEF Heartbeat, WindowType
<1> HIDE DEF t
<1> QED BY <1>1 DEF WindowType

\* sync(s) keeps the number of pending commands at one.
LEMMA SyncCommand ==
    ASSUME NEW c \in Client, NEW w \in WindowType, NEW by \in Callers, OneCommand(w),
           by = "command" =>
             /\ w.previous # None
             /\ \A i \in 1..Len(w.queue) : w.queue[i].by # "command"
             /\ w.sending # None => w.sending.by # "command",
           NEW v, v = Sync(c, w, by)
    PROVE  OneCommand(v)
<1> DEFINE n == Len(w.queue)
<1>1. /\ v.sending = w.sending /\ v.previous = w.previous
      /\ Len(v.queue) = n + 1 /\ n \in Nat
      /\ \A i \in 1..n : v.queue[i] = w.queue[i]
      /\ v.queue[n + 1].by = by
    BY SyncEffect, WindowFacts
<1>2. \A i \in 1..Len(v.queue) : i \in 1..n \/ i = n + 1
    BY <1>1
<1>3. CASE by = "command"
    BY <1>1, <1>2, <1>3 DEF OneCommand
<1>4. CASE by # "command"
    BY <1>1, <1>2, <1>4, ZenonT(60) DEF OneCommand
<1> QED BY <1>3, <1>4

\* A request that was refused or timed out: a command is corrected by a new request.
LEMMA FailedKeeps ==
    ASSUME NEW c \in Client, NEW w \in WindowType, w.sending # None, OneCommand(w),
           NEW N \in SUBSET UpdateType, NEW row \in RowType \cup {None}, NEW R, NEW O,
           Core(c, w, N, row, R), Told(c, w, N, row, O),
           NEW v, v = Failed(c, w)
    PROVE  v \in WindowType /\ OneCommand(v) /\ Core(c, v, N, row, R) /\ Told(c, v, N, row, O)
<1> SUFFICES ASSUME NEW done, done = [w EXCEPT !.sending = None, !.confirmed = FALSE]
             PROVE  v \in WindowType /\ OneCommand(v) /\ Core(c, v, N, row, R) /\ Told(c, v, N, row, O)
    OBVIOUS
<1>1. /\ done \in WindowType
      /\ done.sequence = w.sequence /\ done.queue = w.queue /\ done.sending = None
      /\ done.answer = w.answer /\ done.priority = w.priority /\ done.previous = w.previous
      /\ done.active <=> w.active
      /\ done.touched <=> w.touched
      /\ ~done.confirmed
    BY DEF WindowType
<1>2. w.sending \in UpdateType /\ w.previous \in Priority \cup {None}
    BY DEF WindowType
<1>3. ASSUME NEW x \in WindowType, x.sequence = w.sequence, x.queue = w.queue, x.sending = None,
             x.answer = w.answer, x.priority = w.priority, x.previous = w.previous,
             x.active <=> w.active, x.touched <=> w.touched, ~x.confirmed
      PROVE  OneCommand(x) /\ Core(c, x, N, row, R) /\ Told(c, x, N, row, O)
  <2>1. Core(c, x, N, row, R)
      BY <1>3, CoreKept
  <2>2. Stands(x) = Stands(w)
      BY <1>3 DEF Stands
  <2>3. w.touched
      BY DEF Told
  <2>4. OneCommand(x)
      BY <1>3 DEF OneCommand
  <2> QED BY <1>3, <2>1, <2>2, <2>3, <2>4 DEF Told
<1>4. CASE w.sending.by = "start"
  <2>1. v = Heartbeat(done)
      BY <1>4 DEF Failed
  <2>2. /\ v \in WindowType
        /\ v.sequence = done.sequence /\ v.queue = done.queue /\ v.sending = done.sending
        /\ v.answer = done.answer /\ v.priority = done.priority /\ v.previous = done.previous
        /\ v.active <=> done.active
        /\ v.touched <=> done.touched
        /\ v.confirmed <=> done.confirmed
      BY <1>1, <2>1, HeartbeatEffect
  <2> QED BY <1>1, <1>3, <2>2
<1>5. CASE w.sending.by = "command"
  <2> SUFFICES ASSUME NEW x, x = [done EXCEPT !.priority = w.previous, !.previous = None],
                      v = Sync(c, x, "correction")
               PROVE  v \in WindowType /\ OneCommand(v) /\ Core(c, v, N, row, R) /\ Told(c, v, N, row, O)
      BY <1>5 DEF Failed
  <2>1. w.previous \in Priority
      BY <1>2, <1>5 DEF OneCommand
  <2>2. /\ x \in WindowType
        /\ x.sequence = w.sequence /\ x.queue = w.queue /\ x.sending = None
        /\ x.answer = w.answer
        /\ x.active <=> w.active
    <3>1. /\ x.sequence = done.sequence /\ x.queue = done.queue /\ x.sending = done.sending
          /\ x.answer = done.answer
          /\ x.active <=> done.active
        BY <1>1 DEF WindowType
    <3>2. \A p \in Priority, r \in Priority \cup {None} :
            [done EXCEPT !.priority = p, !.previous = r] \in WindowType
        BY <1>1 DEF WindowType
    <3> QED BY <1>1, <2>1, <3>1, <3>2
  <2>3. Core(c, x, N, row, R)
      BY <2>2, CoreKept
  <2>4. OneCommand(x)
      BY <1>5, <2>2 DEF OneCommand
  <2>5. "correction" \in Callers /\ "correction" # "command"
      BY DEF Callers
  <2>6. OneCommand(v)
      BY <2>2, <2>4, <2>5, SyncCommand
  <2>7. v \in WindowType /\ Core(c, v, N, row, R) /\ Told(c, v, N, row, O)
      BY <2>2, <2>3, <2>5, SyncKeeps
  <2> QED BY <2>6, <2>7
<1>6. CASE w.sending.by \notin {"start", "command"}
  <2>1. v = done
      BY <1>6 DEF Failed
  <2> QED BY <1>1, <1>3, <2>1
<1> QED BY <1>4, <1>5, <1>6

\* A request that was confirmed while the row says what it said.
LEMMA ConfirmedKeeps ==
    ASSUME NEW c \in Client, NEW w \in WindowType, w.sending # None, OneCommand(w),
           NEW N \in SUBSET UpdateType, NEW row \in RowType, NEW R, NEW O, NEW P,
           Core(c, w, N, row, R), Told(c, w, N, row, O),
           row.sequence = w.sending.sequence, Stands(row) = Stands(w.sending), row.lease # "stale",
           NEW v, v = Confirmed(w)
    PROVE  v \in WindowType /\ OneCommand(v) /\ Core(c, v, N, row, R) /\ Told(c, v, N, row, P)
<1>0. SUFFICES ASSUME NEW done, done = [w EXCEPT !.sending = None, !.confirmed = TRUE]
             PROVE  v \in WindowType /\ OneCommand(v) /\ Core(c, v, N, row, R) /\ Told(c, v, N, row, P)
    OBVIOUS
<1>1. /\ done \in WindowType
      /\ done.sequence = w.sequence /\ done.queue = w.queue /\ done.sending = None
      /\ done.answer = w.answer /\ done.priority = w.priority /\ done.previous = w.previous
      /\ done.active <=> w.active
      /\ done.touched <=> w.touched
    BY <1>0 DEF WindowType
<1>2. /\ w.sending \in UpdateType /\ w.previous \in Priority \cup {None} /\ w.sequence \in Nat
      /\ row # None /\ row \in RowType \cup {None}
    BY RegistryAssumption DEF WindowType
<1>3. w.touched /\ (w.queue = << >> => row.sequence = w.sequence)
    BY <1>2 DEF Told, Core, Numbered, Sent
<1>4. ASSUME NEW x \in WindowType, x.sequence = w.sequence, x.queue = w.queue, x.sending = None,
             x.answer = w.answer, x.priority = w.priority,
             x.active <=> w.active, x.touched <=> w.touched
      PROVE  Core(c, x, N, row, R) /\ Told(c, x, N, row, P)
  <2>1. Core(c, x, N, row, R)
      BY <1>2, <1>4, CoreKept
  <2>2. Stands(x) = Stands(w)
      BY <1>4 DEF Stands
  <2> QED BY <1>2, <1>3, <1>4, <2>1, <2>2 DEF Told
<1>5. CASE w.sending.by = "start"
  <2>1. v = Heartbeat(done)
      BY <1>0, <1>5 DEF Confirmed
  <2>2. /\ v \in WindowType
        /\ v.sequence = done.sequence /\ v.queue = done.queue /\ v.sending = done.sending
        /\ v.answer = done.answer /\ v.priority = done.priority /\ v.previous = done.previous
        /\ v.active <=> done.active
        /\ v.touched <=> done.touched
      BY <1>1, <2>1, HeartbeatEffect
  <2>3. OneCommand(v)
      BY <1>1, <2>2 DEF OneCommand
  <2> QED BY <1>1, <1>4, <2>2, <2>3
<1>6. CASE w.sending.by = "command"
  <2>0. SUFFICES ASSUME NEW x, x = [done EXCEPT !.timer = FALSE, !.previous = None],
                      v = Heartbeat(x)
               PROVE  v \in WindowType /\ OneCommand(v) /\ Core(c, v, N, row, R) /\ Told(c, v, N, row, P)
      BY <1>0, <1>6 DEF Confirmed
  <2>1. /\ x \in WindowType
        /\ x.sequence = w.sequence /\ x.queue = w.queue /\ x.sending = None
        /\ x.answer = w.answer /\ x.priority = w.priority
        /\ x.active <=> w.active
        /\ x.touched <=> w.touched
    <3>1. /\ x.sequence = done.sequence /\ x.queue = done.queue /\ x.sending = done.sending
          /\ x.answer = done.answer /\ x.priority = done.priority
          /\ x.active <=> done.active
          /\ x.touched <=> done.touched
        BY <1>1, <2>0 DEF WindowType
    <3>2. x \in WindowType
        BY <1>1, <2>0 DEF WindowType
    <3> QED BY <1>1, <3>1, <3>2
  <2>2. /\ v \in WindowType
        /\ v.sequence = w.sequence /\ v.queue = w.queue /\ v.sending = None
        /\ v.answer = w.answer /\ v.priority = w.priority
        /\ v.active <=> w.active
        /\ v.touched <=> w.touched
    <3>1. v = Heartbeat(x)
        BY <2>0
    <3> QED BY <2>1, <3>1, HeartbeatEffect
  <2>3. OneCommand(v)
      BY <1>6, <2>2 DEF OneCommand
  <2> QED BY <1>4, <2>2, <2>3
<1>7. CASE w.sending.by \notin {"start", "command"}
  <2>1. v = done
      BY <1>0, <1>7 DEF Confirmed
  <2>2. OneCommand(v)
      BY <1>1, <2>1 DEF OneCommand
  <2> QED BY <1>1, <1>4, <2>1, <2>2
<1> QED BY <1>5, <1>6, <1>7

\* Requests that are gone cannot do harm.
LEMMA FewerOnTheWay ==
    ASSUME NEW c, NEW w, NEW N, NEW M \in SUBSET N, NEW row, NEW R, NEW O, NEW P,
           Core(c, w, N, row, R), Told(c, w, N, row, O), c \in O => c \in P
    PROVE  Core(c, w, M, row, R) /\ Told(c, w, M, row, P)
<1>1. Of(c, M) \subseteq Of(c, N)
    BY DEF Of
<1>2. Numbered(c, w, M, row) /\ Ordered(c, w, M) /\ Outlived(c, M, row)
    BY <1>1 DEF Core, Numbered, Ordered, Outlived
<1>3. Gone(c, w, M, row, R)
    BY <1>1 DEF Core, Gone
<1>4. Told(c, w, M, row, P)
    BY <1>1 DEF Told
<1> QED BY <1>2, <1>3, <1>4 DEF Core

\* A row is purged only when nothing older than it is on its way.
LEMMA RowPurged ==
    ASSUME NEW c, NEW w, NEW N, NEW row, NEW R, NEW O,
           Core(c, w, N, row, R), Told(c, w, N, row, O),
           row = None \/ row.lease = "stale"
    PROVE  Core(c, w, N, None, R) /\ Told(c, w, N, None, O)
<1>1. Numbered(c, w, N, None) /\ Ordered(c, w, N) /\ Outlived(c, N, None)
    BY DEF Core, Numbered, Ordered, Outlived
<1>2. Gone(c, w, N, None, R)
    BY DEF Core, Gone
<1>3. Told(c, w, N, None, O)
    BY DEF Told
<1> QED BY <1>1, <1>2, <1>3 DEF Core

\* Another window's update takes the row: nothing is left to say of the own one.
LEMMA RowTaken ==
    ASSUME NEW c, NEW w, NEW N, NEW row, NEW R, NEW S, NEW O, NEW P,
           Core(c, w, N, row, R), Told(c, w, N, row, O),
           \A a : <<c, a>> \notin S, c \in P
    PROVE  Core(c, w, N, None, S) /\ Told(c, w, N, None, P)
<1>1. Numbered(c, w, N, None) /\ Ordered(c, w, N) /\ Outlived(c, N, None)
    BY DEF Core, Numbered, Ordered, Outlived
<1>2. Gone(c, w, N, None, S)
    BY DEF Gone
<1>3. Told(c, w, N, None, P)
    BY DEF Told
<1> QED BY <1>1, <1>2, <1>3 DEF Core

\* A deadline of a row passes; the tombstone's only when nothing is on its way.
LEMMA RowAges ==
    ASSUME NEW c, NEW w, NEW N, NEW row, NEW old, NEW R, NEW O,
           Core(c, w, N, old, R), Told(c, w, N, old, O),
           row # None, old # None, row.sequence = old.sequence, row.answer = old.answer,
           row.priority = old.priority, row.active <=> old.active,
           (row.lease # "stale" /\ old.lease # "stale") \/ Of(c, N) = {}
    PROVE  Core(c, w, N, row, R) /\ Told(c, w, N, row, O)
<1>1. Numbered(c, w, N, row) /\ Ordered(c, w, N) /\ Outlived(c, N, row)
    BY DEF Core, Numbered, Ordered, Outlived
<1>2. Gone(c, w, N, row, R)
    BY DEF Core, Gone
<1>3. Told(c, w, N, row, O)
    BY DEF Told, Stands
<1> QED BY <1>1, <1>2, <1>3 DEF Core

\* An update that the registry accepts, or has accepted before.
LEMMA UpdateApplied ==
    ASSUME NEW c \in Client, NEW w \in WindowType, NEW N \in SUBSET UpdateType,
           NEW old \in RowType \cup {None}, NEW R, NEW O, NEW S,
           Core(c, w, N, old, R), Told(c, w, N, old, O),
           NEW u \in N, u.client = c,
           NEW row \in RowType, row # None, row.sequence = u.sequence, row.answer = u.answer,
           row.priority = u.priority, row.active <=> u.active, row.lease # "stale",
           row = old \/ old = None \/ old.sequence < u.sequence,
           \A a \in Nat : <<c, a>> \in S => <<c, a>> \in R \/ (a = u.answer /\ ~u.active)
    PROVE  Core(c, w, N, row, S) /\ Told(c, w, N, row, O)
<1>1. u \in Of(c, N) /\ \A v \in Of(c, N) : v.sequence \in Nat /\ v.answer \in Nat
    BY DEF Of, UpdateType
<1>2. /\ w.sequence \in Nat /\ Sent(w) \in Int /\ row.sequence \in Nat
      /\ old # None => old.sequence \in Nat
      /\ w.queue = << >> => Sent(w) = w.sequence
    BY WindowFacts DEF Sent, RowType
<1>3. Numbered(c, w, N, row) /\ Ordered(c, w, N) /\ Outlived(c, N, row)
    BY <1>1 DEF Core, Numbered, Outlived
<1>4. Gone(c, w, N, row, S)
  <2> SUFFICES ASSUME NEW a \in Nat, <<c, a>> \in S
               PROVE  /\ a <= w.answer /\ (a = w.answer => ~w.active)
                      /\ \A i \in 1..Len(w.queue) : w.queue[i].answer = a => ~w.queue[i].active
                      /\ \A v \in Of(c, N) : v.answer = a /\ v.active => v.sequence < row.sequence
                      /\ row.answer = a => ~row.active
      BY DEF Gone
  <2>1. CASE <<c, a>> \in R
    <3>1. \A v \in Of(c, N) : v.answer = a /\ v.active =>
            old # None /\ v.sequence < old.sequence
        BY <2>1 DEF Core, Gone
    <3>2. old # None => old.sequence <= row.sequence
        BY <1>1, <1>2
    <3>3. \A v \in Of(c, N) : v.answer = a /\ v.active => v.sequence < row.sequence
        BY <1>1, <1>2, <3>1, <3>2
    <3>4. row.answer = a => ~row.active
      <4>1. ~(u.sequence < row.sequence)
          BY <1>2
      <4> QED BY <1>1, <3>3, <4>1
    <3> QED BY <2>1, <3>3, <3>4 DEF Core, Gone
  <2>2. CASE a = u.answer /\ ~u.active
    <3>1. \A v \in Of(c, N) : v.answer = a /\ v.active => v.sequence < u.sequence
        BY <1>1, <2>2 DEF Core, Ordered
    <3> QED BY <1>1, <2>2, <3>1 DEF Core, Ordered
  <2> QED BY <2>1, <2>2
<1>5. Told(c, w, N, row, O)
  <2>1. ASSUME w.queue = << >>, w.sending = None, w.confirmed, c \notin O
        PROVE  row.sequence = w.sequence /\ Stands(row) = Stands(w)
    <3>1. old # None /\ old.sequence = w.sequence /\ Stands(old) = Stands(w)
        BY <1>1, <2>1 DEF Told
    <3>2. u.sequence <= w.sequence
        BY <1>1, <1>2, <2>1 DEF Core, Numbered
    <3>3. row = old
        BY <1>1, <1>2, <3>1, <3>2
    <3> QED BY <3>1, <3>3
  <2> QED BY <2>1 DEF Told
<1> QED BY <1>3, <1>4, <1>5 DEF Core

-----------------------------------------------------------------------------
(***************************************************************************)
(* The actions.                                                            *)
(***************************************************************************)
\* What the invariant says of one open window.
LEMMA OpenFacts ==
    ASSUME WInv, NEW c \in Open
    PROVE  /\ c \in Client /\ windows[c] \in WindowType /\ ChatOf[c] \in Chat
           /\ net \in SUBSET UpdateType /\ Mine(c) \in RowType \cup {None}
           /\ OneCommand(windows[c])
           /\ Core(c, windows[c], net, Mine(c), released)
           /\ Told(c, windows[c], net, Mine(c), overruled)
<1>1. c \in Client
    BY WindowAssumption DEF WInv, Types
<1>2. ChatOf[c] \in Chat
    BY <1>1, WindowAssumption
<1>3. Mine(c) \in RowType \cup {None}
    BY <1>2 DEF WInv, Types, Mine
<1> QED BY <1>1, <1>2, <1>3 DEF WInv, Types

\* A step of one window that neither sends nor receives.
LEMMA WindowStep ==
    ASSUME WInv, NEW c \in Open, NEW v \in WindowType, Becomes(c, v),
           UNCHANGED <<chats, net, released, overruled>>,
           OneCommand(v), Core(c, v, net, Mine(c), released),
           Told(c, v, net, Mine(c), overruled)
    PROVE  WInv'
<1>1. windows \in [Open -> WindowType]
    BY DEF WInv, Types
<1>2. /\ Open' = Open /\ windows' \in [Open -> WindowType]
      /\ \A d \in Open : windows'[d] = IF d = c THEN v ELSE windows[d]
    BY <1>1 DEF Becomes, Open
<1>3. Types'
    BY <1>2 DEF WInv, Types
<1>4. ASSUME NEW d \in Open
      PROVE  /\ OneCommand(windows'[d])
             /\ Core(d, windows'[d], net', Mine(d)', released')
             /\ Told(d, windows'[d], net', Mine(d)', overruled')
  <2>1. Mine(d)' = Mine(d)
      BY DEF Mine
  <2> QED BY <1>2, <2>1 DEF WInv
<1>5. Overruling'
    BY <1>2 DEF WInv, Overruling
<1> QED BY <1>2, <1>3, <1>4, <1>5 DEF WInv

\* A new answer begins: agent_start, or a command while the agent is running.
LEMMA NewAnswerEffect ==
    ASSUME NEW w \in WindowType, NEW v, v = NewAnswer(w)
    PROVE  /\ v \in WindowType
           /\ v.sequence = w.sequence /\ v.queue = w.queue /\ v.sending = w.sending
           /\ v.priority = w.priority /\ v.previous = w.previous
           /\ v.answer = w.answer + 1
           /\ v.touched <=> w.touched
           /\ v.confirmed <=> w.confirmed
<1>1. /\ v.sequence = w.sequence /\ v.queue = w.queue /\ v.sending = w.sending
      /\ v.priority = w.priority /\ v.previous = w.previous /\ v.answer = w.answer + 1
      /\ v.touched <=> w.touched
      /\ v.confirmed <=> w.confirmed
    BY DEF NewAnswer, WindowType
<1>2. \A x \in Nat, y \in BOOLEAN : [w EXCEPT !.active = y, !.answer = x] \in WindowType
    BY DEF WindowType
<1>3. w.answer + 1 \in Nat /\ TRUE \in BOOLEAN
    BY WindowFacts
<1>4. v \in WindowType
    BY <1>2, <1>3 DEF NewAnswer
<1> QED BY <1>1, <1>4

\* agent_start: an answer begins, and is announced if the chat has a priority.
LEMMA StartKeeps ==
    ASSUME WInv, NEW c \in Open, Start(c)
    PROVE  WInv'
<1>0. SUFFICES ASSUME NEW o, o = windows[c], NEW row, row = Mine(c),
                    NEW w, w = [o EXCEPT !.busy = TRUE], NEW begun, begun = NewAnswer(w)
             PROVE  WInv'
    OBVIOUS
<1>1. /\ c \in Client /\ o \in WindowType /\ net \in SUBSET UpdateType
      /\ row \in RowType \cup {None} /\ OneCommand(o)
      /\ Core(c, o, net, row, released) /\ Told(c, o, net, row, overruled)
    BY <1>0, OpenFacts
<1>2. /\ w \in WindowType
      /\ w.sequence = o.sequence /\ w.queue = o.queue /\ w.sending = o.sending
      /\ w.priority = o.priority /\ w.previous = o.previous /\ w.answer = o.answer
      /\ w.active <=> o.active
      /\ w.touched <=> o.touched
      /\ w.confirmed <=> o.confirmed
    BY <1>0, <1>1 DEF WindowType
<1>3. /\ begun \in WindowType
      /\ begun.sequence = o.sequence /\ begun.queue = o.queue /\ begun.sending = o.sending
      /\ begun.priority = o.priority /\ begun.previous = o.previous
      /\ begun.answer = o.answer + 1
      /\ begun.touched <=> o.touched
      /\ begun.confirmed <=> o.confirmed
  <2>1. begun = NewAnswer(w)
      BY <1>0
  <2> QED BY <1>2, <2>1, NewAnswerEffect
<1>4. /\ ~w.active /\ UNCHANGED <<chats, net, released, overruled>>
      /\ Becomes(c, IF w.priority # 0 THEN Sync(c, begun, "start") ELSE begun)
    BY <1>0 DEF Start
<1>r. row = Mine(c)
    BY <1>0
<1>5. Core(c, begun, net, row, released) /\ OneCommand(begun)
    BY <1>1, <1>3, CoreKept DEF OneCommand
<1>6. CASE w.priority # 0
  <2> SUFFICES ASSUME NEW v, v = Sync(c, begun, "start")
               PROVE  WInv'
      OBVIOUS
  <2>1. "start" \in Callers /\ "start" # "command"
      BY DEF Callers
  <2>2. v \in WindowType /\ Core(c, v, net, row, released) /\ Told(c, v, net, row, overruled)
      BY <1>1, <1>3, <1>5, <2>1, SyncKeeps
  <2>3. OneCommand(v)
      BY <1>1, <1>3, <1>5, <2>1, SyncCommand
  <2> QED BY <1>4, <1>6, <2>2, <2>3, <1>r, WindowStep
<1>7. CASE w.priority = 0
  <2>1. Stands(begun) = Stands(o)
      BY <1>2, <1>3, <1>4, <1>7 DEF Stands
  <2>2. Told(c, begun, net, row, overruled)
      BY <1>1, <1>3, <2>1, ToldKept
  <2> QED BY <1>3, <1>4, <1>5, <1>7, <2>2, <1>r, WindowStep
<1> QED BY <1>6, <1>7

\* agent_settled: the release of an answer that was announced is sent.
LEMMA ReleaseKeeps ==
    ASSUME WInv, NEW c \in Open, Release(c)
    PROVE  WInv'
<1>0. SUFFICES ASSUME NEW w, w = windows[c], NEW row, row = Mine(c),
                    NEW ended, ended = [w EXCEPT !.busy = FALSE, !.timer = FALSE, !.active = FALSE]
             PROVE  WInv'
    OBVIOUS
<1>1. /\ c \in Client /\ w \in WindowType /\ net \in SUBSET UpdateType
      /\ row \in RowType \cup {None} /\ OneCommand(w)
      /\ Core(c, w, net, row, released) /\ Told(c, w, net, row, overruled)
    BY <1>0, OpenFacts
<1>2. /\ ended \in WindowType
      /\ ended.sequence = w.sequence /\ ended.queue = w.queue /\ ended.sending = w.sending
      /\ ended.priority = w.priority /\ ended.previous = w.previous /\ ended.answer = w.answer
      /\ ~ended.active
      /\ ended.touched <=> w.touched
      /\ ended.confirmed <=> w.confirmed
    BY <1>0, <1>1 DEF WindowType
<1>3. /\ UNCHANGED <<chats, net, released, overruled>>
      /\ Becomes(c, IF w.active /\ w.touched THEN Sync(c, ended, "release") ELSE ended)
    BY <1>0 DEF Release
<1>r. row = Mine(c)
    BY <1>0
<1>4. Core(c, ended, net, row, released) /\ OneCommand(ended)
    BY <1>1, <1>2, CoreKept DEF OneCommand
<1>5. CASE w.active /\ w.touched
  <2> SUFFICES ASSUME NEW v, v = Sync(c, ended, "release")
               PROVE  WInv'
      OBVIOUS
  <2>1. "release" \in Callers /\ "release" # "command"
      BY DEF Callers
  <2>2. v \in WindowType /\ Core(c, v, net, row, released) /\ Told(c, v, net, row, overruled)
      BY <1>1, <1>2, <1>4, <2>1, SyncKeeps
  <2>3. OneCommand(v)
      BY <1>1, <1>2, <1>4, <2>1, SyncCommand
  <2> QED BY <1>3, <1>5, <2>2, <2>3, <1>r, WindowStep
<1>6. CASE ~(w.active /\ w.touched)
  <2>1. Told(c, ended, net, row, overruled)
    <3>1. CASE ~w.active
      <4>1. Stands(ended) = Stands(w)
          BY <1>2, <3>1 DEF Stands
      <4> QED BY <1>1, <1>2, <4>1, ToldKept
    <3>2. CASE ~w.touched
        BY <1>1, <1>2, <3>2 DEF Told
    <3> QED BY <1>6, <3>1, <3>2
  <2> QED BY <1>2, <1>3, <1>4, <1>6, <2>1, <1>r, WindowStep
<1> QED BY <1>5, <1>6

\* The heartbeat timer.
LEMMA TickKeeps ==
    ASSUME WInv, NEW c \in Open, Tick(c)
    PROVE  WInv'
<1> SUFFICES ASSUME NEW w, w = windows[c], NEW row, row = Mine(c),
                    NEW v, v = Sync(c, w, "heartbeat")
             PROVE  WInv'
    OBVIOUS
<1>1. /\ c \in Client /\ w \in WindowType /\ net \in SUBSET UpdateType
      /\ row \in RowType \cup {None} /\ OneCommand(w)
      /\ Core(c, w, net, row, released) /\ Told(c, w, net, row, overruled)
    BY OpenFacts
<1>2. "heartbeat" \in Callers /\ "heartbeat" # "command"
    BY DEF Callers
<1>3. v \in WindowType /\ Core(c, v, net, row, released) /\ Told(c, v, net, row, overruled)
    BY <1>1, <1>2, SyncKeeps
<1>4. OneCommand(v)
    BY <1>1, <1>2, SyncCommand
<1>5. UNCHANGED <<chats, net, released, overruled>> /\ Becomes(c, v)
    BY DEF Tick
<1> QED BY <1>3, <1>4, <1>5, WindowStep

\* /priority v.
LEMMA CommandKeeps ==
    ASSUME WInv, NEW c \in Open, NEW p \in Priority, Command(c, p)
    PROVE  WInv'
<1>0. SUFFICES ASSUME NEW w, w = windows[c], NEW row, row = Mine(c),
                    NEW set, set = [w EXCEPT !.priority = p, !.previous = w.priority],
                    NEW x, x = IF ~w.active /\ w.busy THEN NewAnswer(set) ELSE set,
                    NEW v, v = Sync(c, x, "command")
             PROVE  WInv'
    OBVIOUS
<1>1. /\ c \in Client /\ w \in WindowType /\ net \in SUBSET UpdateType
      /\ row \in RowType \cup {None} /\ OneCommand(w)
      /\ Core(c, w, net, row, released) /\ Told(c, w, net, row, overruled)
    BY <1>0, OpenFacts
<1>r. row = Mine(c) /\ v = Sync(c, x, "command")
    BY <1>0
<1>2. /\ w.previous = None /\ UNCHANGED <<chats, net, released, overruled>> /\ Becomes(c, v)
    BY <1>0 DEF Command
<1>3. w.priority \in Priority /\ w.priority # None
    BY <1>1, WindowFacts, RegistryAssumption
<1>4. /\ set \in WindowType
      /\ set.sequence = w.sequence /\ set.queue = w.queue /\ set.sending = w.sending
      /\ set.answer = w.answer /\ set.previous = w.priority
      /\ set.active <=> w.active
    BY <1>0, <1>1, <1>3 DEF WindowType
<1>5. /\ x \in WindowType
      /\ x.sequence = w.sequence /\ x.queue = w.queue /\ x.sending = w.sending
      /\ x.previous = w.priority
      /\ (x.answer = w.answer /\ (x.active => w.active)) \/ x.answer = w.answer + 1
  <2>1. x = NewAnswer(set) \/ x = set
      BY <1>0
  <2> QED BY <1>4, <2>1, NewAnswerEffect
<1>6. Core(c, x, net, row, released)
    BY <1>1, <1>5, CoreKept
<1>7. /\ \A i \in 1..Len(x.queue) : x.queue[i].by # "command"
      /\ x.sending # None => x.sending.by # "command"
      /\ OneCommand(x)
    BY <1>1, <1>2, <1>5 DEF OneCommand
<1>8. "command" \in Callers
    BY DEF Callers
<1>9. v \in WindowType /\ Core(c, v, net, row, released) /\ Told(c, v, net, row, overruled)
    BY <1>1, <1>5, <1>6, <1>8, <1>r, SyncKeeps
<1>10. OneCommand(v)
    BY <1>1, <1>3, <1>5, <1>7, <1>8, <1>r, SyncCommand
<1> QED BY <1>2, <1>9, <1>10, <1>r, WindowStep

\* The window gives up on the request it sent.
LEMMA TimeOutKeeps ==
    ASSUME WInv, NEW c \in Open, TimeOut(c)
    PROVE  WInv'
<1> SUFFICES ASSUME NEW w, w = windows[c], NEW row, row = Mine(c),
                    NEW v, v = Failed(c, w)
             PROVE  WInv'
    OBVIOUS
<1>1. /\ c \in Client /\ w \in WindowType /\ net \in SUBSET UpdateType
      /\ row \in RowType \cup {None} /\ OneCommand(w)
      /\ Core(c, w, net, row, released) /\ Told(c, w, net, row, overruled)
    BY OpenFacts
<1>2. w.sending # None /\ UNCHANGED <<chats, net, released, overruled>> /\ Becomes(c, v)
    BY DEF TimeOut
<1>3. v \in WindowType /\ OneCommand(v) /\ Core(c, v, net, row, released) /\ Told(c, v, net, row, overruled)
    BY <1>1, <1>2, FailedKeeps
<1> QED BY <1>2, <1>3, WindowStep

\* The next request of the queue goes out.
LEMMA SendKeeps ==
    ASSUME WInv, NEW c \in Open, Send(c)
    PROVE  WInv'
<1>0. SUFFICES ASSUME NEW w, w = windows[c], NEW row, row = Mine(c),
                      NEW u, u = Head(w.queue),
                      NEW v, v = [w EXCEPT !.sending = u, !.queue = Tail(w.queue)]
               PROVE  WInv'
    OBVIOUS
<1>1. /\ c \in Client /\ w \in WindowType /\ net \in SUBSET UpdateType
      /\ row \in RowType \cup {None} /\ OneCommand(w)
      /\ Core(c, w, net, row, released) /\ Told(c, w, net, row, overruled)
    BY <1>0, OpenFacts
<1>2. /\ w.sending = None /\ w.queue # << >> /\ Becomes(c, v)
      /\ net' = net \cup {u} /\ UNCHANGED <<chats, released, overruled>>
    BY <1>0 DEF Send
<1>3. /\ w.queue \in Seq(UpdateType) /\ w.sequence \in Nat /\ w.answer \in Nat
      /\ \A i \in 1..Len(w.queue) : w.queue[i] \in UpdateType
      /\ \A x \in UpdateType : x.answer \in Nat /\ x.sequence \in Nat
    BY <1>1, WindowFacts DEF UpdateType
<1>4. /\ Len(w.queue) \in Nat \ {0} /\ u = w.queue[1] /\ u \in UpdateType /\ u # None
      /\ Tail(w.queue) \in Seq(UpdateType) /\ Len(Tail(w.queue)) = Len(w.queue) - 1
      /\ \A i \in 1..Len(Tail(w.queue)) : Tail(w.queue)[i] = w.queue[i + 1]
  <2>1. Len(w.queue) \in Nat \ {0} /\ u = w.queue[1] /\ u \in UpdateType
      BY <1>0, <1>2, <1>3
  <2>2. /\ Tail(w.queue) \in Seq(UpdateType) /\ Len(Tail(w.queue)) = Len(w.queue) - 1
        /\ \A i \in 1..Len(Tail(w.queue)) : Tail(w.queue)[i] = w.queue[i + 1]
      BY <1>2, <1>3
  <2>3. u # None
      BY <2>1, WindowAssumption
  <2> QED BY <2>1, <2>2, <2>3
<1>5. /\ v \in WindowType /\ v.sending = u /\ v.queue = Tail(w.queue)
      /\ v.sequence = w.sequence /\ v.answer = w.answer /\ v.priority = w.priority
      /\ v.previous = w.previous
      /\ v.active <=> w.active
      /\ v.touched <=> w.touched
      /\ v.confirmed <=> w.confirmed
  <2>0. SUFFICES ASSUME NEW q \in Seq(UpdateType), q = Tail(w.queue),
                        v = [w EXCEPT !.sending = u, !.queue = q]
                 PROVE  /\ v \in WindowType /\ v.sending = u /\ v.queue = q
                        /\ v.sequence = w.sequence /\ v.answer = w.answer /\ v.priority = w.priority
                        /\ v.previous = w.previous
                        /\ v.active <=> w.active
                        /\ v.touched <=> w.touched
                        /\ v.confirmed <=> w.confirmed
      BY <1>0, <1>4
  <2>1. u \in UpdateType \cup {None}
      BY <1>4
  <2> QED BY <1>1, <2>0, <2>1 DEF WindowType
<1>6. /\ Len(v.queue) = Len(w.queue) - 1 /\ Len(v.queue) \in Nat
      /\ \A i \in 1..Len(v.queue) : i + 1 \in 1..Len(w.queue) /\ v.queue[i] = w.queue[i + 1]
      /\ 1 \in 1..Len(w.queue) /\ Sent(v) = Sent(w) + 1 /\ Sent(w) \in Int
    BY <1>3, <1>4, <1>5 DEF Sent
<1>7. /\ u.client = c /\ u.chat = ChatOf[c] /\ u.sequence = Sent(w) + 1
    BY <1>1, <1>4, <1>6 DEF Core, Numbered
<1>8. Of(c, net') = Of(c, net) \cup {u}
    BY <1>2, <1>7 DEF Of
<1>9. Numbered(c, v, net', row)
  <2>1. \A i \in 1..Len(v.queue) :
          /\ v.queue[i].client = c /\ v.queue[i].chat = ChatOf[c]
          /\ v.queue[i].sequence = Sent(v) + i
    <3> TAKE i \in 1..Len(v.queue)
    <3>1. w.queue[i + 1].client = c /\ w.queue[i + 1].chat = ChatOf[c]
          /\ w.queue[i + 1].sequence = Sent(w) + (i + 1)
        BY <1>1, <1>6 DEF Core, Numbered
    <3> QED BY <1>6, <3>1, SMTT(30)
  <2>2. \A x \in Of(c, net') : x.sequence <= Sent(v)
    <3> TAKE x \in Of(c, net')
    <3>1. CASE x = u
        BY <1>6, <1>7, <3>1
    <3>2. CASE x \in Of(c, net)
      <4>1. x.sequence <= Sent(w) /\ x.sequence \in Nat
          BY <1>1, <1>3, <3>2 DEF Core, Numbered, Of
      <4> QED BY <1>6, <4>1
    <3> QED BY <1>8, <3>1, <3>2
  <2>3. row # None => row.sequence <= Sent(v)
    <3>1. row # None => row.sequence <= Sent(w) /\ row.sequence \in Nat
        BY <1>1 DEF Core, Numbered, RowType
    <3> QED BY <1>6, <3>1
  <2> QED BY <1>5, <1>6, <1>7, <2>1, <2>2, <2>3 DEF Numbered
<1>10. Ordered(c, v, net')
  <2>1. \A i \in 1..Len(v.queue) :
          /\ v.queue[i].answer <= v.answer
          /\ v.queue[i].answer = v.answer /\ v.active => v.queue[i].active
          /\ u.answer = v.queue[i].answer /\ v.queue[i].active => u.active
          /\ \A x \in Of(c, net) : x.answer = v.queue[i].answer /\ v.queue[i].active => x.active
    <3> TAKE i \in 1..Len(v.queue)
    <3>1. i + 1 \in 1..Len(w.queue) /\ v.queue[i] = w.queue[i + 1] /\ 1 < i + 1
        BY <1>6
    <3> QED BY <1>1, <1>4, <1>5, <1>6, <3>1 DEF Core, Ordered
  <2>2. \A i, j \in 1..Len(v.queue) :
          i < j /\ v.queue[i].answer = v.queue[j].answer /\ v.queue[j].active => v.queue[i].active
    <3> SUFFICES ASSUME NEW i \in 1..Len(v.queue), NEW j \in 1..Len(v.queue), i < j
                 PROVE  v.queue[i].answer = v.queue[j].answer /\ v.queue[j].active => v.queue[i].active
        OBVIOUS
    <3>1. i + 1 \in 1..Len(w.queue) /\ v.queue[i] = w.queue[i + 1]
        BY <1>6
    <3>2. j + 1 \in 1..Len(w.queue) /\ v.queue[j] = w.queue[j + 1]
        BY <1>6
    <3>3. i + 1 < j + 1
        BY <1>6
    <3> QED BY <1>1, <3>1, <3>2, <3>3 DEF Core, Ordered
  <2>3. u.answer <= v.answer /\ (u.answer = v.answer /\ v.active => u.active)
      BY <1>1, <1>4, <1>5, <1>6 DEF Core, Ordered
  <2>4. \A x, y \in Of(c, net') :
          x.sequence <= y.sequence /\ x.answer = y.answer /\ y.active => x.active
    <3> SUFFICES ASSUME NEW x \in Of(c, net'), NEW y \in Of(c, net'), x.sequence <= y.sequence,
                        x.answer = y.answer, y.active
                 PROVE  x.active
        OBVIOUS
    <3>1. CASE y = u
        BY <1>1, <1>4, <1>6, <1>8, <3>1 DEF Core, Ordered
    <3>2. CASE y \in Of(c, net)
      <4>1. y.sequence <= Sent(w) /\ y.sequence \in Nat
          BY <1>1, <1>3, <3>2 DEF Core, Numbered, Of
      <4>2. x # u
          BY <1>6, <1>7, <4>1
      <4> QED BY <1>1, <1>8, <3>2, <4>2 DEF Core, Ordered
    <3> QED BY <1>8, <3>1, <3>2
  <2>5. \A x \in Of(c, net) : x.answer <= v.answer /\ (x.answer = v.answer /\ v.active => x.active)
      BY <1>1, <1>5 DEF Core, Ordered
  <2> QED BY <1>8, <2>1, <2>2, <2>3, <2>4, <2>5 DEF Ordered
<1>11. Outlived(c, net', row)
  <2>1. row # None => u.sequence > row.sequence
    <3>1. row # None => row.sequence <= Sent(w) /\ row.sequence \in Nat
        BY <1>1 DEF Core, Numbered, RowType
    <3> QED BY <1>6, <1>7, <3>1
  <2> QED BY <1>1, <1>8, <2>1 DEF Core, Outlived
<1>12. Gone(c, v, net', row, released)
  <2> SUFFICES ASSUME NEW a \in Nat, <<c, a>> \in released
               PROVE  /\ a <= v.answer /\ (a = v.answer => ~v.active)
                      /\ \A i \in 1..Len(v.queue) : v.queue[i].answer = a => ~v.queue[i].active
                      /\ \A x \in Of(c, net') : x.answer = a /\ x.active =>
                           row # None /\ row.lease # "stale" /\ x.sequence < row.sequence
                      /\ row # None /\ row.answer = a => ~row.active
      BY DEF Gone
  <2>1. \A i \in 1..Len(w.queue) : w.queue[i].answer = a => ~w.queue[i].active
      BY <1>1 DEF Core, Gone
  <2>2. \A i \in 1..Len(v.queue) : v.queue[i].answer = a => ~v.queue[i].active
      BY <1>6, <2>1
  <2>3. u.answer = a => ~u.active
      BY <1>4, <1>6, <2>1
  <2> QED BY <1>1, <1>5, <1>8, <2>2, <2>3 DEF Core, Gone
<1>13. Told(c, v, net', row, overruled)
  <2>1. Stands(v) = Stands(w)
      BY <1>5 DEF Stands
  <2>2. v.queue # << >> => Stands(v.queue[Len(v.queue)]) = Stands(w)
    <3>1. v.queue # << >> => Len(v.queue) \in 1..Len(v.queue)
        BY <1>5, <1>4
    <3>2. v.queue # << >> => v.queue[Len(v.queue)] = w.queue[Len(w.queue)]
        BY <1>4, <1>6, <3>1, SMTT(30)
    <3> QED BY <1>1, <1>2, <3>2 DEF Told
  <2>3. v.queue = << >> => Stands(u) = Stands(w)
    <3>1. v.queue = << >> => Len(w.queue) = 1
        BY <1>4, <1>6
    <3> QED BY <1>1, <1>2, <1>4, <3>1 DEF Told
  <2>4. w.touched
      BY <1>1, <1>2 DEF Told
  <2> QED BY <1>4, <1>5, <2>1, <2>2, <2>3, <2>4 DEF Told
<1>14. OneCommand(v)
    BY <1>1, <1>2, <1>4, <1>5, <1>6 DEF OneCommand
<1>15. windows \in [Open -> WindowType]
    BY DEF WInv, Types
<1>16. /\ Open' = Open /\ windows' \in [Open -> WindowType]
       /\ \A d \in Open : windows'[d] = IF d = c THEN v ELSE windows[d]
    BY <1>2, <1>5, <1>15 DEF Becomes, Open
<1>17. Types'
    BY <1>2, <1>4, <1>7, <1>16 DEF WInv, Types
<1>18. ASSUME NEW d \in Open
       PROVE  /\ OneCommand(windows'[d])
              /\ Core(d, windows'[d], net', Mine(d)', released')
              /\ Told(d, windows'[d], net', Mine(d)', overruled')
  <2>0. Mine(d)' = Mine(d)
      BY <1>2 DEF Mine
  <2>1. CASE d = c
      BY <1>0, <1>2, <1>9, <1>10, <1>11, <1>12, <1>13, <1>14, <1>16, <2>0, <2>1 DEF Core
  <2>2. CASE d # c
    <3>1. Of(d, net') = Of(d, net)
        BY <1>2, <1>7, <2>2 DEF Of
    <3>2. windows'[d] = windows[d]
        BY <1>16, <2>2
    <3>3. /\ OneCommand(windows[d]) /\ Core(d, windows[d], net, Mine(d), released)
          /\ Told(d, windows[d], net, Mine(d), overruled)
        BY OpenFacts
    <3>4. Core(d, windows[d], net', Mine(d), released) /\ Told(d, windows[d], net', Mine(d), overruled)
        BY <3>1, <3>3, ZenonT(60) DEF Core, Numbered, Ordered, Outlived, Gone, Told
    <3> QED BY <1>2, <2>0, <3>2, <3>3, <3>4
  <2> QED BY <2>1, <2>2
<1>19. Overruling'
    BY <1>2, <1>16 DEF WInv, Overruling
<1> QED BY <1>16, <1>17, <1>18, <1>19 DEF WInv

\* The row an update would leave.
LEMMA RowFacts ==
    ASSUME NEW u \in UpdateType
    PROVE  /\ Row(u) \in RowType /\ Row(u).client = u.client /\ Row(u).answer = u.answer
           /\ Row(u).sequence = u.sequence /\ Row(u).priority = u.priority
           /\ Row(u).active <=> u.active
           /\ Row(u).lease = "held" /\ Row(u) # None
<1>1. Row(u) \in RowType
    BY DEF Row, RowType, UpdateType, Lease
<1>2. Row(u) # None
    BY <1>1, RegistryAssumption
<1>3. /\ Row(u).client = u.client /\ Row(u).answer = u.answer
      /\ Row(u).sequence = u.sequence /\ Row(u).priority = u.priority
      /\ Row(u).active <=> u.active
      /\ Row(u).lease = "held"
    BY DEF Row
<1> QED BY <1>1, <1>2, <1>3

\* What the registry makes of one update of an open window (AnswerPriorities.update).
LEMMA RegistryStep ==
    ASSUME WInv, NEW u \in net, chats' = Updated(u)
    PROVE  /\ chats' \in [Chat -> RowType \cup {None}]
           /\ u.chat \in Chat
           /\ \A ch \in Chat \ {u.chat} :
                \/ chats'[ch] = chats[ch]
                \/ chats'[ch] = None /\ chats[ch].lease = "stale"
           /\ Applies(u) =>
                /\ chats'[u.chat] \in RowType /\ chats'[u.chat] # None
                /\ chats'[u.chat].client = u.client
                /\ chats'[u.chat].sequence = u.sequence /\ chats'[u.chat].answer = u.answer
                /\ chats'[u.chat].priority = u.priority
                /\ chats'[u.chat].active <=> u.active
           /\ Accepted(u) =>
                /\ chats'[u.chat].lease = "held"
                /\ \/ chats[u.chat] = None \/ chats[u.chat].client # u.client
                   \/ chats[u.chat].sequence < u.sequence
           /\ ~Accepted(u) =>
                \/ chats'[u.chat] = chats[u.chat]
                \/ ~Applies(u) /\ chats'[u.chat] = None
                     /\ (chats[u.chat] = None \/ chats[u.chat].lease = "stale")
<1> SUFFICES ASSUME NEW ch, ch = u.chat, NEW old, old = chats[ch], NEW c, c = u.client
             PROVE  /\ chats' \in [Chat -> RowType \cup {None}]
                    /\ ch \in Chat
                    /\ \A x \in Chat \ {ch} :
                         chats'[x] = chats[x] \/ (chats'[x] = None /\ chats[x].lease = "stale")
                    /\ Applies(u) =>
                         /\ chats'[ch] \in RowType /\ chats'[ch] # None
                         /\ chats'[ch].client = c
                         /\ chats'[ch].sequence = u.sequence /\ chats'[ch].answer = u.answer
                         /\ chats'[ch].priority = u.priority
                         /\ chats'[ch].active <=> u.active
                    /\ Accepted(u) =>
                         /\ chats'[ch].lease = "held"
                         /\ old = None \/ old.client # c \/ old.sequence < u.sequence
                    /\ ~Accepted(u) =>
                         \/ chats'[ch] = old
                         \/ ~Applies(u) /\ chats'[ch] = None /\ (old = None \/ old.lease = "stale")
    OBVIOUS
<1>1. /\ u \in UpdateType /\ chats \in [Chat -> RowType \cup {None}] /\ c \in Open
      /\ Open \in DOMAIN Bounds /\ c \in Client /\ ch = ChatOf[c] /\ ch \in Chat
  <2>1. u \in UpdateType /\ u.client \in Open /\ u.chat = ChatOf[u.client] /\ Open \in DOMAIN Bounds
      BY DEF WInv, Types
  <2> QED BY <2>1, OpenFacts DEF WInv, Types
<1>2. old \in RowType \cup {None} /\ u.sequence \in Nat /\ (old # None => old.sequence \in Nat)
    BY <1>1 DEF RowType, UpdateType
<1>3. /\ Row(u) \in RowType /\ Row(u).client = c /\ Row(u).answer = u.answer
      /\ Row(u).sequence = u.sequence /\ Row(u).priority = u.priority
      /\ Row(u).active <=> u.active
      /\ Row(u).lease = "held" /\ Row(u) # None
    BY <1>1, RowFacts
<1>4. /\ Purged \in [Chat -> RowType \cup {None}]
      /\ \A x \in Chat : Purged[x] = IF chats[x] # None /\ chats[x].lease = "stale" THEN None ELSE chats[x]
    BY <1>1 DEF Purged
<1>5. CASE Duplicate(u)
  <2>1. chats' = chats /\ Applies(u) /\ ~Accepted(u)
      BY <1>5 DEF Updated, Applies, Accepted
  <2>2. old # None /\ [old EXCEPT !.lease = "held"] = Row(u)
      BY <1>5 DEF Duplicate
  <2>3. /\ [old EXCEPT !.lease = "held"].client = old.client
        /\ [old EXCEPT !.lease = "held"].sequence = old.sequence
        /\ [old EXCEPT !.lease = "held"].answer = old.answer
        /\ [old EXCEPT !.lease = "held"].priority = old.priority
        /\ [old EXCEPT !.lease = "held"].active <=> old.active
      BY <1>2, <2>2 DEF RowType
  <2> QED BY <1>1, <1>2, <1>3, <2>1, <2>2, <2>3, ZenonT(60)
<1>6. CASE ~Duplicate(u) /\ Refused(u)
  <2>1. chats' = chats /\ ~Applies(u) /\ ~Accepted(u)
      BY <1>6 DEF Updated, Applies, Accepted
  <2> QED BY <1>1, <2>1
<1>7. CASE ~Duplicate(u) /\ ~Refused(u) /\ Full(u)
  <2>1. chats' = Purged /\ ~Applies(u) /\ ~Accepted(u) /\ Purged[ch] = None
      BY <1>7 DEF Updated, Applies, Full, Accepted
  <2> QED BY <1>1, <1>4, <2>1
<1>8. CASE ~Duplicate(u) /\ ~Refused(u) /\ ~Full(u)
  <2>1. chats' = [Purged EXCEPT ![ch] = Row(u)] /\ Applies(u) /\ Accepted(u)
      BY <1>8 DEF Updated, Applies, Accepted
  <2>2. /\ chats' \in [Chat -> RowType \cup {None}] /\ chats'[ch] = Row(u)
        /\ \A x \in Chat \ {ch} : chats'[x] = Purged[x]
      BY <1>1, <1>3, <1>4, <2>1
  <2>3. old = None \/ old.client # c \/ old.sequence < u.sequence
      BY <1>2, <1>8 DEF Refused
  <2> QED BY <1>1, <1>3, <1>4, <2>1, <2>2, <2>3
<1> QED BY <1>5, <1>6, <1>7, <1>8

\* The engine executes an update, in time, late or again.
LEMMA ExecuteKeeps ==
    ASSUME WInv,
           NEW u \in net, NEW replied \in BOOLEAN, NEW again \in BOOLEAN,
           Execute(u, replied, again)
    PROVE  WInv'
<1>0. SUFFICES ASSUME NEW c, c = u.client, NEW w, w = windows[c], NEW old, old = Mine(c),
                      NEW row, row = Mine(c)'
               PROVE  WInv'
    OBVIOUS
<1>1. u \in UpdateType /\ c \in Open /\ u.chat = ChatOf[c] /\ windows \in [Open -> WindowType]
      /\ Open \in DOMAIN Bounds
    BY <1>0 DEF WInv, Types
<1>2. /\ c \in Client /\ w \in WindowType /\ ChatOf[c] \in Chat /\ net \in SUBSET UpdateType
      /\ old \in RowType \cup {None} /\ OneCommand(w)
      /\ Core(c, w, net, old, released) /\ Told(c, w, net, old, overruled)
    BY <1>0, <1>1, OpenFacts
<1>3. /\ chats' = Updated(u) /\ net' \subseteq net
      /\ \A a : <<c, a>> \in released' => <<c, a>> \in released \/ (Applies(u) /\ a = u.answer /\ ~u.active)
      /\ \A d \in Client \ {c} : \A a : <<d, a>> \in released' =>
           <<d, a>> \in released /\ (Accepted(u) => d \notin Foreign(c))
      /\ c \in overruled => c \in overruled' \/ (replied /\ w.sending = u /\ Applies(u))
      /\ \A d \in Client \ {c} : d \in overruled \/ (Accepted(u) /\ d \in Foreign(c)) => d \in overruled'
      /\ IF replied /\ w.sending = u
         THEN Becomes(c, IF Applies(u) THEN Confirmed(w) ELSE Failed(c, w))
         ELSE UNCHANGED windows
    BY <1>0 DEF Execute
<1>4. /\ chats' \in [Chat -> RowType \cup {None}]
      /\ \A ch \in Chat \ {ChatOf[c]} :
           chats'[ch] = chats[ch] \/ (chats'[ch] = None /\ chats[ch].lease = "stale")
      /\ Applies(u) =>
           /\ row = chats'[ChatOf[c]] /\ row \in RowType /\ row # None /\ row.client = c
           /\ row.sequence = u.sequence /\ row.answer = u.answer /\ row.priority = u.priority
           /\ row.active <=> u.active
           /\ \/ row = old /\ old # None
              \/ row.lease = "held" /\ (old = None \/ old.sequence < u.sequence)
      /\ ~Applies(u) => row = old \/ (row = None /\ (old = None \/ old.lease = "stale"))
      /\ ~Accepted(u) => \/ chats'[ChatOf[c]] = chats[ChatOf[c]]
                         \/ ~Applies(u) /\ chats'[ChatOf[c]] = None
                              /\ (chats[ChatOf[c]] = None \/ chats[ChatOf[c]].lease = "stale")
  <2>1. /\ old = IF chats[ChatOf[c]] # None /\ chats[ChatOf[c]].client = c THEN chats[ChatOf[c]] ELSE None
        /\ row = IF chats'[ChatOf[c]] # None /\ chats'[ChatOf[c]].client = c THEN chats'[ChatOf[c]] ELSE None
      BY <1>0 DEF Mine
  <2>2. u.client = c /\ u.chat = ChatOf[c]
      BY <1>0, <1>1
  <2>3. Accepted(u) => Applies(u)
      BY DEF Accepted
  <2>4. /\ chats' \in [Chat -> RowType \cup {None}]
        /\ \A ch \in Chat \ {ChatOf[c]} :
             chats'[ch] = chats[ch] \/ (chats'[ch] = None /\ chats[ch].lease = "stale")
        /\ Applies(u) =>
             /\ chats'[ChatOf[c]] \in RowType /\ chats'[ChatOf[c]] # None
             /\ chats'[ChatOf[c]].client = c
             /\ chats'[ChatOf[c]].sequence = u.sequence /\ chats'[ChatOf[c]].answer = u.answer
             /\ chats'[ChatOf[c]].priority = u.priority
             /\ chats'[ChatOf[c]].active <=> u.active
        /\ Accepted(u) =>
             /\ chats'[ChatOf[c]].lease = "held"
             /\ \/ chats[ChatOf[c]] = None \/ chats[ChatOf[c]].client # c
                \/ chats[ChatOf[c]].sequence < u.sequence
        /\ ~Accepted(u) =>
             \/ chats'[ChatOf[c]] = chats[ChatOf[c]]
             \/ ~Applies(u) /\ chats'[ChatOf[c]] = None
                  /\ (chats[ChatOf[c]] = None \/ chats[ChatOf[c]].lease = "stale")
      BY <1>3, <2>2, RegistryStep
  <2> QED BY <2>1, <2>3, <2>4
<1>5. u \in Of(c, net) /\ u.sequence \in Nat
    BY <1>0, <1>1 DEF Of, UpdateType
<1>6. Applies(u) => row.lease # "stale"
    BY <1>2, <1>4, <1>5 DEF Core, Outlived
<1>7. Core(c, w, net', row, released') /\ Told(c, w, net', row, overruled)
  <2>1. Core(c, w, net, row, released') /\ Told(c, w, net, row, overruled)
    <3>1. CASE Applies(u)
      <4>1. \A a \in Nat : <<c, a>> \in released' =>
              <<c, a>> \in released \/ (a = u.answer /\ ~u.active)
          BY <1>3
      <4>2. /\ row \in RowType /\ row # None /\ row.sequence = u.sequence /\ row.answer = u.answer
            /\ row.priority = u.priority
            /\ row.active <=> u.active
            /\ row.lease # "stale"
            /\ row = old \/ old = None \/ old.sequence < u.sequence
          BY <1>4, <1>6, <3>1
      <4>3. u.client = c
          BY <1>0
      <4> SUFFICES ASSUME NEW S, S = released', NEW N, N = net
                   PROVE  Core(c, w, N, row, S) /\ Told(c, w, N, row, overruled)
          OBVIOUS
      <4> QED BY <1>2, <4>1, <4>2, <4>3, UpdateApplied
    <3>2. CASE ~Applies(u)
      <4>1. Core(c, w, net, row, released) /\ Told(c, w, net, row, overruled)
          BY <1>2, <1>4, <3>2, RowPurged
      <4> QED BY <1>3, <3>2, <4>1 DEF Core, Gone
    <3> QED BY <3>1, <3>2
  <2> QED BY <1>3, <2>1, FewerOnTheWay
<1>8. row \in RowType \cup {None} /\ net' \in SUBSET UpdateType
    BY <1>0, <1>2, <1>3, <1>4
<1>9. \E v \in WindowType :
        /\ windows' = [windows EXCEPT ![c] = v]
        /\ OneCommand(v) /\ Core(c, v, net', row, released') /\ Told(c, v, net', row, overruled')
  <2>1. CASE ~(replied /\ w.sending = u)
    <3>1. windows' = [windows EXCEPT ![c] = w]
        BY <1>0, <1>1, <1>3, <2>1
    <3>2. Told(c, w, net', row, overruled')
        BY <1>3, <1>7, <2>1, FewerOnTheWay
    <3> QED BY <1>2, <1>7, <3>1, <3>2
  <2>2. CASE replied /\ w.sending = u /\ Applies(u)
    <3> SUFFICES ASSUME NEW v, v = Confirmed(w)
                 PROVE  v \in WindowType /\ windows' = [windows EXCEPT ![c] = v]
                        /\ OneCommand(v) /\ Core(c, v, net', row, released') /\ Told(c, v, net', row, overruled')
        OBVIOUS
    <3>1. windows' = [windows EXCEPT ![c] = v]
        BY <1>3, <2>2 DEF Becomes
    <3>2. u # None
        BY <1>1, WindowAssumption
    <3>3. Stands(row) = Stands(u)
        BY <1>4, <2>2 DEF Stands
    <3>4. v \in WindowType /\ OneCommand(v) /\ Core(c, v, net', row, released') /\ Told(c, v, net', row, overruled')
        BY <1>2, <1>4, <1>6, <1>7, <1>8, <2>2, <3>2, <3>3, ConfirmedKeeps
    <3> QED BY <3>1, <3>4
  <2>3. CASE replied /\ w.sending = u /\ ~Applies(u)
    <3> SUFFICES ASSUME NEW v, v = Failed(c, w)
                 PROVE  v \in WindowType /\ windows' = [windows EXCEPT ![c] = v]
                        /\ OneCommand(v) /\ Core(c, v, net', row, released') /\ Told(c, v, net', row, overruled')
        OBVIOUS
    <3>1. windows' = [windows EXCEPT ![c] = v]
        BY <1>3, <2>3 DEF Becomes
    <3>2. u # None
        BY <1>1, WindowAssumption
    <3>3. v \in WindowType /\ OneCommand(v) /\ Core(c, v, net', row, released') /\ Told(c, v, net', row, overruled')
      <4>1. Told(c, w, net', row, overruled')
          BY <1>3, <1>7, <2>3, FewerOnTheWay
      <4> QED BY <1>2, <1>7, <1>8, <2>3, <3>2, <4>1, FailedKeeps
    <3> QED BY <3>1, <3>3
  <2> QED BY <2>1, <2>2, <2>3
<1>10. PICK v \in WindowType :
        /\ windows' = [windows EXCEPT ![c] = v]
        /\ OneCommand(v) /\ Core(c, v, net', row, released') /\ Told(c, v, net', row, overruled')
    BY <1>9
<1>11. /\ Open' = Open /\ windows' \in [Open -> WindowType]
       /\ \A d \in Open : windows'[d] = IF d = c THEN v ELSE windows[d]
    BY <1>1, <1>10 DEF Open
<1>12. ASSUME NEW d \in Open
       PROVE  /\ OneCommand(windows'[d])
              /\ Core(d, windows'[d], net', Mine(d)', released')
              /\ Told(d, windows'[d], net', Mine(d)', overruled')
  <2>1. CASE d = c
      BY <1>0, <1>10, <1>11, <2>1
  <2>2. CASE d # c
    <3>1. windows'[d] = windows[d] /\ d \in Client \ {c}
        BY <1>11, <2>2, OpenFacts
    <3>2. /\ ChatOf[d] \in Chat /\ OneCommand(windows[d])
          /\ Core(d, windows[d], net, Mine(d), released)
          /\ Told(d, windows[d], net, Mine(d), overruled)
        BY OpenFacts
    <3>3. CASE Accepted(u) /\ ChatOf[d] = ChatOf[c]
      <4>1. d \in Foreign(c)
          BY <3>1, <3>3 DEF Foreign
      <4>2. Mine(d)' = None
        <5>1. chats'[ChatOf[d]].client = c
            BY <1>4, <3>3 DEF Accepted
        <5> QED BY <2>2, <5>1 DEF Mine
      <4>3. (\A a : <<d, a>> \notin released') /\ d \in overruled'
          BY <1>3, <3>1, <3>3, <4>1
      <4>4. Core(d, windows[d], net, None, released') /\ Told(d, windows[d], net, None, overruled')
          BY <3>2, <4>3, RowTaken
      <4>5. Core(d, windows[d], net', None, released') /\ Told(d, windows[d], net', None, overruled')
          BY <1>3, <4>4, FewerOnTheWay
      <4> QED BY <3>1, <3>2, <4>2, <4>5
    <3>4. CASE ~(Accepted(u) /\ ChatOf[d] = ChatOf[c])
      <4>1. \/ chats'[ChatOf[d]] = chats[ChatOf[d]]
            \/ chats'[ChatOf[d]] = None /\ (chats[ChatOf[d]] = None \/ chats[ChatOf[d]].lease = "stale")
          BY <1>4, <3>2, <3>4
      <4>2. Mine(d)' = Mine(d) \/ (Mine(d)' = None /\ (Mine(d) = None \/ Mine(d).lease = "stale"))
          BY <4>1 DEF Mine
      <4>3. (\A a : <<d, a>> \in released' => <<d, a>> \in released) /\ (d \in overruled => d \in overruled')
          BY <1>3, <3>1
      <4>4. Core(d, windows[d], net, Mine(d), released')
          BY <3>2, <4>3 DEF Core, Gone
      <4>5. Core(d, windows[d], net, Mine(d)', released') /\ Told(d, windows[d], net, Mine(d)', overruled)
          BY <3>2, <4>2, <4>4, RowPurged
      <4>6. Core(d, windows[d], net', Mine(d)', released') /\ Told(d, windows[d], net', Mine(d)', overruled')
          BY <1>3, <4>3, <4>5, FewerOnTheWay
      <4> QED BY <3>1, <3>2, <4>6
    <3> QED BY <3>3, <3>4
  <2> QED BY <2>1, <2>2
<1>14. Overruling'
  <2> SUFFICES ASSUME NEW d \in Open, chats'[ChatOf[d]] # None, chats'[ChatOf[d]].client # d
               PROVE  d \in overruled'
      BY <1>11 DEF Overruling
  <2>1. ChatOf[d] \in Chat /\ d \in Client
      BY OpenFacts
  <2>2. CASE Accepted(u) /\ ChatOf[d] = ChatOf[c]
    <3>1. d # c
        BY <1>4, <2>2 DEF Accepted
    <3>2. d \in Foreign(c)
        BY <2>1, <2>2, <3>1 DEF Foreign
    <3> QED BY <1>3, <2>1, <2>2, <3>1, <3>2
  <2>3. CASE ~(Accepted(u) /\ ChatOf[d] = ChatOf[c])
    <3>1. chats'[ChatOf[d]] = chats[ChatOf[d]]
        BY <1>4, <2>1, <2>3
    <3>2. d \in overruled
        BY <3>1 DEF WInv, Overruling
    <3>3. d = c => ~Applies(u)
        BY <1>4
    <3> QED BY <1>3, <2>1, <3>2, <3>3
  <2> QED BY <2>2, <2>3
<1>13. Types'
  <2>1. \A ch \in Chat : chats'[ch] # None => chats'[ch].client \in Open /\ ChatOf[chats'[ch].client] = ch
    <3> SUFFICES ASSUME NEW ch \in Chat, chats'[ch] # None
                 PROVE  chats'[ch].client \in Open /\ ChatOf[chats'[ch].client] = ch
        OBVIOUS
    <3>1. CASE chats'[ch] = chats[ch]
        BY <3>1 DEF WInv, Types
    <3>2. CASE chats'[ch] # chats[ch]
      <4>1. ch = ChatOf[c] /\ chats'[ch].client = c
          BY <1>4, <3>2 DEF Accepted
      <4> QED BY <1>0, <1>1, <4>1
    <3> QED BY <3>1, <3>2
  <2> QED BY <1>3, <1>4, <1>8, <1>11, <2>1 DEF WInv, Types
<1> QED BY <1>11, <1>12, <1>13, <1>14 DEF WInv

\* A request is lost.
LEMMA LoseKeeps ==
    ASSUME WInv, NEW u \in net, Lose(u)
    PROVE  WInv'
<1>1. net' \subseteq net /\ net' \in SUBSET net /\ UNCHANGED <<chats, windows, released, overruled>>
    BY DEF Lose
<1>2. Types' /\ Open' = Open /\ Overruling'
    BY <1>1 DEF WInv, Types, Open, Overruling
<1>3. ASSUME NEW d \in Open
      PROVE  /\ OneCommand(windows[d])
             /\ Core(d, windows[d], net', Mine(d), released)
             /\ Told(d, windows[d], net', Mine(d), overruled)
  <2>1. /\ OneCommand(windows[d]) /\ Core(d, windows[d], net, Mine(d), released)
        /\ Told(d, windows[d], net, Mine(d), overruled)
      BY OpenFacts
  <2> QED BY <1>1, <2>1, FewerOnTheWay
<1>4. \A d \in Open : Mine(d)' = Mine(d)
    BY <1>1 DEF Mine
<1> QED BY <1>1, <1>2, <1>3, <1>4 DEF WInv

\* The clock passes a deadline of a row.
LEMMA DeadlineKeeps ==
    ASSUME WInv, NEW ch \in Chat, LeaseRunsOut(ch) \/ TombstoneRunsOut(ch)
    PROVE  WInv'
<1> SUFFICES ASSUME NEW old, old = chats[ch], NEW row, row = chats'[ch]
             PROVE  WInv'
    OBVIOUS
<1>1. /\ chats \in [Chat -> RowType \cup {None}] /\ UNCHANGED <<windows, net, released, overruled>>
      /\ old # None
      /\ \/ old.lease = "held" /\ chats' = [chats EXCEPT ![ch].lease = "lapsed"]
         \/ /\ old.lease = "lapsed" /\ chats' = [chats EXCEPT ![ch].lease = "stale"]
            /\ \A u \in net : u.chat # ch
    BY DEF LeaseRunsOut, TombstoneRunsOut, LeaseEnds, TombstoneEnds, WInv, Types
<1>2. \A x \in Chat \ {ch} : chats'[x] = chats[x]
    BY <1>1
<1>3. /\ row \in RowType /\ row.client = old.client /\ row.answer = old.answer
      /\ row.sequence = old.sequence /\ row.priority = old.priority
      /\ row.active <=> old.active
      /\ \/ old.lease # "stale" /\ row.lease # "stale"
         \/ \A u \in net : u.chat # ch
  <2>1. old \in RowType
      BY <1>1
  <2>2. CASE old.lease = "held" /\ chats' = [chats EXCEPT ![ch].lease = "lapsed"]
    <3>1. row = [old EXCEPT !.lease = "lapsed"]
        BY <1>1, <2>2
    <3> QED BY <2>1, <2>2, <3>1 DEF RowType, Lease
  <2>3. CASE /\ old.lease = "lapsed" /\ chats' = [chats EXCEPT ![ch].lease = "stale"]
             /\ \A u \in net : u.chat # ch
    <3>1. row = [old EXCEPT !.lease = "stale"]
        BY <1>1, <2>3
    <3> QED BY <2>1, <2>3, <3>1 DEF RowType, Lease
  <2> QED BY <1>1, <2>2, <2>3
<1>4. row # None
    BY <1>3, RegistryAssumption
<1>5. Open' = Open /\ Types'
  <2>1. chats' \in [Chat -> RowType \cup {None}]
      BY <1>1, <1>2, <1>3
  <2> QED BY <1>1, <1>2, <1>3, <2>1 DEF WInv, Types, Open
<1>6. ASSUME NEW d \in Open
      PROVE  /\ OneCommand(windows[d])
             /\ Core(d, windows[d], net, Mine(d)', released)
             /\ Told(d, windows[d], net, Mine(d)', overruled)
  <2>1. /\ ChatOf[d] \in Chat /\ OneCommand(windows[d])
        /\ Core(d, windows[d], net, Mine(d), released)
        /\ Told(d, windows[d], net, Mine(d), overruled)
      BY OpenFacts
  <2>2. CASE ChatOf[d] # ch \/ old.client # d
    <3>1. Mine(d)' = Mine(d)
        BY <1>2, <1>3, <2>1, <2>2 DEF Mine
    <3> QED BY <2>1, <3>1
  <2>3. CASE ChatOf[d] = ch /\ old.client = d
    <3>0. Mine(d) = old /\ Mine(d)' = row
        BY <1>1, <1>3, <1>4, <2>3 DEF Mine
    <3>1. (row.lease # "stale" /\ old.lease # "stale") \/ Of(d, net) = {}
      <4>1. \A u \in Of(d, net) : u.chat = ch
          BY <2>3 DEF Of, WInv, Types
      <4> QED BY <1>3, <4>1 DEF Of
    <3> QED BY <1>1, <1>3, <1>4, <2>1, <3>0, <3>1, RowAges
  <2> QED BY <2>2, <2>3
<1>7. Overruling'
  <2>1. \A d \in Open : ChatOf[d] \in Chat
      BY OpenFacts
  <2> QED BY <1>1, <1>2, <1>3, <1>5, <2>1 DEF WInv, Overruling
<1> QED BY <1>1, <1>5, <1>6, <1>7 DEF WInv

-----------------------------------------------------------------------------
(***************************************************************************)
(* The theorems.                                                           *)
(***************************************************************************)
\* A window that was just made has sent nothing.
LEMMA InitWInv == Init => WInv
<1> SUFFICES ASSUME Init PROVE WInv
    OBVIOUS
<1>1. PICK open \in DOMAIN Bounds : \E p \in Bounds[open].setting, b \in Bounds[open].busy :
        windows = [c \in open |-> Made(p, b)]
    BY DEF Init
<1>2. PICK p \in Bounds[open].setting, b \in Bounds[open].busy : windows = [c \in open |-> Made(p, b)]
    BY <1>1
<1>3. p \in Priority /\ b \in BOOLEAN
    BY WindowAssumption
<1>4. /\ net = {} /\ released = {} /\ Open = open
      /\ chats \in [Chat -> RowType \cup {None}] /\ \A ch \in Chat : chats[ch] = None
    BY <1>2 DEF Init, RegistryInit, Open
<1>5. Made(p, b) \in WindowType
  <2>1. << >> \in Seq(UpdateType)
      OBVIOUS
  <2> QED BY <1>3, <2>1 DEF Made, WindowType
<1>6. Types
    BY <1>1, <1>2, <1>4, <1>5 DEF Types
<1>7. ASSUME NEW c \in Open
      PROVE  OneCommand(windows[c]) /\ Core(c, windows[c], net, None, released)
             /\ Told(c, windows[c], net, None, overruled)
  <2>1. /\ windows[c].queue = << >> /\ windows[c].sending = None
        /\ ~windows[c].confirmed /\ windows[c].sequence = 0
      BY <1>2, <1>4 DEF Made
  <2>2. Of(c, net) = {} /\ \A i \in 1..Len(windows[c].queue) : FALSE
      BY <1>4, <2>1 DEF Of
  <2>3. OneCommand(windows[c]) /\ Told(c, windows[c], net, None, overruled)
      BY <2>1, <2>2 DEF OneCommand, Told
  <2>4. Core(c, windows[c], net, None, released)
      BY <1>4, <2>1, <2>2 DEF Core, Numbered, Ordered, Outlived, Gone
  <2> QED BY <2>3, <2>4
<1>8. \A c \in Open : chats[ChatOf[c]] = None /\ Mine(c) = None
    BY <1>1, <1>4, WindowAssumption DEF Mine
<1> QED BY <1>6, <1>7, <1>8 DEF WInv, Overruling

\* Every event of a window, of the transport, of the engine and of the clock.
LEMMA NextWInv == WInv /\ [Next]_vars => WInv'
<1> SUFFICES ASSUME WInv, [Next]_vars PROVE WInv'
    OBVIOUS
<1>1. ASSUME NEW c \in Open, Start(c) \/ Release(c) \/ Tick(c) \/ Send(c) \/ TimeOut(c)
      PROVE  WInv'
    BY <1>1, StartKeeps, ReleaseKeeps, TickKeeps, SendKeeps, TimeOutKeeps
<1>2. ASSUME NEW c \in Open, NEW v \in Bounds[Open].setting, Command(c, v) PROVE WInv'
  <2>1. v \in Priority
      BY WindowAssumption DEF WInv, Types
  <2> QED BY <1>2, <2>1, CommandKeeps
<1>3. ASSUME NEW u \in net, NEW replied \in BOOLEAN, NEW again \in BOOLEAN,
             Execute(u, replied, again)
      PROVE  WInv'
    BY <1>3, ExecuteKeeps
<1>4. ASSUME NEW u \in net, Lose(u) PROVE WInv'
    BY <1>4, LoseKeeps
<1>5. ASSUME NEW ch \in Chat, LeaseRunsOut(ch) \/ TombstoneRunsOut(ch) PROVE WInv'
    BY <1>5, DeadlineKeeps
<1>6. CASE UNCHANGED vars
  <2>1. Open' = Open /\ Types' /\ Overruling'
      BY <1>6 DEF vars, WInv, Types, Open, Overruling
  <2>2. \A c \in Open : Mine(c)' = Mine(c)
      BY <1>6 DEF vars, Mine
  <2> QED BY <1>6, <2>1, <2>2 DEF vars, WInv
<1> QED BY <1>1, <1>2, <1>3, <1>4, <1>5, <1>6 DEF Next

\* The inductive invariant of the priority updates of all windows.
THEOREM PriorityInvariant == Spec => []WInv
<1>1. Init => WInv
    BY InitWInv
<1>2. WInv /\ [Next]_vars => WInv'
    BY NextWInv
<1> QED BY <1>1, <1>2, PTL DEF Spec

\* An answer whose release was applied never holds the GPU again (AnswerPriorities.update
\* and level), whatever is delivered late, twice or out of order, as long as no other
\* window of the chat has had an update accepted since.
THEOREM ReleasedForGood == Spec => []ReleasedStaysReleased
<1>1. WInv => ReleasedStaysReleased
  <2> SUFFICES ASSUME WInv, NEW ch \in Chat, LevelOf(ch) # 0
               PROVE  <<chats[ch].client, chats[ch].answer>> \notin released
      BY DEF ReleasedStaysReleased
  <2>1. chats[ch] # None /\ chats[ch].active
      BY DEF LevelOf
  <2>2. chats[ch].client \in Open /\ ChatOf[chats[ch].client] = ch /\ chats[ch].answer \in Nat
      BY <2>1 DEF WInv, Types, RowType
  <2>3. Mine(chats[ch].client) = chats[ch]
      BY <2>1, <2>2 DEF Mine
  <2> QED BY <2>1, <2>2, <2>3, OpenFacts DEF Core, Gone
<1> QED BY <1>1, PriorityInvariant, PTL

\* What a window was told is in force stays in force while the lease runs, until an
\* update of another window of the chat is accepted.
THEOREM ConfirmedStaysInForce == Spec => []ConfirmedInForce
<1>1. WInv => ConfirmedInForce
  <2> SUFFICES ASSUME WInv, NEW c \in Open, Quiet(windows[c]), windows[c].confirmed,
                      c \notin overruled, chats[ChatOf[c]] # None, chats[ChatOf[c]].lease = "held"
               PROVE  LevelOf(ChatOf[c]) = IF windows[c].active THEN windows[c].priority ELSE 0
      BY DEF ConfirmedInForce
  <2>0. Mine(c) = chats[ChatOf[c]]
      BY DEF WInv, Overruling, Mine
  <2>1. windows[c] \in WindowType /\ Told(c, windows[c], net, chats[ChatOf[c]], overruled)
      BY <2>0, OpenFacts
  <2>2. windows[c].queue = << >> /\ windows[c].sending = None
    <3>1. windows[c].queue \in Seq(UpdateType) /\ Len(windows[c].queue) \in Nat
        BY <2>1, WindowFacts
    <3>2. Len(windows[c].queue) + (IF windows[c].sending = None THEN 0 ELSE 1) = 0
        BY DEF Quiet, Pending
    <3>3. windows[c].sending = None
      <4> SUFFICES ASSUME windows[c].sending # None PROVE FALSE
          OBVIOUS
      <4>1. Len(windows[c].queue) + 1 = 0
          BY <3>2
      <4> QED BY <3>1, <4>1
    <3>4. Len(windows[c].queue) = 0
        BY <3>1, <3>2, <3>3
    <3> QED BY <3>1, <3>3, <3>4
  <2>3. Stands(chats[ChatOf[c]]) = Stands(windows[c])
      BY <2>1, <2>2 DEF Told
  <2> QED BY <2>3 DEF Stands, LevelOf
<1> QED BY <1>1, PriorityInvariant, PTL
=============================================================================
