-------------------------- MODULE PriorityControl --------------------------
(***************************************************************************)
(* Pi windows setting the priority of their chats:                         *)
(* integrations/pi/qwen-radiance-priority.mjs against AnswerPriorities.    *)
(*                                                                         *)
(* A window (the state object make() returns, with a client nonce of its   *)
(* own) sends its updates one at a time and numbers them.  A request that  *)
(* timed out at the window may still reach the engine later, in any order, *)
(* more than once, or never.  Several windows may show one chat: every     *)
(* session of it has a nonce of its own.                                   *)
(***************************************************************************)
EXTENDS AnswerPriorities, Sequences

CONSTANTS
    ChatOf,         \* the chat each window shows
    Bounds          \* the sets of windows that are open together, and for each
                    \*   setting: the priorities that are saved or asked for
                    \*   busy: whether a window is made while its agent is running
                    \*   sequence: no start, command or heartbeat past this one
                    \*   answers: the answers a window begins

\* by: the caller whose promise waits for the request.
UpdateType == [chat : Chat, client : Client, answer : Nat, sequence : Nat, priority : Priority,
               active : BOOLEAN, by : {"start", "release", "heartbeat", "command", "correction"}]

ASSUME WindowAssumption ==
    /\ ChatOf \in [Client -> Chat]
    /\ None \notin UpdateType
    /\ DOMAIN Bounds \subseteq SUBSET Client
    /\ \A open \in DOMAIN Bounds :
         Bounds[open] \in [setting : SUBSET Priority, busy : SUBSET BOOLEAN,
                           sequence : Nat, answers : Nat]

VARIABLES
    windows,    \* windows[c]: the state object of the extension of an open window
    net,        \* updates submitted and neither executed for good nor lost
    released,   \* history: answers whose release the engine applied, and of
                \* whose chat it has accepted no other window's update since
    overruled   \* history: windows of whose chat the engine accepted another
                \* window's update since their own last confirmation

vars == <<chats, windows, net, released, overruled>>

\* The other windows of the chat.
Foreign(c) == {d \in Client \ {c} : ChatOf[d] = ChatOf[c]}

Update(c, w, by) ==
    [chat |-> ChatOf[c], client |-> c, answer |-> w.answer, sequence |-> w.sequence,
     priority |-> w.priority, active |-> w.active, by |-> by]

Pending(w) == Len(w.queue) + IF w.sending = None THEN 0 ELSE 1

\* sync(s): the next sequence number, queued behind the requests before it.
Sync(c, w, by) ==
    LET numbered == [w EXCEPT !.sequence = @ + 1, !.touched = TRUE]
    IN [numbered EXCEPT !.queue = Append(@, Update(c, numbered, by))]

\* heartbeat(s): the timer runs only while the answer holds a reservation.
Heartbeat(w) == [w EXCEPT !.timer = @ \/ (w.active /\ w.priority # 0)]

\* A window's answer begins, with a nonce of its own.
NewAnswer(w) == [w EXCEPT !.active = TRUE, !.answer = @ + 1]

Open == DOMAIN windows

InBounds(w) == w.sequence < Bounds[Open].sequence /\ w.answer <= Bounds[Open].answers

Becomes(c, w) == windows' = [windows EXCEPT ![c] = w]

(***************************************************************************)
(* Events of the window.                                                   *)
(***************************************************************************)
\* agent_start
Start(c) ==
    LET w == [windows[c] EXCEPT !.busy = TRUE]
        begun == NewAnswer(w)
    IN /\ ~w.active /\ InBounds(begun)
       /\ Becomes(c, IF w.priority # 0 THEN Sync(c, begun, "start") ELSE begun)
       /\ UNCHANGED <<chats, net, released, overruled>>

\* agent_settled
Release(c) ==
    LET w == windows[c]
        ended == [w EXCEPT !.busy = FALSE, !.timer = FALSE, !.active = FALSE]
    IN /\ w.busy
       /\ Becomes(c, IF w.active /\ w.touched THEN Sync(c, ended, "release") ELSE ended)
       /\ UNCHANGED <<chats, net, released, overruled>>

\* The ten-second timer.
Tick(c) ==
    LET w == windows[c]
    IN /\ w.timer /\ w.active /\ w.priority # 0 /\ Pending(w) = 0 /\ InBounds(w)
       /\ Becomes(c, Sync(c, w, "heartbeat"))
       /\ UNCHANGED <<chats, net, released, overruled>>

\* /priority v: commands are handled one after the other.
Command(c, v) ==
    LET w == windows[c]
        set == [w EXCEPT !.priority = v, !.previous = w.priority]
    IN /\ w.previous = None /\ InBounds(w)
       /\ Becomes(c, Sync(c, IF ~w.active /\ w.busy THEN NewAnswer(set) ELSE set, "command"))
       /\ UNCHANGED <<chats, net, released, overruled>>

(***************************************************************************)
(* The transport: one request at a time, resolved by an answer or by the   *)
(* window's own timeout.                                                   *)
(***************************************************************************)
Send(c) ==
    LET w == windows[c]
    IN /\ w.sending = None /\ w.queue # << >>
       /\ Becomes(c, [w EXCEPT !.sending = Head(w.queue), !.queue = Tail(w.queue)])
       /\ net' = net \cup {Head(w.queue)}
       /\ UNCHANGED <<chats, released, overruled>>

\* The request in w.sending was confirmed.
Confirmed(w) ==
    LET done == [w EXCEPT !.sending = None, !.confirmed = TRUE]
    IN CASE w.sending.by = "start" -> Heartbeat(done)
         [] w.sending.by = "command" ->
              Heartbeat([done EXCEPT !.timer = FALSE, !.previous = None])
         [] OTHER -> done

\* Mutant: a command that was not confirmed is not followed by a correction.
FailedUncorrected(c, w) ==
    LET done == [w EXCEPT !.sending = None, !.confirmed = FALSE]
    IN CASE w.sending.by = "start" -> Heartbeat(done)
         [] w.sending.by = "command" -> [done EXCEPT !.priority = w.previous, !.previous = None]
         [] OTHER -> done

\* It was rejected, or nobody knows: a command is undone by a later update.
Failed(c, w) ==
    LET done == [w EXCEPT !.sending = None, !.confirmed = FALSE]
    IN CASE w.sending.by = "start" -> Heartbeat(done)
         [] w.sending.by = "command" ->
              Sync(c, [done EXCEPT !.priority = w.previous, !.previous = None], "correction")
         [] OTHER -> done

\* The update becomes the row of its chat.
Accepted(u) == Applies(u) /\ ~Duplicate(u)

\* The engine executes an update; the answer may not reach the window in time.
Execute(u, replied, again) ==
    LET c == u.client
        w == windows[c]
    IN /\ chats' = Updated(u)
       /\ net' = IF again THEN net ELSE net \ {u}
       /\ released' = {x \in released : Accepted(u) => x[1] \notin Foreign(c)}
                        \cup (IF Applies(u) /\ ~u.active THEN {<<c, u.answer>>} ELSE {})
       /\ overruled' = (IF Accepted(u) THEN overruled \cup Foreign(c) ELSE overruled)
                         \ (IF replied /\ w.sending = u /\ Applies(u) THEN {c} ELSE {})
       /\ IF replied /\ w.sending = u
          THEN Becomes(c, IF Applies(u) THEN Confirmed(w) ELSE Failed(c, w))
          ELSE UNCHANGED windows

Lose(u) ==
    /\ net' = net \ {u}
    /\ UNCHANGED <<chats, windows, released, overruled>>

TimeOut(c) ==
    /\ windows[c].sending # None
    /\ Becomes(c, Failed(c, windows[c]))
    /\ UNCHANGED <<chats, net, released, overruled>>

(***************************************************************************)
(* Time.  A request is executed or dropped within seconds: a tombstone, an *)
(* hour old, outlives every update of its chat that was already on its way.*)
(***************************************************************************)
LeaseRunsOut(ch) ==
    /\ LeaseEnds(ch)
    /\ UNCHANGED <<windows, net, released, overruled>>

TombstoneRunsOut(ch) ==
    /\ \A u \in net : u.chat # ch
    /\ TombstoneEnds(ch)
    /\ UNCHANGED <<windows, net, released, overruled>>

Made(p, b) ==
    [busy |-> b, priority |-> p, active |-> FALSE, answer |-> 0, sequence |-> 0,
     timer |-> FALSE, touched |-> FALSE, queue |-> << >>, sending |-> None,
     previous |-> None, confirmed |-> FALSE]

Init ==
    /\ RegistryInit
    /\ \E open \in DOMAIN Bounds : \E p \in Bounds[open].setting, b \in Bounds[open].busy :
         windows = [c \in open |-> Made(p, b)]
    /\ net = {}
    /\ released = {}
    /\ overruled = {}

Next ==
    \/ \E c \in Open : Start(c) \/ Release(c) \/ Tick(c) \/ Send(c) \/ TimeOut(c)
    \/ \E c \in Open, v \in Bounds[Open].setting : Command(c, v)
    \/ \E u \in net, replied, again \in BOOLEAN : Execute(u, replied, again)
    \/ \E u \in net : Lose(u)
    \/ \E ch \in Chat : LeaseRunsOut(ch) \/ TombstoneRunsOut(ch)

\* The clock goes on.
Spec == Init /\ [][Next]_vars /\ \A ch \in Chat : WF_vars(LeaseRunsOut(ch))

-----------------------------------------------------------------------------
\* An answer whose release the engine applied never holds the GPU again, however
\* late, often and out of order the start, heartbeat and change requests sent
\* before the release arrive; except that another window of the chat, whose
\* update the engine accepts once the answer is released, takes the place of the
\* row that recognises them (AnswerPriorities.update, line 1042).
ReleasedStaysReleased ==
    \A ch \in Chat : LevelOf(ch) # 0 => <<chats[ch].client, chats[ch].answer>> \notin released

Quiet(w) == Pending(w) = 0 /\ w.previous = None

\* What the user was told is in force stays in force: once the window's last
\* request was confirmed, the scheduler uses the window's setting for as long as
\* the lease runs, whatever earlier requests still arrive, of this or of other
\* windows, until it accepts an update of another window of the chat.
ConfirmedInForce ==
    \A c \in Open :
        LET w   == windows[c]
            row == chats[ChatOf[c]]
        IN Quiet(w) /\ w.confirmed /\ c \notin overruled /\ row # None /\ row.lease = "held" =>
             LevelOf(ChatOf[c]) = IF w.active THEN w.priority ELSE 0

\* A chat whose windows have settled for good cannot keep the GPU reserved, not
\* even if a release is lost and the old requests of one of its windows are
\* repeated for ever.  (Those of two windows, repeated in turn, could.)
ReservationsEnd ==
    \A ch \in Chat :
        <>[](/\ \A c \in Open : ChatOf[c] = ch => ~windows[c].active
             /\ \A u, v \in net : u.chat = ch /\ v.chat = ch => u.client = v.client)
        => <>[](LevelOf(ch) = 0)
=============================================================================
