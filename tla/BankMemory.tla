----------------------------- MODULE BankMemory -----------------------------
(***************************************************************************)
(* What RAM time sharing promises the model runner: every chat bank has a  *)
(* KV memory of its own.  The running bank reads and writes its pages;     *)
(* switching to another bank changes no page of any bank; a retired bank   *)
(* loses its pages.                                                        *)
(***************************************************************************)
CONSTANTS Bank, Block, Value, None

VARIABLES
    mem,        \* mem[k][b]: content of block b of bank k, None when not held
    current     \* the bank the runner works on

Blank == [b \in Block |-> None]

Init ==
    /\ mem = [k \in Bank |-> Blank]
    /\ current = None

Write(b, v) ==
    /\ current # None
    /\ mem' = [mem EXCEPT ![current][b] = v]
    /\ UNCHANGED current

Release(b) ==
    /\ current # None
    /\ mem' = [mem EXCEPT ![current][b] = None]
    /\ UNCHANGED current

Switch(k) ==
    /\ current' = k
    /\ UNCHANGED mem

Retire(k) ==
    /\ k # current
    /\ mem' = [mem EXCEPT ![k] = Blank]
    /\ UNCHANGED current

\* The running bank is obsolete and another one takes its place.
Replace(k) ==
    /\ current # None /\ k # current
    /\ current' = k
    /\ mem' = [mem EXCEPT ![current] = Blank]

Next ==
    \/ \E b \in Block, v \in Value : Write(b, v)
    \/ \E b \in Block : Release(b)
    \/ \E k \in Bank : Switch(k) \/ Retire(k) \/ Replace(k)

Spec == Init /\ [][Next]_<<mem, current>>
=============================================================================
