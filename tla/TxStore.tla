------------------------------ MODULE TxStore ------------------------------
(***************************************************************************)
(* What a store promises to the threads that share it: a call takes effect *)
(* at one instant between its begin and its answer, all of it or nothing,  *)
(* and what was answered "ok" survives a stopped process.  The abstract    *)
(* specification the store modules are held against.                       *)
(***************************************************************************)
EXTENDS StoreCalls

VARIABLES
    rows,    \* what a reopened store would hold
    call,    \* the batch of each thread's latest call
    answer   \* its answer

Init ==
    /\ rows \in Rows
    /\ call = [t \in Thread |-> Nothing]
    /\ answer = [t \in Thread |-> "none"]

Call(t, b) ==
    /\ answer[t] # "pending"
    /\ call' = [call EXCEPT ![t] = b]
    /\ answer' = [answer EXCEPT ![t] = "pending"]
    /\ UNCHANGED rows

Returns(t, a) ==
    /\ answer[t] = "pending"
    /\ answer' = [answer EXCEPT ![t] = a]
    /\ UNCHANGED call

Take(t) ==
    /\ Returns(t, "ok")
    /\ CanInsert(rows, call[t].insert)
    /\ rows' = Applied(rows, call[t])

\* A refused batch leaves nothing behind.
Refuse(t) ==
    /\ Returns(t, "error")
    /\ UNCHANGED rows

\* The process stops and the store is opened again.
Crash ==
    /\ call' = [t \in Thread |-> Nothing]
    /\ answer' = [t \in Thread |-> "none"]
    /\ UNCHANGED rows

Next ==
    \/ \E t \in Thread, b \in Batches : Call(t, b)
    \/ \E t \in Thread : Take(t) \/ Refuse(t)
    \/ Crash

Spec == Init /\ [][Next]_<<rows, call, answer>>
============================================================================
