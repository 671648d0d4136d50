--------------------------- MODULE CrateJsonStore ---------------------------
(***************************************************************************)
(* MemStore and JsonStore of src/crates/storage/src, shared by threads.    *)
(* The state is locked for one access at a time.  atomic() copies it, runs *)
(* the closure on the store itself and puts the copy back on an error;     *)
(* nothing keeps other threads out meanwhile.  JsonStore then flushes: it  *)
(* copies the state again, under the lock, and writes the file outside it. *)
(***************************************************************************)
EXTENDS StoreCalls

VARIABLES
    path,   \* whether the store has one: JsonStore does, MemStore does not
    mem,    \* the state in memory
    file,   \* what the file holds
    call, answer,
    stage,  \* where each thread's call is
    todo,   \* what is left of its closure
    copy    \* atomic()'s snapshot, later the text flush() is to write

vars == <<path, mem, file, call, answer, stage, todo, copy>>

Stage == {"rest", "begun", "closure", "flush", "open", "write"}

\* A file that is open and truncated, or was written by two threads at once: a
\* store cannot be opened from it.
Torn == [r \in Row |-> "torn"]

Init ==
    /\ path \in BOOLEAN
    /\ mem \in Rows
    /\ file = mem
    /\ call = [t \in Thread |-> Nothing]
    /\ answer = [t \in Thread |-> "none"]
    /\ stage = [t \in Thread |-> "rest"]
    /\ todo = [t \in Thread |-> Nothing]
    /\ copy = [t \in Thread |-> mem]

Call(t, b) ==
    /\ stage[t] = "rest"
    /\ call' = [call EXCEPT ![t] = b]
    /\ answer' = [answer EXCEPT ![t] = "pending"]
    /\ stage' = [stage EXCEPT ![t] = "begun"]
    /\ UNCHANGED <<path, mem, file, todo, copy>>

Returns(t, a) ==
    /\ answer' = [answer EXCEPT ![t] = a]
    /\ stage' = [stage EXCEPT ![t] = "rest"]

Goto(t, s) ==
    /\ stage' = [stage EXCEPT ![t] = s]
    /\ UNCHANGED answer

\* self.flush(), which does nothing without a path.
Flushes(t) == IF path THEN Goto(t, "flush") ELSE Returns(t, "ok")

Statement(t) ==
    /\ stage[t] = "begun" /\ IsStatement(call[t])
    /\ IF CanInsert(mem, call[t].insert)
       THEN mem' = Applied(mem, call[t]) /\ Flushes(t)
       ELSE Returns(t, "error") /\ UNCHANGED mem
    /\ UNCHANGED <<path, file, call, todo, copy>>

Begin(t) ==
    /\ stage[t] = "begun" /\ ~IsStatement(call[t])
    /\ copy' = [copy EXCEPT ![t] = mem]
    /\ todo' = [todo EXCEPT ![t] = call[t]]
    /\ Goto(t, "closure")
    /\ UNCHANGED <<path, mem, file, call>>

MarkSpent(t, r) ==
    /\ stage[t] = "closure" /\ r \in todo[t].mark
    /\ mem' = mark_spent(mem, {r})
    /\ todo' = [todo EXCEPT ![t].mark = @ \ {r}]
    /\ UNCHANGED <<path, file, call, answer, stage, copy>>

InsertOutput(t, r) ==
    /\ stage[t] = "closure" /\ r \in todo[t].insert
    /\ CanInsert(mem, {r})
    /\ mem' = insert_output(mem, {r})
    /\ todo' = [todo EXCEPT ![t].insert = @ \ {r}]
    /\ UNCHANGED <<path, file, call, answer, stage, copy>>

\* Mutant: the snapshot is not put back.
NoRestore(t) ==
    /\ stage[t] = "closure"
    /\ todo' = [todo EXCEPT ![t] = Nothing]
    /\ Returns(t, "error")
    /\ UNCHANGED <<path, mem, file, call, copy>>

\* The closure returned an error, of a statement or its own.
Restore(t) ==
    /\ stage[t] = "closure"
    /\ mem' = copy[t]
    /\ todo' = [todo EXCEPT ![t] = Nothing]
    /\ Returns(t, "error")
    /\ UNCHANGED <<path, file, call, copy>>

\* Mutant: the text is the snapshot atomic() took.
WritesSnapshot(t) ==
    /\ stage[t] = "closure" /\ todo[t] = Nothing
    /\ IF path THEN Goto(t, "open") ELSE Returns(t, "ok")
    /\ UNCHANGED <<path, mem, file, call, todo, copy>>

EndClosure(t) ==
    /\ stage[t] = "closure" /\ todo[t] = Nothing
    /\ Flushes(t)
    /\ UNCHANGED <<path, mem, file, call, todo, copy>>

\* to_json: the state as it is now.
Encode(t) ==
    /\ stage[t] = "flush"
    /\ copy' = [copy EXCEPT ![t] = mem]
    /\ Goto(t, "open")
    /\ UNCHANGED <<path, mem, file, call, todo>>

\* fs::write truncates the file ...
Open(t) ==
    /\ stage[t] = "open"
    /\ file' = Torn
    /\ Goto(t, "write")
    /\ UNCHANGED <<path, mem, call, todo, copy>>

\* ... and writes it.  Over what another thread has written since, a shorter
\* text leaves the longer one's tail.
Write(t) ==
    /\ stage[t] = "write"
    /\ file' \in IF file = Torn THEN {copy[t]} ELSE {copy[t], Torn}
    /\ Returns(t, "ok")
    /\ UNCHANGED <<path, mem, call, todo, copy>>

\* The process stops; the store can be opened again if the file is whole.
Crash ==
    /\ path /\ file # Torn
    /\ mem' = file
    /\ call' = [t \in Thread |-> Nothing]
    /\ answer' = [t \in Thread |-> "none"]
    /\ stage' = [t \in Thread |-> "rest"]
    /\ todo' = [t \in Thread |-> Nothing]
    /\ copy' = [t \in Thread |-> file]
    /\ UNCHANGED <<path, file>>

Next ==
    \/ \E t \in Thread, b \in Batches : Call(t, b)
    \/ \E t \in Thread :
         \/ Statement(t) \/ Begin(t) \/ EndClosure(t) \/ Restore(t)
         \/ Encode(t) \/ Open(t) \/ Write(t)
    \/ \E t \in Thread, r \in Row : MarkSpent(t, r) \/ InsertOutput(t, r)
    \/ Crash

Spec == Init /\ [][Next]_vars

----------------------------------------------------------------------------
(* Properties *)

\* What a caller that is answered "ok" may rely on: what it wrote is in the
\* file, so a store opened after a stopped process has it.  With several
\* threads the later of two texts can be written first.
AnsweredOnDisk ==
    path => \A t \in Thread : answer[t] = "ok" =>
        /\ \A r \in call[t].insert : file[r] \in {"unspent", "spent"}
        /\ \A r \in call[t].mark : file[r] # "unspent"

\* The state other calls may rely on: atomic()'s copy while its closure runs.
Settled ==
    IF \E t \in Thread : stage[t] = "closure"
    THEN copy[CHOOSE t \in Thread : stage[t] = "closure"] ELSE mem

\* For one thread a call takes effect whole or not at all: the settled state
\* changes only by all the statements of a call that is not refused, or to
\* what the file held when the process stopped.
WholeOrNothing ==
    \/ Settled' = Settled
    \/ \E t \in Thread : /\ CanInsert(Settled, call[t].insert)
                         /\ Settled' = Applied(Settled, call[t])
                         /\ answer'[t] # "error"
    \/ call' = [t \in Thread |-> Nothing] /\ Settled' = file
============================================================================
