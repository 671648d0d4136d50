----------------------------- MODULE JsonStore -----------------------------
(***************************************************************************)
(* JsonStore of src/src/wallet/store.rs, shared by threads.  A statement   *)
(* changes the state under the lock; atomic() runs its whole closure on a  *)
(* copy under one guard, so either is one step here.  Both drop the guard  *)
(* and then flush: the text is made under the lock again, the file written *)
(* outside it.  Entries are a Vec: inserting appends, marking spent finds  *)
(* the first entry of that hash.                                           *)
(***************************************************************************)
EXTENDS StoreCalls, SequencesExt

CONSTANT MaxEntries  \* bound: entries of one hash

VARIABLES
    state,  \* the entries of each hash, in the order they were pushed
    file,   \* what the file holds
    call, answer,
    stage,  \* where each thread's call is
    text    \* what it is to write

vars == <<state, file, call, answer, stage, text>>

State == [Row -> BoundedSeq({"unspent", "spent"}, MaxEntries)]

\* A file that is open and truncated, or was written by two threads at once.
Torn == [r \in Row |-> <<"torn">>]

Init ==
    /\ state \in [Row -> {<<>>, <<"unspent">>}]
    /\ file = state
    /\ call = [t \in Thread |-> Nothing]
    /\ answer = [t \in Thread |-> "none"]
    /\ stage = [t \in Thread |-> "rest"]
    /\ text = [t \in Thread |-> state]

Call(t, b) ==
    /\ stage[t] = "rest"
    /\ call' = [call EXCEPT ![t] = b]
    /\ answer' = [answer EXCEPT ![t] = "pending"]
    /\ stage' = [stage EXCEPT ![t] = "begun"]
    /\ UNCHANGED <<state, file, text>>

Goto(t, s) ==
    /\ stage' = [stage EXCEPT ![t] = s]
    /\ UNCHANGED <<call, answer>>

\* The batch on the entries of one hash.
Changed(entries, marked, inserted) ==
    LET found == IF marked /\ entries # <<>>
                 THEN [entries EXCEPT ![1] = "spent"] ELSE entries
    IN  IF inserted THEN Append(found, "unspent") ELSE found

\* mutate, or the closure of atomic(): nothing in them can fail.
Mutate(t) ==
    /\ stage[t] = "begun"
    /\ \A r \in call[t].insert : Len(state[r]) < MaxEntries
    /\ state' = [r \in Row |-> Changed(state[r], r \in call[t].mark,
                                      r \in call[t].insert)]
    /\ Goto(t, "flush")
    /\ UNCHANGED <<file, text>>

\* The closure of atomic() returns an error of its own: the copy is dropped.
Drop(t) ==
    /\ stage[t] = "begun" /\ ~IsStatement(call[t])
    /\ stage' = [stage EXCEPT ![t] = "rest"]
    /\ answer' = [answer EXCEPT ![t] = "error"]
    /\ UNCHANGED <<state, file, call, text>>

\* Mutant: the text was made before the change.
EncodeOld(t) ==
    /\ stage[t] = "flush"
    /\ Goto(t, "open")
    /\ UNCHANGED <<state, file, text>>

Encode(t) ==
    /\ stage[t] = "flush"
    /\ text' = [text EXCEPT ![t] = state]
    /\ Goto(t, "open")
    /\ UNCHANGED <<state, file>>

\* fs::write truncates the file ...
Open(t) ==
    /\ stage[t] = "open"
    /\ file' = Torn
    /\ Goto(t, "write")
    /\ UNCHANGED <<state, text>>

\* ... and writes it; over another thread's longer text, that one's tail stays.
Write(t) ==
    /\ stage[t] = "write"
    /\ file' \in IF file = Torn THEN {text[t]} ELSE {text[t], Torn}
    /\ answer' = [answer EXCEPT ![t] = "ok"]
    /\ stage' = [stage EXCEPT ![t] = "rest"]
    /\ UNCHANGED <<state, call, text>>

\* The process stops; the store can be opened again if the file is whole.
Crash ==
    /\ file # Torn
    /\ state' = file
    /\ call' = [t \in Thread |-> Nothing]
    /\ answer' = [t \in Thread |-> "none"]
    /\ stage' = [t \in Thread |-> "rest"]
    /\ text' = [t \in Thread |-> file]
    /\ UNCHANGED file

Next ==
    \/ \E t \in Thread, b \in Batches : Call(t, b)
    \/ \E t \in Thread :
         Mutate(t) \/ Drop(t) \/ Encode(t) \/ Open(t) \/ Write(t)
    \/ Crash

Spec == Init /\ [][Next]_vars

----------------------------------------------------------------------------
(* Properties *)

\* store.rs, "auto-flushed to a JSON file on every mutation": while no call is in
\* progress, the file holds the state.  It does for one thread; two threads
\* write their texts in either order.
FlushedAtRest ==
    (\A t \in Thread : stage[t] = "rest") => file = state

\* operations.rs, "a re-run of `recover()` on a wallet that already holds some
\* recovered tokens is idempotent": a secret has one entry, whatever is
\* inserted again, so it counts once in the balance.
OneEntryEach == \A r \in Row : Len(state[r]) <= 1
============================================================================
