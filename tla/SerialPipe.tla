----------------------------- MODULE SerialPipe -----------------------------
(***************************************************************************)
(* What the serial port promises to the tasks that write to it: one pipe   *)
(* in which the bytes of each writer follow each other, none twice and     *)
(* none left out, and from which the host takes the oldest.  Opening the   *)
(* port empties the pipe.                                                  *)
(***************************************************************************)
EXTENDS Integers, Sequences, SequencesExt

CONSTANTS
    Writers,
    Capacity    \* bytes a writer may put in at once

VARIABLES
    pipe,       \* what was given and not yet taken
    given,      \* the number of bytes each writer has given
    taken       \* what the host has taken

vars == <<pipe, given, taken>>

Init ==
    /\ pipe = << >>
    /\ given = [w \in Writers |-> 0]
    /\ taken = << >>

\* The n next bytes of writer w, which are numbered.
NextBytes(w, n) == [i \in 1..n |-> <<w, given[w] + i>>]

Accept(w, n) ==
    /\ pipe' = pipe \o NextBytes(w, n)
    /\ given' = [given EXCEPT ![w] = @ + n]
    /\ UNCHANGED taken

Deliver ==
    /\ IsPrefix(taken, taken')
    /\ taken' \o pipe' = taken \o pipe
    /\ UNCHANGED given

Open ==
    /\ pipe' = << >>
    /\ UNCHANGED <<given, taken>>

Next ==
    \/ \E w \in Writers : \E n \in 1..Capacity : Accept(w, n)
    \/ Deliver
    \/ Open

Spec == Init /\ [][Next]_vars
=============================================================================
