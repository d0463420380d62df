--------------------------- MODULE MessageQueues ---------------------------
(***************************************************************************)
(* What the kernel's queues promise to the tasks and the interrupts that   *)
(* use them: each is a line of at most Length messages, in which a message *)
(* is put at the end whole, and from which a task gets the one in front.   *)
(***************************************************************************)
EXTENDS Integers, Sequences

CONSTANTS
    Queues,
    Length,     \* the length of each queue
    Receivers,
    Messages,
    Nothing     \* no message was just received

VARIABLES
    content,    \* the messages of each queue
    got         \* the message just received, and by whom

vars == <<content, got>>

Init ==
    /\ content = [q \in Queues |-> << >>]
    /\ got = Nothing

Put(q, m) ==
    /\ Len(content[q]) < Length[q]
    /\ content' = [content EXCEPT ![q] = Append(@, m)]
    /\ got' \in {got, Nothing}

Get(q, r) ==
    /\ content[q] # << >>
    /\ content' = [content EXCEPT ![q] = Tail(@)]
    /\ got' = <<Head(content[q]), r>>

\* The receiver is done with the message.
Forget ==
    /\ got' = Nothing
    /\ UNCHANGED content

Next ==
    \/ Forget
    \/ \E q \in Queues, m \in Messages : Put(q, m)
    \/ \E q \in Queues, r \in Receivers : Get(q, r)

Spec == Init /\ [][Next]_vars
=============================================================================
