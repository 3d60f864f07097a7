---------------------------- MODULE CommandOrder ----------------------------
(***************************************************************************)
(* What the application may expect of its commands, whatever is between it *)
(* and the runtime: a command works on the present content of its buffers, *)
(* once the commands ordered before it are complete, and nothing else      *)
(* changes a buffer.  The content of a buffer is the sequence of commands  *)
(* that have worked on it.                                                 *)
(***************************************************************************)
EXTENDS Naturals, Sequences

CONSTANTS Commands, Buffers

VARIABLES
    args,     \* command -> the buffers it works on
    after,    \* command -> the commands ordered before it
    content,  \* buffer -> the commands that have worked on it
    done      \* the commands that are complete

Init ==
    /\ args = [c \in Commands |-> {}]
    /\ after = [c \in Commands |-> {}]
    /\ content = [b \in Buffers |-> <<>>]
    /\ done = {}

Issue(c) ==
    /\ args[c] = {}
    /\ \E B \in (SUBSET Buffers) \ {{}}, D \in SUBSET (Commands \ {c}) :
           /\ args' = [args EXCEPT ![c] = B]
           /\ after' = [after EXCEPT ![c] = D]
    /\ UNCHANGED <<content, done>>

HasWorkedOn(c, s) == \E i \in 1 .. Len(s) : s[i] = c

\* Command c works on some of its buffers, each once, and is complete when it
\* has worked on all.
Work(c) ==
    /\ args[c] # {} /\ c \notin done /\ after[c] \subseteq done
    /\ \E B \in SUBSET args[c] :
           /\ \A b \in B : ~HasWorkedOn(c, content[b])
           /\ content' = [b \in Buffers |-> IF b \in B THEN Append(content[b], c) ELSE content[b]]
    /\ done' \in {done, done \cup {c}}
    /\ c \in done' => \A b \in args[c] : HasWorkedOn(c, content'[b])
    /\ UNCHANGED <<args, after>>

Next == \E c \in Commands : Issue(c) \/ Work(c)

Spec == Init /\ [][Next]_<<args, after, content, done>>
=============================================================================
