---------------------------- MODULE OutputChannels ----------------------------
(***************************************************************************)
(* What a caller's output callbacks are owed, however the output travels.  *)
(* The writer of a channel writes chunks 1, 2, ...; the callback hears a   *)
(* contiguous run of them, each once and in order, and nothing once the    *)
(* call has settled.  As long as the channel is whole the run starts at    *)
(* the first chunk and, when the call settles, ends at the last.           *)
(***************************************************************************)
EXTENDS Naturals, Sequences

CONSTANT Channels

VARIABLES
    written,          \* how many chunks were written
    heard,            \* the chunks the callback was given
    closed,           \* the channels whose call has settled
    whole             \* the channels of which nothing excuses a gap

vars == <<written, heard, closed, whole>>

Run(i, j) == [k \in 1..(j + 1 - i) |-> i + k - 1]

Init ==
    /\ written = [c \in Channels |-> 0]
    /\ heard = [c \in Channels |-> <<>>]
    /\ closed = {}
    /\ whole = Channels

\* Some chunks more, perhaps none: the next ones, or any after a gap at the very start.
Deliver(c) ==
    \E i \in 1..(written'[c] + 1) : \E j \in (i - 1)..written'[c] :
        /\ heard'[c] = heard[c] \o Run(i, j)
        /\ heard[c] # <<>> => i = heard[c][Len(heard[c])] + 1
        /\ c \in whole' /\ heard[c] = <<>> => i = 1

Silent(c) == c \in closed /\ heard'[c] = heard[c]
Goes(c) == c \notin closed' /\ Deliver(c)
Settles(c) ==
    /\ c \in closed' \ closed
    /\ Deliver(c)
    /\ c \in whole' => heard'[c] = Run(1, written'[c])

Next ==
    /\ closed \subseteq closed'
    /\ whole' \subseteq whole
    /\ \A c \in Channels :
          /\ written'[c] >= written[c]
          /\ Silent(c) \/ Goes(c) \/ Settles(c)

Spec == Init /\ [][Next]_vars
=============================================================================
