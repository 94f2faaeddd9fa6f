----------------------------- MODULE LineCache -----------------------------
(***************************************************************************)
(* What the cache in front of the InfluxDB server promises to the poll     *)
(* loop: a bounded first-in first-out backlog.  A line handed over is      *)
(* accepted by the server, refused by the server, kept at the tail of the  *)
(* backlog, or - only when the backlog is full - discarded.  Nothing but   *)
(* the oldest line leaves the backlog, and it leaves only once the server  *)
(* stores it.  A server may store a line and fail to say so; the line then *)
(* stays where it is.  InfluxPost is shown to implement this module.       *)
(***************************************************************************)
EXTENDS Naturals, Sequences

CONSTANTS Lines,     \* the posts the poll loop can build
          NoLine,    \* nothing in hand
          Capacity   \* most lines the backlog holds

VARIABLES fresh,     \* the line handed over last, until its fate is decided
          pending,   \* the backlog, oldest line first
          stored,    \* the lines the server has stored
          refused,   \* the lines the server has turned down
          open       \* FALSE once the cache was shut down

cacheVars == <<fresh, pending, stored, refused, open>>

Waiting == {pending[i] : i \in 1..Len(pending)}

Init == /\ fresh = NoLine
        /\ pending = <<>>
        /\ stored = {}
        /\ refused = {}
        /\ open = TRUE

\* The server may or may not have stored l when the answer is an error.
MayStore(l) == stored' \in {stored, stored \cup {l}}

\* A delivery attempt may be the last before the cache is shut down.
MayClose == open' \in {open, FALSE}

Take(l) == /\ fresh = NoLine
           /\ l \notin Waiting
           /\ fresh' = l
           /\ stored' = stored \ {l}
           /\ refused' = refused \ {l}
           /\ UNCHANGED <<pending, open>>

Accept == /\ fresh # NoLine
          /\ fresh' = NoLine
          /\ stored' = stored \cup {fresh}
          /\ UNCHANGED <<pending, refused, open>>

Refuse == /\ fresh # NoLine
          /\ fresh' = NoLine
          /\ refused' = refused \cup {fresh}
          /\ UNCHANGED <<pending, stored, open>>

Keep == /\ fresh # NoLine
        /\ Len(pending) < Capacity
        /\ fresh' = NoLine
        /\ pending' = Append(pending, fresh)
        /\ MayStore(fresh)
        /\ UNCHANGED <<refused, open>>

Discard == /\ fresh # NoLine
           /\ Len(pending) = Capacity
           /\ fresh' = NoLine
           /\ MayStore(fresh)
           /\ UNCHANGED <<pending, refused, open>>

DeliverOldest == /\ pending # <<>>
                 /\ pending' = Tail(pending)
                 /\ stored' = stored \cup {Head(pending)}
                 /\ MayClose
                 /\ UNCHANGED <<fresh, refused>>

RetryOldest == /\ pending # <<>>
               /\ \/ MayStore(Head(pending)) /\ UNCHANGED refused
                  \/ refused' = refused \cup {Head(pending)} /\ UNCHANGED stored
               /\ MayClose
               /\ UNCHANGED <<fresh, pending>>

\* Shutting down without a last delivery attempt.
Close == /\ fresh = NoLine
         /\ open' = FALSE
         /\ UNCHANGED <<fresh, pending, stored, refused>>

Next == /\ open
        /\ \/ \E l \in Lines : Take(l)
           \/ Accept \/ Refuse \/ Keep \/ Discard
           \/ DeliverOldest \/ RetryOldest \/ Close

Spec == Init /\ [][Next]_cacheVars
=============================================================================
