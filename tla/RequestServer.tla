--------------------------- MODULE RequestServer ---------------------------
(***************************************************************************)
(* What the kernel expects of a FUSE server, with no buffers and no        *)
(* counters: requests arrive, are dealt with one at a time in the order    *)
(* they arrived, and are replied to at most once, never before they were   *)
(* dealt with.  The server may stop at any time.  FuseLoop implements it.  *)
(***************************************************************************)
EXTENDS Naturals

VARIABLES
  arrived,   \* requests handed to the server
  served,    \* requests the server has dealt with: 1 .. served
  replied,   \* requests whose reply has reached the kernel
  up         \* the server is running

vars == <<arrived, served, replied, up>>

Init == arrived = 0 /\ served = 0 /\ replied = {} /\ up = TRUE

Arrive == arrived' = arrived + 1 /\ UNCHANGED <<served, replied, up>>

Serve ==
  /\ up
  /\ served < arrived
  /\ served' = served + 1
  /\ UNCHANGED <<arrived, replied, up>>

ReplyTo(n) ==
  /\ n \in (1 .. served) \ replied
  /\ replied' = replied \cup {n}
  /\ UNCHANGED <<arrived, served, up>>

Stop == up' = FALSE /\ UNCHANGED <<arrived, served, replied>>

Next == Arrive \/ Serve \/ Stop \/ \E n \in 1 .. served : ReplyTo(n)

Spec == Init /\ [][Next]_vars
=============================================================================
