---------------------------- MODULE IBKRSession ----------------------------
(***************************************************************************)
(* What IBKRConnectionManager promises to whoever holds a session, the     *)
(* pair (generation, client) of capture_session, and checks it again with  *)
(* require_session after an await.  A client is handed out as soon as its  *)
(* socket is open.  While its setup is not complete it may be taken back   *)
(* at any time, and another one put in its place; from then on it stays in *)
(* place, with its socket open, until the generation ends.  No generation  *)
(* comes back.                                                             *)
(***************************************************************************)
EXTENDS Naturals

CONSTANTS Clients, NoClient

VARIABLES
    generation,     \* generation
    client,         \* the client capture_session hands out, or NoClient
    settled         \* is the setup of that client complete?

Init == generation = 0 /\ client = NoClient /\ settled = FALSE

\* The attempt of this generation got its socket open.
Offers ==
    /\ client = NoClient
    /\ client' \in Clients
    /\ UNCHANGED <<generation, settled>>

\* The attempt is over and its client good.
Settles ==
    /\ client # NoClient /\ ~settled
    /\ settled' = TRUE
    /\ UNCHANGED <<generation, client>>

\* The socket is lost, or the attempt fails, during setup.
Withdraws ==
    /\ client # NoClient /\ ~settled
    /\ client' = NoClient
    /\ UNCHANGED <<generation, settled>>

\* _end_session: a stop, or the loss of the socket
Ends ==
    /\ generation' = generation + 1
    /\ client' = NoClient
    /\ settled' = FALSE

Next == Offers \/ Settles \/ Withdraws \/ Ends

Spec == Init /\ [][Next]_<<generation, client, settled>>
=============================================================================
