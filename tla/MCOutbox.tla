------------------------------- MODULE MCOutbox -------------------------------
(***************************************************************************)
(* Two pollers, three rows and batches of two: one poller can hold a batch *)
(* while the other skips it, and a batch can fail after its first send.    *)
(***************************************************************************)
EXTENDS Outbox

CONSTANTS p1, p2

=============================================================================
