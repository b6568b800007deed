------------------------------- MODULE Connection -------------------------------
(***************************************************************************)
(* The authenticated stream between a producer and the receiver after the  *)
(* hello exchange: two FIFO channels of whole envelopes (TCP keeps order   *)
(* and loses nothing until the connection ends) and the negotiated minor.  *)
(***************************************************************************)
EXTENDS Integers, Sequences

VARIABLES
  selected_minor,  \* negotiated protocol minor; byte credits from 1 on
  conn,            \* the connection and the receiver's session are up
  to_receiver,     \* envelopes on their way to the receiver
  to_client        \* envelopes on their way to the producer

Send(channel, envelopes) == channel' = channel \o envelopes

ConnectionInit ==
  /\ selected_minor \in {0, 1}
  /\ conn = TRUE
  /\ to_receiver = <<>> /\ to_client = <<>>
================================================================================
