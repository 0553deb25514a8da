----------------------------- MODULE MCEventDelivery -----------------------------
(* A public stream, and a Temporary Chat with its conversation stream and    *)
(* the stream of one operation.                                              *)
EXTENDS EventDelivery

CONSTANTS pub, conv, opstr, opn

MCSources == { [stream |-> pub, op |-> NoOp],
               [stream |-> conv, op |-> NoOp], [stream |-> opstr, op |-> opn] }

=============================================================================
