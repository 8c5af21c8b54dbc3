-------------------------- MODULE MCOrderLifecycle --------------------------
(* A small instance of OrderLifecycle for TLC. *)
EXTENDS OrderLifecycle, TLC

CONSTANTS b1, pay, picked, report, put

\* One payment and one shipping event of one order, which Tracking
\* reports once, and a PUT without a payment id.
MCOrderOf == pay :> b1 @@ picked :> b1
MCStatusOf == picked :> "OrderPicked"
MCCauseOf == report :> picked
MCPutOrder == put :> b1
MCPutValue == put :> None
=============================================================================
