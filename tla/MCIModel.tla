------------------------------ MODULE MCIModel ------------------------------
(* TLC instances of IModel. *)
EXTENDS IModel

MCNoTokens == [e \in Event |-> 0]
MCStreamed == {CHOOSE e \in Event : TRUE}
MCGiven == Event \ MCStreamed
=============================================================================
