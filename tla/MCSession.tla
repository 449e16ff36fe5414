------------------------------ MODULE MCSession ------------------------------
(* Model-checking instance of Session: four events, a heartbeat due every  *)
(* two, and four failing writes, so that a failed write_event, a failed      *)
(* write_end and a failed Drop can follow one another.                      *)
EXTENDS Session

=============================================================================
