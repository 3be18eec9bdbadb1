---------------------------- MODULE MCSerialLink ----------------------------
(* Model values for the run of SerialLink: data and a checksum contain     *)
(* START_FLAG, 18.                                                         *)
EXTENDS SerialLink

Payloads_ == {<<18>>}
Commands_ == <<<<12, 1>>, <<12, 2>>>>
=============================================================================
