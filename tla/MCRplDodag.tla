----------------------------- MODULE MCRplDodag -----------------------------
(***************************************************************************)
(* Three motes that all hear each other.  The links a mote has sent frames *)
(* on are those on which a circle of parents can come about.               *)
(***************************************************************************)
EXTENDS RplDodag

AllInReach == {<<m, n>> \in Motes \X Addresses : m # n}
RootFirst  == [m \in Motes |-> IF m = "a" THEN <<"r", "b">> ELSE <<"r", "a">>]
SomeLinks  == {<<"a", "r">>, <<"a", "b">>, <<"b", "a">>}
=============================================================================
