-------------------------- MODULE MCValueReplicas ---------------------------
(***************************************************************************)
(* Small instances of ValueReplicas for TLC.                               *)
(***************************************************************************)
EXTENDS ValueReplicas

\* The integer 1 and the string "1": two values of one payload and two ranks;
\* and an enum value.
SmallValues == {<<2, 1>>, <<5, 1>>, <<9, 1>>}
=============================================================================
