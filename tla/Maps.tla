-------------------------------- MODULE Maps --------------------------------
(***************************************************************************)
(* The tables and hash maps of the program: functions from the keys that   *)
(* are there to what they are mapped to.                                   *)
(***************************************************************************)

\* The value that was there before, if any, is replaced.
Insert(map, key, value) ==
    [x \in DOMAIN map \cup {key} |-> IF x = key THEN value ELSE map[x]]

=============================================================================
