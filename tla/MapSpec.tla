------------------------------- MODULE MapSpec --------------------------------
(***************************************************************************)
(* What base/map.h promises: a map from u64 keys to pointers, with insert  *)
(* or overwrite and a lookup that tells an absent key from a null value.   *)
(* A put is called, takes effect once and returns.                         *)
(***************************************************************************)
CONSTANTS Keys, Values, Absent

VARIABLES contents,   \* the value of every key, or Absent
          putting,    \* the put under way, <<key, value>>, or <<>>
          got         \* the result of the last lookup

MapInit == contents = [k \in Keys |-> Absent] /\ putting = <<>> /\ got = Absent

CallPut(k, v) ==
    /\ putting = <<>>
    /\ putting' = <<k, v>>
    /\ UNCHANGED <<contents, got>>

Put ==
    /\ putting # <<>>
    /\ contents' = [contents EXCEPT ![putting[1]] = putting[2]]
    /\ putting' = <<>>
    /\ UNCHANGED got

Lookup(k) ==
    /\ putting = <<>>
    /\ got' = contents[k]
    /\ UNCHANGED <<contents, putting>>

MapNext == Put \/ \E k \in Keys : Lookup(k) \/ \E v \in Values : CallPut(k, v)

MapSpec == MapInit /\ [][MapNext]_<<contents, putting, got>>
=============================================================================
