------------------------------ MODULE KeyedMap ------------------------------
(***************************************************************************)
(* What a map from keys to values promises, however it is laid out.  A     *)
(* call takes effect in one step between its invocation and its return,    *)
(* and that step settles what it returns.  An insertion may fail and then  *)
(* leaves the map as it was.                                               *)
(***************************************************************************)
CONSTANTS
  Keys,
  Values,
  NoValue    \* the answer of a lookup of a key that is not there

VARIABLES
  dict,      \* a function from the keys that are there to their values
  call       \* the call in progress, or Idle

vars == <<dict, call>>

Open  == "open"          \* not yet settled
Yes   == "yes"
No    == "no"
Idle  == [op |-> "none", key |-> NoValue, value |-> NoValue, reply |-> Open]
Lookups   == [op : {"get", "has", "remove"}, key : Keys, value : {NoValue}, reply : {Open}]
Inserts   == [op : {"insert"}, key : Keys, value : Values, reply : {Open}]
Calls == Lookups \cup Inserts

Init ==
  /\ dict = [k \in {} |-> NoValue]
  /\ call = Idle

Invoke(c) ==
  /\ call = Idle
  /\ call' = c
  /\ UNCHANGED dict

Settle(op, reply) ==
  /\ call.op = op
  /\ call.reply = Open
  /\ call' = [call EXCEPT !.reply = reply]

Present == call.key \in DOMAIN dict

Insert ==
  /\ Settle("insert", Yes)
  /\ dict' = [k \in DOMAIN dict \cup {call.key} |-> IF k = call.key THEN call.value ELSE dict[k]]

FailToInsert ==
  /\ Settle("insert", No)
  /\ UNCHANGED dict

Get ==
  /\ Settle("get", IF Present THEN dict[call.key] ELSE NoValue)
  /\ UNCHANGED dict

Has ==
  /\ Settle("has", IF Present THEN Yes ELSE No)
  /\ UNCHANGED dict

Delete ==
  /\ Settle("remove", IF Present THEN Yes ELSE No)
  /\ dict' = [k \in DOMAIN dict \ {call.key} |-> dict[k]]

Return ==
  /\ call # Idle
  /\ call.reply # Open
  /\ call' = Idle
  /\ UNCHANGED dict

Clear ==
  /\ call = Idle
  /\ dict' = [k \in {} |-> NoValue]
  /\ UNCHANGED call

Next == \/ \E c \in Calls : Invoke(c)
        \/ Insert \/ FailToInsert \/ Get \/ Has \/ Delete
        \/ Return
        \/ Clear

Spec == Init /\ [][Next]_vars
=============================================================================
