---------------------------- MODULE AbstractMap ----------------------------
(***************************************************************************)
(* What Map, Set and the compiler's table of names promise: a finite map   *)
(* from keys to values, and what each call returns.                        *)
(***************************************************************************)
EXTENDS Integers

CONSTANTS Keys, Values, NoValue
VARIABLES flavour,  \* "map", "set" or "names"
          map,      \* the keys that are in and their values
          ret       \* what the last call returned

vars == << flavour, map, ret >>

Init == flavour \in {"map", "set", "names"} /\ map = [k \in {} |-> NoValue] /\ ret = NoValue

With(k, v) == [x \in DOMAIN map \cup {k} |-> IF x = k THEN v ELSE map[x]]

\* A map overwrites, a set keeps what it has and says so, and the caller of
\* the table of names chooses.
MayOverwrite == [map |-> {TRUE}, set |-> {FALSE}, names |-> BOOLEAN]
Put(k, v, overwrite) ==
  LET keeps == k \in DOMAIN map /\ ~overwrite
  IN  /\ map' = IF keeps THEN map ELSE With(k, v)
      /\ ret' = ~keeps
      /\ UNCHANGED flavour

Get(k) == ret' = (IF k \in DOMAIN map THEN map[k] ELSE NoValue) /\ UNCHANGED << flavour, map >>

Remove(k) ==
  /\ map' = [x \in DOMAIN map \ {k} |-> map[x]]
  /\ ret' = (k \in DOMAIN map)
  /\ UNCHANGED flavour

Next == \E k \in Keys : Get(k) \/ Remove(k) \/ \E v \in Values, overwrite \in MayOverwrite[flavour] : Put(k, v, overwrite)
Spec == Init /\ [][Next]_vars
=============================================================================
