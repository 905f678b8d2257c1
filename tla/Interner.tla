------------------------------ MODULE Interner ------------------------------
(***************************************************************************)
(* What strtab.h promises of the string table, with no buckets in it: a    *)
(* call returns a pointer to the string, always the same one for the same  *)
(* string and never the one of another string, for the lifetime of the     *)
(* arena.  Running out of memory ends the program.                         *)
(***************************************************************************)
EXTENDS Naturals

CONSTANTS
  Str,      \* the byte strings
  NoStr,    \* no call in progress
  Address   \* what a pointer into the arena can be

NULL == 0

VARIABLES
  call,     \* the string being interned, or NoStr
  pointer,  \* the pointer returned for each string, NULL for none yet
  dead      \* memory ran out, at the start or since

vars == <<call, pointer, dead>>

Init ==
  /\ call = NoStr
  /\ pointer = [s \in Str |-> NULL]
  /\ dead \in BOOLEAN

Call(s) ==
  /\ call = NoStr
  /\ ~dead
  /\ call' = s
  /\ UNCHANGED <<pointer, dead>>

Taken == {pointer[s] : s \in Str}

Return ==
  /\ call # NoStr
  /\ ~dead
  /\ \/ /\ pointer[call] # NULL
        /\ UNCHANGED pointer
     \/ /\ pointer[call] = NULL
        /\ pointer' \in [Str -> Address \cup {NULL}]
        /\ pointer'[call] \in Address \ Taken
        /\ \A s \in Str \ {call} : pointer'[s] = pointer[s]
  /\ call' = NoStr
  /\ UNCHANGED dead

RunOut ==
  /\ ~dead
  /\ dead' = TRUE
  /\ UNCHANGED <<call, pointer>>

Next == Return \/ RunOut \/ \E s \in Str : Call(s)

Spec == Init /\ [][Next]_vars
=============================================================================
