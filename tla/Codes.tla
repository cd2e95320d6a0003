--------------------------------- MODULE Codes ---------------------------------
(* Account codes are the strings of the program: every rule is about prefixes. *)
EXTENDS Integers, Sequences

StartsWith(code, prefix) == Len(prefix) <= Len(code) /\ SubSeq(code, 1, Len(prefix)) = prefix
StartsWithAny(code, prefixes) == \E p \in prefixes : StartsWith(code, p)
==============================================================================
