--------------------------- MODULE AddressRanges ----------------------------
(***************************************************************************)
(* What an allocator of address ranges promises its users: a range that is *)
(* granted lies within the memory, starts where it was asked to and shares *)
(* no address with a range that somebody holds, and it stays as it is      *)
(* until its holder gives it back.  A range is [start, end), start and end *)
(* counted from the same zero.                                             *)
(***************************************************************************)
EXTENDS Integers

CONSTANTS Handles,   \* those who hold memory
          First, End \* the memory is [First, End)

VARIABLE held        \* the range each handle holds, or Nothing

Nothing == [start |-> -1, end |-> -1]

Ranges == [start : First .. End, end : First .. End]

Apart(r, s) == r.end <= s.start \/ s.end <= r.start

Init == held = [h \in Handles |-> Nothing]

Grant(h) ==
  /\ held[h] = Nothing
  /\ \E r \in Ranges :
       /\ r.start <= r.end
       /\ \A g \in Handles : held[g] # Nothing => Apart(r, held[g])
       /\ held' = [held EXCEPT ![h] = r]

Release(h) ==
  /\ held[h] # Nothing
  /\ held' = [held EXCEPT ![h] = Nothing]

Next == \E h \in Handles : Grant(h) \/ Release(h)

RangesSpec == Init /\ [][Next]_held
=============================================================================
