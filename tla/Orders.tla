------------------------------- MODULE Orders -------------------------------
(***************************************************************************)
(* The order of an OrderedDict: its keys as a sequence, each once, the     *)
(* first to be forgotten first.  runtime.py keeps match credentials and    *)
(* gpt_action.py game sessions in one; the waiters of a CapacityLimiter of *)
(* anyio are ordered the same way.                                         *)
(*                                                                         *)
(* Without is SelectSeq with a recursive function for its recursive        *)
(* operator, so that theorems can be proved about it.                      *)
(***************************************************************************)
EXTENDS Naturals, Sequences

\* What the first i entries of s leave once those in D are taken out.
Left(s, D) ==
    LET left[i \in 0..Len(s)] ==
            IF i = 0 THEN <<>>
            ELSE IF s[i] \in D THEN left[i - 1] ELSE Append(left[i - 1], s[i])
    IN  left

\* pop or del of the keys in D: the others keep their order.
Without(s, D) == Left(s, D)[Len(s)]

\* move_to_end, and the insertion of a new key.
MovedToEnd(s, x) == Append(Without(s, {x}), x)

\* popitem(last=False), n times.
WithoutOldest(s, n) == SubSeq(s, n + 1, Len(s))

\* No key occurs twice.
Distinct(s) == \A i, j \in DOMAIN s : s[i] = s[j] => i = j

Keys(s) == {s[i] : i \in DOMAIN s}
=============================================================================
