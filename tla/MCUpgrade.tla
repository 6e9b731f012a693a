------------------------------- MODULE MCUpgrade -------------------------------
(***************************************************************************)
(* Instance of Upgrade: 1.9.0, 1.10.0-rc.2, 1.10.0-rc.10 and 1.10.0, in an *)
(* order in which each can come after each.                                *)
(***************************************************************************)
EXTENDS Upgrade

Release(parts) == [parts |-> parts, suffix |-> NoSuffix]

\* Of the strings rc.10 comes before rc.2.
Candidate(parts, n) ==
  [parts  |-> parts,
   suffix |-> [mark |-> "-", rank |-> IF n = 10 THEN 1 ELSE 2,
               ids  |-> <<[num |-> FALSE, at |-> 1], [num |-> TRUE, at |-> n]>>]]

MCTags == <<Release(<<1, 9, 0>>), Candidate(<<1, 10, 0>>, 2), Candidate(<<1, 10, 0>>, 10),
            Release(<<1, 10, 0>>)>>
===============================================================================
