---------------------------- MODULE BdIdGenerator ----------------------------
(***************************************************************************)
(* ChannelBdIdGenerator: which buffer descriptor ids of one tile are in    *)
(* use, and which one is handed out next.  A generator is a record         *)
(*   [assigned |-> set of ids handed out, last |-> id handed out last].    *)
(* The valid ids of a channel are listed in ascending order in the code,   *)
(* so a set of numbers stands for the list.                                *)
(***************************************************************************)
EXTENDS Integers, FiniteSets, FiniteSetsExt

\* No descriptor id, where the code returns std::nullopt.
NoBdId == -1

\* lastUsedBdId of a fresh generator is the largest uint32_t: a number above
\* every valid id of any tile.
UnusedBdId == 65536

NewGenerator == [assigned |-> {}, last |-> UnusedBdId]

isBdIdAssigned(g, b) == b \in g.assigned

FreeBdIds(g, valid) == {b \in valid : ~isBdIdAssigned(g, b)}

getNumAvailableBdIds(g, valid) == Cardinality(FreeBdIds(g, valid))

\* The id getAndAssignBdId picks in the Smallest and in the Incremental mode.
SmallestBdId(g, valid) ==
  IF FreeBdIds(g, valid) = {} THEN NoBdId ELSE Min(FreeBdIds(g, valid))

IncrementalBdId(g, valid) ==
  LET above == {b \in FreeBdIds(g, valid) : b > g.last}
  IN  IF above # {} THEN Min(above) ELSE SmallestBdId(g, valid)

\* getAndAssignConsecutiveBdIds: the first run of num consecutive free ids, or
\* the first of the longest runs when no run is that long.
ConsecutiveBdIds(g, valid, num) ==
  LET free     == FreeBdIds(g, valid)
      runs(n)  == {b \in free : b .. (b + n - 1) \subseteq free}
      lengths  == {n \in 0 .. num : n = 0 \/ runs(n) # {}}
      len      == Max(lengths)
  IN  IF len = 0 THEN {} ELSE Min(runs(len)) .. (Min(runs(len)) + len - 1)

\* assignBdId and releaseBdId for all the ids of a set, in ascending order.
assignBdIds(g, ids) ==
  IF ids = {} THEN g ELSE [assigned |-> g.assigned \cup ids, last |-> Max(ids)]

releaseBdIds(g, ids) == [g EXCEPT !.assigned = @ \ ids]
=============================================================================
