--------------------------- MODULE ChannelManager ---------------------------
(***************************************************************************)
(* server.boot.ChannelManager: the registry every part of the server       *)
(* shares.  It is a plain java.util.HashMap, written by the Netty event    *)
(* loops and read by the web request threads with no lock at all, so this  *)
(* module gives what a call on it may leave behind when another thread     *)
(* changed the table while the call was running.                           *)
(*                                                                         *)
(* A map is a function whose domain is the set of registered keys.  A      *)
(* mutation has two moments: the call reads the table (the caller keeps    *)
(* that table, "seen"), and later it publishes its change.  If the change  *)
(* is structural (a key is added or unlinked) it may be published on top   *)
(* of the table as it was seen, which discards what others did meanwhile:  *)
(* two resizes racing, a bucket's tail appended to while it is unlinked.   *)
(* A change that is not structural (the value of a present key, the        *)
(* removal of an absent one) discards nothing.                             *)
(***************************************************************************)
EXTENDS Functions

\* The table before any agent has registered.
EmptyMap == << >>

\* HashMap.put(k, v) and HashMap.remove(k), run alone.
MapPut(m, k, v) == [x \in DOMAIN m \cup {k} |-> IF x = k THEN v ELSE m[x]]
MapRemove(m, k) == Restrict(m, DOMAIN m \ {k})

\* The tables that put(k, v) may publish: m is the table now, seen the table
\* the call read when it began.
PutOutcomes(m, seen, k, v) ==
    {MapPut(m, k, v)} \cup
    (IF k \in DOMAIN seen THEN {} ELSE {MapPut(seen, k, v)})

\* The tables that remove(k) may publish.
RemoveOutcomes(m, seen, k) ==
    {MapRemove(m, k)} \cup
    (IF k \in DOMAIN seen THEN {MapRemove(seen, k)} ELSE {})

=============================================================================
