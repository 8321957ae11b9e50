------------------------------ MODULE DedupCache ------------------------------
(***************************************************************************)
(* How the consumers recognise a message they have seen: is_duplicate of   *)
(* the RabbitMQ and of the Kafka consumer keeps message ids in             *)
(* django.core.cache.  The settings define no CACHES, so this is           *)
(* LocMemCache: entries in the memory of one process, the most recent      *)
(* first.  An entry that expires (7 days) is left out: a restart forgets   *)
(* more.                                                                   *)
(***************************************************************************)
EXTENDS Naturals, Sequences, SequencesExt

CONSTANTS
  CacheSize,      \* MAX_ENTRIES of the cache (300)
  Unnamed         \* messages without an id: never looked up, never kept

ASSUME CacheSizeAssumption == CacheSize \in Nat /\ CacheSize >= 3

Known(entries, m) == m \notin Unnamed /\ m \in Range(entries)

\* A full cache first drops the least recent third of its entries.
Culled(entries) ==
  IF Len(entries) < CacheSize THEN entries
  ELSE SubSeq(entries, 1, Len(entries) - (Len(entries) \div 3))

\* Mutant: a message without an id is remembered too.
RememberUnnamed(entries, m) == <<m>> \o Culled(entries)

Remember(entries, m) == IF m \in Unnamed THEN entries ELSE <<m>> \o Culled(entries)

\* A look-up that finds m makes it the most recent entry.
Touch(entries, m) ==
  <<m>> \o RemoveAt(entries, CHOOSE i \in 1 .. Len(entries) : entries[i] = m)

===============================================================================
