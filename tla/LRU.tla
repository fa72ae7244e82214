--------------------------------- MODULE LRU ---------------------------------
(***************************************************************************)
(* webhook.LRU: a doubly linked list with the most recently seen id in     *)
(* front, and a map from ids to list elements.  Hit and Insert are the two *)
(* outcomes of Seen, which is one critical section of LRU.mu; its time     *)
(* (now) was read before the lock was taken.                               *)
(***************************************************************************)
EXTENDS Naturals, Sequences, SequencesExt

CONSTANTS Event,    \* event ids
          Cap,      \* NewLRU's capacity
          Ttl       \* the retention Seen is asked for

ASSUME LRUAssumption == Cap \in Nat \ {0} /\ Ttl \in Nat

VARIABLES
  list,       \* keys of the list's elements, front first
  keys,       \* keys of the map
  expiresAt   \* expiresAt[e]: the expiry of e's last element

cache == <<list, keys, expiresAt>>

\* List and map together: every element is mapped once, every key has its
\* element, and there is room for all of them.
ListMatchesMap == ToSet(list) = keys /\ IsInjective(list) /\ Len(list) <= Cap

CacheInit == list = <<>> /\ keys = {} /\ expiresAt = [e \in Event |-> 0]

\* list.Remove of the element the map has for e; the rest when it has none.
Unlink(e) ==
  IF e \in keys THEN RemoveAt(list, CHOOSE i \in DOMAIN list : list[i] = e) ELSE list

\* Fault: the expiry of the entry is not looked at.
FaultyHitExpired(e, now) ==
  /\ e \in keys
  /\ list' = <<e>> \o Unlink(e)
  /\ UNCHANGED <<keys, expiresAt>>

\* Fault: the element stays where it is in the list.
FaultyHitInPlace(e, now) ==
  /\ e \in keys /\ expiresAt[e] > now
  /\ UNCHANGED <<list, keys, expiresAt>>

\* A known id whose entry has not expired is moved to the front.
Hit(e, now) ==
  /\ e \in keys /\ expiresAt[e] > now
  /\ list' = <<e>> \o Unlink(e)
  /\ UNCHANGED <<keys, expiresAt>>

\* Fault: the evicted element's key stays in the map.
FaultyInsert(e, now) ==
  /\ e \in keys => expiresAt[e] <= now
  /\ LET others == Unlink(e)
         kept == IF Len(others) < Cap THEN others ELSE SubSeq(others, 1, Cap - 1)
     IN list' = <<e>> \o kept
  /\ keys' = {e} \cup keys
  /\ expiresAt' = [expiresAt EXCEPT ![e] = now + Ttl]

\* Fault: an id seen again after its time keeps the expiry of its old entry.
FaultyInsertKeepsExpiry(e, now) ==
  /\ e \in keys => expiresAt[e] <= now
  /\ LET others == Unlink(e)
         kept == IF Len(others) < Cap THEN others ELSE SubSeq(others, 1, Cap - 1)
     IN /\ list' = <<e>> \o kept
        /\ keys' = {e} \cup ToSet(kept)
  /\ expiresAt' = IF e \in keys THEN expiresAt
                  ELSE [expiresAt EXCEPT ![e] = now + Ttl]

\* An expired entry goes first, then the least recent ones until one place is
\* free; the id is pushed to the front.
Insert(e, now) ==
  /\ e \in keys => expiresAt[e] <= now
  /\ LET others == Unlink(e)
         kept == IF Len(others) < Cap THEN others ELSE SubSeq(others, 1, Cap - 1)
     IN /\ list' = <<e>> \o kept
        /\ keys' = {e} \cup ToSet(kept)
  /\ expiresAt' = [expiresAt EXCEPT ![e] = now + Ttl]
==============================================================================
