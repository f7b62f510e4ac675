------------------------------ MODULE LruCache ------------------------------
(***************************************************************************)
(* AsyncLruCache over LruCache: the map of pending fetches, and the cache  *)
(* as it is built, a hash map of raw pointers into a doubly linked list.   *)
(* A node is known by its key.  lruOrder is what the list stands for: the  *)
(* cached keys, the most recently used first.  An access that is dropped   *)
(* while it waits for the fetch it has started leaves the fetch among the  *)
(* pending ones; a fetch goes on as long as some access waits for it.      *)
(***************************************************************************)
EXTENDS Integers, Sequences

CONSTANTS
    Key,
    Access,      \* calls of access that go on at the same time
    Requested,   \* the capacity asked for
    Nil

ASSUME RequestedAssumption == Requested \in Nat /\ Nil \notin Key

VARIABLES
    lruMap,                 \* keys with a node
    lruHead, lruTail,       \* of the list
    lruNext, lruPrev,       \* of each node
    lruOrder,               \* what the list stands for
    pending,                \* outcome of the pending fetches
    access                  \* what the calls wait for

list == <<lruMap, lruHead, lruTail, lruNext, lruPrev, lruOrder>>
lruVars == <<list, pending, access>>

-----------------------------------------------------------------------------

(* LruCache::new *)
Capacity == IF Requested = 0 THEN 1 ELSE Requested

Outcome == {"running", "value", "nothing", "error"}
NoAccess == [key |-> Nil, owner |-> FALSE, outcome |-> "running"]

LruInit ==
    /\ lruMap = {} /\ lruHead = Nil /\ lruTail = Nil
    /\ lruNext = [k \in Key |-> Nil] /\ lruPrev = [k \in Key |-> Nil]
    /\ lruOrder = << >>
    /\ pending = [k \in Key |-> "none"]
    /\ access = [a \in Access |-> NoAccess]

-----------------------------------------------------------------------------
(* LinkedList.  A list is a record of its pointers, so that the operations  *)
(* of the cache can be put together from those of the list.                 *)

Now == [map |-> lruMap, head |-> lruHead, tail |-> lruTail, next |-> lruNext, prev |-> lruPrev]

(* A pointer of a node, when there is a node. *)
Write(f, k, v) == IF k = Nil THEN f ELSE [f EXCEPT ![k] = v]

BringToFront(l, k) ==
    IF k = l.head THEN l
    ELSE LET p == l.prev[k]  n == l.next[k] IN
         [l EXCEPT !.next = Write(Write(@, p, n), k, l.head),
                   !.prev = Write(Write(Write(@, n, p), k, Nil), l.head, k),
                   !.tail = IF n = Nil THEN p ELSE @,
                   !.head = k]

PushFront(l, k) ==
    [l EXCEPT !.next = Write(@, k, l.head),
              !.prev = Write(Write(@, k, Nil), l.head, k),
              !.head = k,
              !.tail = IF @ = Nil THEN k ELSE @,
              !.map = @ \cup {k}]

RemoveNode(l, k) ==
    LET p == l.prev[k]  n == l.next[k] IN
    [l EXCEPT !.next = Write(Write(@, p, n), k, Nil),
              !.prev = Write(Write(@, n, p), k, Nil),
              !.head = IF p = Nil THEN n ELSE @,
              !.tail = IF n = Nil THEN p ELSE @,
              !.map = @ \ {k}]

(* The head is left alone: the list had more than one node. *)
PopTail(l) ==
    LET k == l.tail  p == l.prev[l.tail] IN
    [l EXCEPT !.next = Write(Write(@, p, Nil), k, Nil), !.prev = Write(@, k, Nil),
              !.tail = p, !.map = @ \ {k}]

(* The sequence without the element k that it has once. *)
Position(s, k) == CHOOSE i \in 1 .. Len(s) : s[i] = k
Without(s, k) == [i \in 1 .. Len(s) - 1 |-> s[IF i < Position(s, k) THEN i ELSE i + 1]]

Become(l, order) ==
    /\ lruMap' = l.map /\ lruHead' = l.head /\ lruTail' = l.tail
    /\ lruNext' = l.next /\ lruPrev' = l.prev /\ lruOrder' = order

Overfull(l) == Len(lruOrder) + 1 > Capacity

(* LruCache::insert: an entry that is there comes to the front, a new one  *)
(* may push out the last.                                                  *)
Insert(k) ==
    IF k \in lruMap
    THEN Become(BringToFront(Now, k), <<k>> \o Without(lruOrder, k))
    ELSE LET l == PushFront(Now, k)  order == <<k>> \o lruOrder IN
         IF Overfull(l) THEN Become(PopTail(l), SubSeq(order, 1, Len(order) - 1)) ELSE Become(l, order)

-----------------------------------------------------------------------------
(* AsyncLruCache *)

(* insert, from the outside *)
InsertKey(k) ==
    /\ Insert(k)
    /\ UNCHANGED <<pending, access>>

(* contains: get_mut *)
ContainsKey(k) ==
    /\ k \in lruMap
    /\ Become(BringToFront(Now, k), <<k>> \o Without(lruOrder, k))
    /\ UNCHANGED <<pending, access>>

RemoveKey(k) ==
    /\ k \in lruMap
    /\ Become(RemoveNode(Now, k), Without(lruOrder, k))
    /\ UNCHANGED <<pending, access>>

(* access: listen to a fetch, take what is cached, or start a fetch. *)
AccessPending(a, k) ==
    /\ access[a] = NoAccess /\ pending[k] # "none"
    /\ access' = [access EXCEPT ![a] = [key |-> k, owner |-> FALSE, outcome |-> pending[k]]]
    /\ UNCHANGED <<list, pending>>

AccessCached(a, k) ==
    /\ access[a] = NoAccess /\ pending[k] = "none"
    /\ ContainsKey(k)

AccessFetches(a, k) ==
    /\ access[a] = NoAccess /\ pending[k] = "none" /\ k \notin lruMap
    /\ pending' = [pending EXCEPT ![k] = "running"]
    /\ access' = [access EXCEPT ![a] = [key |-> k, owner |-> TRUE, outcome |-> "running"]]
    /\ UNCHANGED list

(* BroadcastFuture: whoever waits drives the fetch, and all get its outcome. *)
(* Mutated form: only the access that has started it. *)
FetchEndsOwned(k, outcome) ==
    /\ pending[k] = "running" /\ \E a \in Access : access[a].key = k /\ access[a].owner
    /\ pending' = [pending EXCEPT ![k] = outcome]
    /\ access' = [a \in Access |-> IF access[a].key = k THEN [access[a] EXCEPT !.outcome = outcome]
                                                        ELSE access[a]]
    /\ UNCHANGED list
FetchEnds(k, outcome) ==
    /\ pending[k] = "running" /\ \E a \in Access : access[a].key = k
    /\ pending' = [pending EXCEPT ![k] = outcome]
    /\ access' = [a \in Access |-> IF access[a].key = k THEN [access[a] EXCEPT !.outcome = outcome]
                                                        ELSE access[a]]
    /\ UNCHANGED list

(* Mutated form: whoever returns removes the fetch. *)
AccessReturnsAll(a) ==
    LET k == access[a].key IN
    /\ k # Nil /\ access[a].outcome # "running"
    /\ access' = [access EXCEPT ![a] = NoAccess]
    /\ IF access[a].owner /\ access[a].outcome = "value" THEN Insert(k) ELSE UNCHANGED list
    /\ pending' = [pending EXCEPT ![k] = "none"]

(* The access that has started the fetch puts the value into the cache and *)
(* removes the fetch.                                                      *)
AccessReturns(a) ==
    LET k == access[a].key IN
    /\ k # Nil /\ access[a].outcome # "running"
    /\ access' = [access EXCEPT ![a] = NoAccess]
    /\ IF access[a].owner /\ access[a].outcome = "value" THEN Insert(k) ELSE UNCHANGED list
    /\ pending' = IF access[a].owner THEN [pending EXCEPT ![k] = "none"] ELSE pending

(* The callback on the evicted entry fails: the fetch stays. *)
AccessCallbackFails(a) ==
    LET k == access[a].key IN
    /\ access[a].owner /\ access[a].outcome = "value" /\ k \notin lruMap /\ Overfull(Now)
    /\ Insert(k)
    /\ access' = [access EXCEPT ![a] = NoAccess]
    /\ UNCHANGED pending

(* The future of the call is dropped. *)
AccessDropped(a) ==
    /\ access[a] # NoAccess
    /\ access' = [access EXCEPT ![a] = NoAccess]
    /\ UNCHANGED <<list, pending>>

LruNext ==
    \/ \E k \in Key : InsertKey(k) \/ ContainsKey(k) \/ RemoveKey(k)
    \/ \E k \in Key, o \in Outcome \ {"running"} : FetchEnds(k, o)
    \/ \E a \in Access :
        \/ AccessReturns(a) \/ AccessCallbackFails(a) \/ AccessDropped(a)
        \/ \E k \in Key : AccessPending(a, k) \/ AccessCached(a, k) \/ AccessFetches(a, k)

(* Fetches end when they are driven, and calls are woken. *)
FetchProgress(k) == \E o \in Outcome \ {"running"} : FetchEnds(k, o)
LruSpec == LruInit /\ [][LruNext]_lruVars
LruFairSpec ==
    /\ LruSpec
    /\ \A k \in Key : WF_lruVars(FetchProgress(k))
    /\ \A a \in Access : WF_lruVars(AccessReturns(a))

-----------------------------------------------------------------------------
(* Properties *)

LruTypeOK ==
    /\ lruMap \subseteq Key /\ lruOrder \in Seq(Key)
    /\ lruHead \in Key \cup {Nil} /\ lruTail \in Key \cup {Nil}
    /\ lruNext \in [Key -> Key \cup {Nil}] /\ lruPrev \in [Key -> Key \cup {Nil}]
    /\ pending \in [Key -> Outcome \cup {"none"}]
    /\ access \in [Access -> [key : Key \cup {Nil}, owner : BOOLEAN, outcome : Outcome]]

(* The raw pointers of LinkedList, read from either end, are the keys of   *)
(* the hash map in the order of their use: no node is lost, freed twice or *)
(* reached after it was freed, although pop_tail never resets the head.    *)
ListIsOrder ==
    LET n == Len(lruOrder)
        At(i) == IF i \in 1 .. n THEN lruOrder[i] ELSE Nil
    IN  /\ lruMap = {lruOrder[i] : i \in 1 .. n} /\ n <= Capacity
        /\ \A i, j \in 1 .. n : lruOrder[i] = lruOrder[j] => i = j
        /\ lruHead = At(1) /\ lruTail = At(n)
        /\ \A i \in 1 .. n : lruNext[lruOrder[i]] = At(i + 1) /\ lruPrev[lruOrder[i]] = At(i - 1)

(* "if the key has already been requested and the result is not cached     *)
(* yet, the 'fetch' function will not be called" (AsyncCacher): a key has  *)
(* one fetch, whose outcome is the one its listeners have, until the call  *)
(* that has started it returns.                                            *)
OneFetch ==
    \A a, b \in Access :
        access[a].owner => /\ pending[access[a].key] = access[a].outcome
                           /\ access[b].owner /\ access[b].key = access[a].key => a = b

CacheSafe == LruTypeOK /\ ListIsOrder /\ OneFetch

(* "multiple concurrent requests to the same key": a request is answered   *)
(* although the one that has started the fetch was dropped.                *)
AccessAnswered == \A a \in Access : access[a] # NoAccess ~> access[a] = NoAccess
=============================================================================
