------------------------------- MODULE MyCache -------------------------------
(***************************************************************************)
(* process/MyCache.cc and Cache.cc: the query cache of the server.  It is  *)
(* kept twice: workers look up queries in *_current under _read; a thread  *)
(* collects what they wrote to _list under _write, adds it to *_clone,     *)
(* swaps the two and adds it a second time to the one that was current.    *)
(*                                                                         *)
(* The answer to a query is determined by the query and is left out: a     *)
(* node is its query.                                                      *)
(***************************************************************************)
EXTENDS Naturals, SequencesExt

CONSTANTS Workers,        \* the threads that answer queries
          Query,          \* queries
          Capacity,       \* Cache::_capacity, 1000
          Bar,            \* MyCache::_bar, 10
          MaxWrites       \* bound: calls of write()

ASSUME CapacityPositive == Capacity \in Nat \ {0}
ASSUME BoundsAssumption == Bar \in Nat /\ MaxWrites \in Nat

VARIABLES current,        \* *_current
          clone,          \* *_clone
          list,           \* _list
          wpc, job,       \* per worker: where it is, the query it answers
          tpc,            \* where the cache thread is
          docker,         \* _docker
          added,          \* how many nodes of _docker the loop has added
          written,        \* history: the nodes handed to write(), in order
          published       \* history: how many of them *_current has seen

thread == <<tpc, docker, added>>
workers == <<wpc, job>>
vars == <<current, clone, list, workers, thread, written, published>>

(* A Cache is its list, the last used node first, and the keys of its hash *)
(* map; an iterator of the map is the node with that key.                  *)
Empty == [list |-> << >>, keys |-> {}]

Place(c, q) == CHOOSE i \in DOMAIN c.list : c.list[i] = q
MoveToFront(c, q) == [c EXCEPT !.list = <<q>> \o RemoveAt(@, Place(c, q))]
PushFront(c, q) == [list |-> <<q>> \o c.list, keys |-> c.keys \cup {q}]

(* Mutant: the node is evicted from the list only.                         *)
EvictKeepsKey(c) == [c EXCEPT !.list = SubSeq(@, 1, Capacity - 1)]

(* The least recently used node goes.                                      *)
Evict(c) == [list |-> SubSeq(c.list, 1, Capacity - 1),
             keys |-> c.keys \ {c.list[Capacity]}]

(* Cache::addElement                                                       *)
AddElement(c, q) ==
    IF q \in c.keys THEN MoveToFront(c, q)
    ELSE PushFront(IF Len(c.list) = Capacity THEN Evict(c) ELSE c, q)

Init == /\ current = Empty /\ clone = Empty
        /\ list = << >>
        /\ wpc = [w \in Workers |-> "idle"]
        /\ job = [w \in Workers |-> {}]
        /\ tpc = "head"
        /\ docker = << >>
        /\ added = 0
        /\ written = << >>
        /\ published = 0
-----------------------------------------------------------------------------
(* The workers.                                                            *)

(* read(): a hit, or a miss after which the answer is computed; either way *)
(* the worker goes on to write().                                          *)
Read(w, q) ==
    /\ wpc[w] = "idle"
    /\ wpc' = [wpc EXCEPT ![w] = IF q \in current.keys THEN "hit" ELSE "miss"]
    /\ job' = [job EXCEPT ![w] = {q}]
    /\ UNCHANGED <<current, clone, list, thread, written, published>>

(* write()                                                                 *)
Write(w) ==
    /\ wpc[w] # "idle"
    /\ Len(written) < MaxWrites
    /\ \E q \in job[w] : /\ list' = Append(list, q)
                         /\ written' = Append(written, q)
    /\ tpc' = IF tpc = "wait" /\ Len(list) >= Bar THEN "woken" ELSE tpc
    /\ wpc' = [wpc EXCEPT ![w] = "idle"]
    /\ job' = [job EXCEPT ![w] = {}]
    /\ UNCHANGED <<current, clone, docker, added, published>>
-----------------------------------------------------------------------------
(* The cache thread: threadFuc.                                            *)

(* It waits in every round, whatever is in the list.                       *)
Wait ==
    /\ tpc = "head"
    /\ tpc' = "wait"
    /\ UNCHANGED <<current, clone, list, workers, docker, added, written, published>>

(* Mutant: the wait has no timeout.                                        *)
TimeoutNever == FALSE /\ UNCHANGED vars

(* The wait is over after _time seconds, or for no reason at all.          *)
Timeout ==
    /\ tpc = "wait"
    /\ tpc' = "woken"
    /\ UNCHANGED <<current, clone, list, workers, docker, added, written, published>>

(* Mutant: the list is copied and not swapped.                             *)
TakeListCopies ==
    /\ tpc = "woken"
    /\ tpc' = "add"
    /\ docker' = list
    /\ UNCHANGED <<current, clone, list, workers, added, written, published>>

TakeList ==
    /\ tpc = "woken"
    /\ tpc' = "add"
    /\ docker' = list
    /\ list' = docker
    /\ UNCHANGED <<current, clone, workers, added, written, published>>

(* One round of either loop over _docker.                                  *)
AddNode ==
    /\ tpc \in {"add", "again"}
    /\ added < Len(docker)
    /\ clone' = AddElement(clone, docker[added + 1])
    /\ added' = added + 1
    /\ UNCHANGED <<current, list, workers, tpc, docker, written, published>>

(* The clone is written to a file that no code reads, and becomes current. *)
Publish ==
    /\ tpc = "add"
    /\ added = Len(docker)
    /\ tpc' = "again"
    /\ added' = 0
    /\ current' = clone /\ clone' = current
    /\ published' = published + Len(docker)
    /\ UNCHANGED <<list, workers, docker, written>>

(* Mutant: what was taken is not added to the cache that was current.      *)
ClearAtOnce ==
    /\ tpc = "again"
    /\ tpc' = "head"
    /\ docker' = << >>
    /\ added' = 0
    /\ UNCHANGED <<current, clone, list, workers, written, published>>

Clear ==
    /\ tpc = "again"
    /\ added = Len(docker)
    /\ tpc' = "head"
    /\ docker' = << >>
    /\ added' = 0
    /\ UNCHANGED <<current, clone, list, workers, written, published>>
-----------------------------------------------------------------------------
WorkerNext == \E w \in Workers : Write(w) \/ \E q \in Query : Read(w, q)
CacheThread == Wait \/ Timeout \/ TakeList \/ AddNode \/ Publish \/ Clear

Next == WorkerNext \/ CacheThread

Spec == Init /\ [][Next]_vars

(* The cache thread runs for ever, and its wait is a timed one.            *)
FairSpec == /\ Spec
            /\ WF_vars(Wait) /\ WF_vars(Timeout) /\ WF_vars(TakeList)
            /\ WF_vars(AddNode) /\ WF_vars(Publish) /\ WF_vars(Clear)
-----------------------------------------------------------------------------
ThreadPc == {"head", "wait", "woken", "add", "again"}
Caches == [list : Seq(Query), keys : SUBSET Query]

(* The types, and that nothing is left in _docker when the list is taken.  *)
TypeOK ==
    /\ current \in Caches /\ clone \in Caches
    /\ list \in Seq(Query) /\ docker \in Seq(Query) /\ written \in Seq(Query)
    /\ wpc \in [Workers -> {"idle", "hit", "miss"}]
    /\ job \in [Workers -> SUBSET Query]
    /\ tpc \in ThreadPc
    /\ added \in 0 .. Len(docker)
    /\ published \in 0 .. Len(written)
    /\ tpc \in {"head", "wait", "woken"} => docker = << >>

(* A cache is what its operations rely on: the map knows exactly the nodes *)
(* of the list, each once, and they are no more than its capacity.         *)
Consistent(c) == /\ c.keys = Range(c.list)
                 /\ IsInjective(c.list)
                 /\ Len(c.list) <= Capacity

CachesConsistent == Consistent(current) /\ Consistent(clone)

(* No write is lost or overtaken on its way into the caches: those that    *)
(* *_current has not seen are in _docker or in _list, in order.            *)
NothingLost ==
    written = SubSeq(written, 1, published)
                \o (IF tpc = "add" THEN docker ELSE << >>) \o list

(* What a reader finds is always the cache of the first writes, all of     *)
(* them, none twice and none half applied; and the clone is that cache as  *)
(* well, or differs by the nodes of _docker still to be added.             *)
CacheOf == LET cache[n \in 0 .. Len(written)] ==
                 IF n = 0 THEN Empty ELSE AddElement(cache[n - 1], written[n])
           IN  cache
Replicas ==
    /\ current = CacheOf[published]
    /\ clone = CASE tpc = "add" -> CacheOf[published + added]
                 [] tpc = "again" -> CacheOf[published - Len(docker) + added]
                 [] OTHER -> current

(* Every write reaches the readers.                                        *)
EventuallyPublished ==
    \A n \in 1 .. MaxWrites : Len(written) >= n ~> published >= n
=============================================================================
