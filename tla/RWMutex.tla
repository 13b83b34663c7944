------------------------------ MODULE RWMutex ------------------------------
(***************************************************************************)
(* sync.RWMutex of the Go runtime, as the storages use it.  It is not part *)
(* of the repository: the operators say what its four methods do to the    *)
(* mutex, and nothing else.                                                *)
(*                                                                         *)
(*   writer   the goroutine (none or one) that owns the inner mutex "w":   *)
(*            it has announced itself and either holds the lock or waits   *)
(*            for the readers that were there before it;                   *)
(*   readers  the goroutines that hold the read lock, or were granted it;  *)
(*   parked   the readers that found a writer announced.                   *)
(*                                                                         *)
(* An announced writer stops new readers (that is why a read lock must not *)
(* be taken twice), and Unlock grants the read lock to every parked reader *)
(* before the next writer can announce itself.                             *)
(***************************************************************************)

RWMutexes(G) == [writer : SUBSET G, readers : SUBSET G, parked : SUBSET G]

Unlocked == [writer |-> {}, readers |-> {}, parked |-> {}]

\* RLock, up to the point where the caller either has the lock or is parked.
RLock(m, g) ==
    IF m.writer = {} THEN [m EXCEPT !.readers = @ \cup {g}]
                     ELSE [m EXCEPT !.parked = @ \cup {g}]

RUnlock(m, g) == [m EXCEPT !.readers = @ \ {g}]

\* Lock is two steps: announcing is possible when no writer owns "w" ...
CanAnnounce(m) == m.writer = {}
Announce(m, g) == [m EXCEPT !.writer = {g}]
\* ... and the lock is held once the earlier readers have left.
Drained(m) == m.readers = {}

Unlock(m) == [writer |-> {}, readers |-> m.readers \cup m.parked, parked |-> {}]
=============================================================================
