----------------------------- MODULE AddrTable -----------------------------
(***************************************************************************)
(* The address translation table (zb_address.c): entries that pair a long  *)
(* (IEEE) and a short (network) address, referred to by their index; the   *)
(* array of references sorted by short address that short_search bisects;  *)
(* the locks that keep an entry; and the redirection of one locked entry   *)
(* to another when two turn out to be the same device.                     *)
(*                                                                         *)
(* The clients are the stack and the application: they look addresses up,  *)
(* tell the table of new pairs and hold locks, as zb_address.h documents.  *)
(* Which free or expired entry a new address gets (the hash of the long    *)
(* address, then the clock algorithm) is left open.                        *)
(***************************************************************************)
EXTENDS Integers, Sequences, FiniteSetsExt, SequencesExt

CONSTANTS
  Size,          \* ZB_IEEE_ADDR_TABLE_SIZE
  Ieee,          \* the long addresses of the devices
  MaxShort,      \* short addresses are 0..MaxShort, 0 is the coordinator's
  Unknown,       \* the unknown long address
  EvictsByIeee,  \* an entry for a long address alone may replace an expired one
  MaxLock        \* bound on the locks the clients hold

ASSUME AddrConstants == /\ Size \in Nat \ {0}
                        /\ Unknown \notin Ieee
                        /\ MaxShort \in Nat
                        /\ EvictsByIeee \in BOOLEAN
                        /\ MaxLock \in Nat

Ref == 0..Size - 1
NoRef == Size                  \* (zb_address_ieee_ref_t)(-1)
Short == 0..MaxShort
NoShort == MaxShort + 1        \* 0xFFFF, above every short address

VARIABLES
  map,      \* the entries
  sorted,   \* references of the entries that have a short address
  held,     \* the locks the clients hold, by the reference they locked
  failure,  \* what has stopped the program in zb_address_unlock
  tangled   \* history: an update has redirected a part of a redirection again

vars == <<map, sorted, held, failure, tangled>>

Entry == [ieee     : Ieee \cup {Unknown},
          addr     : Short \cup {NoShort},
          redirect : {"NONE", "SHORT", "IEEE"},
          to       : Ref \cup {NoRef},     \* redirect_ref of a redirection
          lock     : Nat,
          used     : BOOLEAN,
          pending  : BOOLEAN]              \* pending_for_delete

\* Its assertions, and a redirection left that leads nowhere: the program reads
\* outside the table from then on, and the model ends there.
Failures == {"NONE", "NOT_LOCKED", "DELETED_TWICE", "NOWHERE"}

TypeOK == /\ failure \in Failures /\ tangled \in BOOLEAN
          /\ ~ tangled => /\ map \in [Ref -> Entry]
                          /\ sorted \in Seq(Ref)
                          /\ held \in [Ref -> Nat]

NoEntry == [ieee |-> Unknown, addr |-> NoShort, redirect |-> "NONE", to |-> NoRef,
            lock |-> 0, used |-> FALSE, pending |-> FALSE]

Init == /\ map = [r \in Ref |-> NoEntry]
        /\ sorted = << >>
        /\ held = [r \in Ref |-> 0]
        /\ failure = "NONE"
        /\ tangled = FALSE

----------------------------------------------------------------------------
(* The table is passed around as t, a record of map and sorted. *)

Table == [map |-> map, sorted |-> sorted]

\* The sum of a function of the references.
Total(f) == LET sum[n \in 0..Size] == IF n = 0 THEN 0 ELSE sum[n - 1] + f[n - 1]
            IN sum[Size]

Bump(t, r, d) == [t EXCEPT !.map[r].lock = @ + d]

\* The first index (from 0) at which before stops holding, by bisection.
Bisect(n, before) ==
  LET f[w \in (0..n) \X (0..n)] ==
        LET l == w[1]
            r == w[2]
            i == l + (r - l) \div 2
        IN IF l >= r THEN l ELSE IF before[i] THEN f[<<i + 1, r>>] ELSE f[<<l, i>>]
  IN IF n > 1 THEN f[<<0, n>>] ELSE 0

AddrAt(t, i) == t.map[t.sorted[i + 1]].addr

\* Mutant of ShortSearch: the last reference is left out.
ShortSearchButLast(t, s) ==
  LET n == Len(t.sorted) - 1
      l == Bisect(n, [i \in 0..n - 1 |-> s > AddrAt(t, i)])
  IN IF l < n /\ AddrAt(t, l) = s THEN t.sorted[l + 1] ELSE NoRef

\* short_search: the reference found, NoRef if none is.
ShortSearch(t, s) ==
  LET n == Len(t.sorted)
      l == Bisect(n, [i \in 0..n - 1 |-> s > AddrAt(t, i)])
  IN IF l < n /\ AddrAt(t, l) = s THEN t.sorted[l + 1] ELSE NoRef

\* zb_add_short_addr_sorted
AddSorted(t, r, s) ==
  LET n == Len(t.sorted)
      b == Bisect(n, [i \in 0..n - 1 |-> s >= AddrAt(t, i)])
      l == IF b < n /\ s > AddrAt(t, b) THEN b + 1 ELSE b
  IN [t EXCEPT !.sorted = SubSeq(@, 1, l) \o <<r>> \o SubSeq(@, l + 1, n)]

\* del_short_sorted: the scan goes on to the old end of the array.
DelSorted(t, r) ==
  LET n == Len(t.sorted)
      Moved(refs, i) == [j \in 1..n |-> IF j < i \/ j = n THEN refs[j] ELSE refs[j + 1]]
      Cut(a, i) == IF a.refs[i] # r THEN a
                   ELSE [refs |-> Moved(a.refs, i), dec |-> a.dec + 1]
      scan[i \in 0..n] == IF i = 0 THEN [refs |-> t.sorted, dec |-> 0] ELSE Cut(scan[i - 1], i)
  IN [t EXCEPT !.sorted = SubSeq(scan[n].refs, 1, n - scan[n].dec)]

\* ieee_search: what it may find, whatever order the entries are in.
IeeeMatches(t, a) ==
  {IF t.map[i].redirect = "NONE" THEN i ELSE t.map[i].to :
     i \in {j \in Ref : /\ t.map[j].used /\ t.map[j].ieee = a
                        /\ t.map[j].redirect \in {"NONE", "IEEE"}}}
IeeeSearch(t, a) ==
  IF a # Unknown /\ IeeeMatches(t, a) # {} THEN IeeeMatches(t, a) ELSE {NoRef}

\* Mutant of Slots: locks do not count.
SlotsLocked(t) == LET free == {r \in Ref : ~ t.map[r].used}
                  IN IF free # {} THEN free ELSE Ref

\* Where addr_add may put a new entry: a free one, else any that is not locked.
Slots(t) == LET free == {r \in Ref : ~ t.map[r].used}
            IN IF free # {} THEN free ELSE {r \in Ref : t.map[r].lock = 0}

\* addr_add, at the entry i it found.
AddrAdd(t, a, s, i) ==
  LET u == [t EXCEPT !.map[i] = [@ EXCEPT !.ieee = a, !.addr = s, !.redirect = "NONE",
                                          !.to = NoRef, !.used = TRUE]]
  IN IF s = NoShort THEN u
     ELSE AddSorted(IF t.map[i].used THEN DelSorted(u, i) ELSE u, i, s)

\* Mutant of DoLock: the entry redirected to is not locked.
DoLockAlone(t, r) == IF t.map[r].used THEN Bump(t, r, 1) ELSE t

\* zb_address_lock
DoLock(t, r) ==
  LET e == t.map[r]
  IN IF ~ e.used THEN t
     ELSE IF e.redirect = "NONE" THEN Bump(t, r, 1)
     ELSE Bump(Bump(t, r, 1), e.to, 1)

\* An entry taken out of use. What it still holds is overwritten before it is read
\* again, but for pending_for_delete.
Dropped(e) == [NoEntry EXCEPT !.pending = e.pending]

\* zb_address_delete
DoDelete(t, r) ==
  LET e == t.map[r]
  IN IF ~ e.used THEN t
     ELSE IF e.lock > 0 THEN [t EXCEPT !.map[r].pending = TRUE]
     ELSE [DelSorted(t, r) EXCEPT !.map[r] = Dropped(e)]

\* Mutant of DoUnlock: the redirection stays after its last lock.
DoUnlockKeeps(t, r) ==
  LET e == t.map[r]
      u == IF e.redirect = "NONE" THEN Bump(t, r, -1) ELSE Bump(Bump(t, r, -1), e.to, -1)
  IN IF u.map[r].lock = 0 /\ u.map[r].pending THEN DoDelete(u, r) ELSE u

\* Mutant of DoUnlock: a redirection counts twice at its target.
DoUnlockTwice(t, r) ==
  LET e == t.map[r]
      both == Bump(Bump(t, r, -1), e.to, -2)
      u == IF e.redirect = "NONE" THEN Bump(t, r, -1)
           ELSE IF e.lock > 1 THEN both
           ELSE DoDelete(both, r)
  IN IF u.map[r].lock = 0 /\ u.map[r].pending THEN DoDelete(u, r) ELSE u

\* The target of a redirection that is gone loses its redirect_ref, which counts only
\* if it is a redirection itself.
WayLost(t, r) == IF t.map[r].redirect = "NONE" THEN t ELSE [t EXCEPT !.map[r].to = NoRef]

\* The locks zb_address_unlock counts down, and what it does after: a redirection
\* goes with its last lock, an entry with a pending deletion with its last lock.
DoUnlock(t, r) ==
  LET e == t.map[r]
      both == Bump(Bump(t, r, -1), e.to, -1)
      u == IF e.redirect = "NONE" THEN Bump(t, r, -1)
           ELSE IF e.lock > 1 THEN both
           ELSE WayLost(DoDelete(both, r), e.to)
  IN IF u.map[r].lock = 0 /\ u.map[r].pending THEN DoDelete(u, r) ELSE u

\* The entry `from' as a redirection.  What the target keeps in redirect_ref, the
\* way back, is read only if the target is a redirection itself.
Redirected(e, to, type, a, s) == [e EXCEPT !.redirect = type, !.to = to,
                                           !.ieee = IF type = "IEEE" THEN a ELSE e.ieee,
                                           !.addr = IF type = "SHORT" THEN s ELSE e.addr]
WayBack(e, from) == IF e.redirect = "NONE" THEN e.to ELSE from

\* Mutant of Redirect: the locks do not go with the redirection.
RedirectWithoutLocks(t, from, to, type, a, s) ==
  LET e == t.map[from]
      u == [t EXCEPT !.map[to].to = WayBack(t.map[to], from),
                     !.map[from] = Redirected(e, to, type, a, s)]
  IN IF type = "SHORT" THEN DelSorted(u, from) ELSE u

\* zb_address_update finds the two addresses in two entries that are locked: the
\* one with fewer locks becomes a redirection to the other.
Redirect(t, from, to, type, a, s) ==
  LET e == t.map[from]
      u == [t EXCEPT !.map[to].lock = @ + e.lock,
                     !.map[to].to = WayBack(t.map[to], from),
                     !.map[from] = Redirected(e, to, type, a, s)]
  IN IF type = "SHORT" THEN DelSorted(u, from) ELSE u

\* Mutant of Resolve: the entry that is not kept is not deleted.
ResolveKeepsBoth(t, rs, rl, a, s) ==
  IF rs = rl \/ rl = NoRef THEN [t |-> t, ref |-> rs]
  ELSE IF rs = NoRef \/ t.map[rs].lock = 0 THEN [t |-> t, ref |-> rl]
  ELSE IF t.map[rl].lock = 0 THEN [t |-> t, ref |-> rs]
  ELSE IF t.map[rs].lock > t.map[rl].lock
       THEN [t |-> Redirect(t, rl, rs, "IEEE", a, s), ref |-> rs]
       ELSE [t |-> Redirect(t, rs, rl, "SHORT", a, s), ref |-> rl]

\* What zb_address_update makes of the entries rs and rl it found for the short
\* and the long address: the entry that is kept.
Resolve(t, rs, rl, a, s) ==
  IF rs = rl \/ rl = NoRef THEN [t |-> t, ref |-> rs]
  ELSE IF rs = NoRef THEN [t |-> t, ref |-> rl]
  ELSE IF t.map[rs].lock = 0 THEN [t |-> DoDelete(t, rs), ref |-> rl]
  ELSE IF t.map[rl].lock = 0 THEN [t |-> DoDelete(t, rl), ref |-> rs]
  ELSE IF t.map[rs].lock > t.map[rl].lock
       THEN [t |-> Redirect(t, rl, rs, "IEEE", a, s), ref |-> rs]
       ELSE [t |-> Redirect(t, rs, rl, "SHORT", a, s), ref |-> rl]

\* The coordinator's pair is kept while its entry is locked (PAN ID conflict).
KeepsCoordinator(e, a, s) ==
  s = 0 /\ e.addr = 0 /\ e.ieee \notin {a, Unknown} /\ e.lock > 0

\* Mutant of SetPair: the old short address stays in the array.
SetPairKeepsOld(t, r, a, s) ==
  LET u == [t EXCEPT !.map[r].ieee = a, !.map[r].addr = s]
  IN IF t.map[r].addr = s THEN u ELSE AddSorted(u, r, s)

\* zb_address_update gives the entry r the pair a, s.
SetPair(t, r, a, s) ==
  LET e == t.map[r]
      u == [t EXCEPT !.map[r].ieee = a]
      v == [IF e.addr = NoShort THEN u ELSE DelSorted(u, r) EXCEPT !.map[r].addr = s]
  IN IF e.addr = s THEN u ELSE AddSorted(v, r, s)

\* zb_address_by_ref: what the holder of reference r reads.
Resolved(r) == LET e == IF map[r].redirect = "NONE" THEN map[r] ELSE map[map[r].to]
               IN [ieee |-> e.ieee, addr |-> e.addr]

----------------------------------------------------------------------------
(* The operations the clients call. *)

Takes(t, r, lock) ==
  LET u == IF lock THEN DoLock(t, r) ELSE t
  IN /\ lock => Total(held) < MaxLock
     /\ map' = u.map /\ sorted' = u.sorted
     /\ held' = IF lock /\ t.map[r].used THEN [held EXCEPT ![r] = @ + 1] ELSE held
     /\ UNCHANGED failure

\* zb_address_by_ieee, with or without create.
ByIeee(a, lock) ==
  /\ \E r \in IeeeSearch(Table, a) :
       IF r # NoRef THEN lock /\ Takes(Table, r, TRUE)
       ELSE \E i \in Slots(Table) :
              /\ EvictsByIeee \/ ~ map[i].used
              /\ Takes(AddrAdd(Table, a, NoShort, i), i, lock)
  /\ UNCHANGED tangled

\* zb_address_by_short, with or without create.
ByShort(s, lock) ==
  /\ LET r == ShortSearch(Table, s)
     IN IF r # NoRef THEN lock /\ Takes(Table, r, TRUE)
        ELSE \E i \in Slots(Table) : Takes(AddrAdd(Table, Unknown, s, i), i, lock)
  /\ UNCHANGED tangled

\* The pair is found in two entries that are locked.
Conflict(rs, rl) == NoRef \notin {rs, rl} /\ rs # rl /\ map[rs].lock > 0 /\ map[rl].lock > 0

\* One of the two is a redirection already, or the one that becomes a redirection
\* is the target of one.
Tangles(rs, rl) ==
  LET from == IF map[rs].lock > map[rl].lock THEN rl ELSE rs
  IN \/ map[rs].redirect # "NONE" \/ map[rl].redirect # "NONE"
     \/ \E x \in Ref : map[x].redirect # "NONE" /\ map[x].to = from

\* zb_address_update
Update(a, s, lock) ==
  \E rl \in IeeeSearch(Table, a) :
    LET rs == ShortSearch(Table, s)
        Done(t, r) == Takes([t EXCEPT !.map[r].pending = FALSE], r, lock)
    IN /\ tangled' = (tangled \/ (Conflict(rs, rl) /\ Tangles(rs, rl)))
       /\ IF rs = NoRef /\ rl = NoRef
          THEN \E i \in Slots(Table) : Done(AddrAdd(Table, a, s, i), i)
          ELSE LET k == Resolve(Table, rs, rl, a, s)
               IN IF KeepsCoordinator(k.t.map[k.ref], a, s)
                  THEN Takes(k.t, k.ref, FALSE)
                  ELSE Done(SetPair(k.t, k.ref, a, s), k.ref)

\* zb_address_lock by a client that has a reference.
Lock(r) == held[r] > 0 /\ Takes(Table, r, TRUE) /\ UNCHANGED tangled

\* What stops zb_address_unlock: the reference, or the entry it is redirected to,
\* is not in use or not locked; after its last lock a redirection is deleted, and
\* deleted again if its deletion was pending; its target loses its redirect_ref.
UnlockFailure(r) ==
  LET e == map[r]
      redirection == e.used /\ e.redirect # "NONE"
      found == e.used /\ e.lock > 0 /\ (redirection => map[e.to].lock > 0)
      last == redirection /\ e.lock = 1
  IN CASE ~ found                                         -> "NOT_LOCKED"
       [] found /\ last /\ e.pending                      -> "DELETED_TWICE"
       [] found /\ last /\ ~ e.pending
                /\ map[e.to].redirect # "NONE"            -> "NOWHERE"
       [] OTHER                                           -> "NONE"

\* zb_address_unlock of a reference the client has locked.
Unlock(r) ==
  /\ held[r] > 0
  /\ failure' = UnlockFailure(r)
  /\ IF failure' = "NOT_LOCKED" THEN UNCHANGED <<map, sorted, held>>
     ELSE /\ map' = DoUnlock(Table, r).map /\ sorted' = DoUnlock(Table, r).sorted
          /\ held' = [held EXCEPT ![r] = @ - 1]
  /\ UNCHANGED tangled

\* zb_address_delete, when a device has left.
Delete(r) ==
  /\ map[r].used
  /\ map' = DoDelete(Table, r).map /\ sorted' = DoDelete(Table, r).sorted
  /\ UNCHANGED <<held, failure, tangled>>

\* zb_address_reset; "It is the caller's responsibility to ensure that no addr
\* ref is in use".
Reset ==
  /\ \A r \in Ref : held[r] = 0
  /\ LET cleared[n \in 0..Size] ==
           IF n = 0 THEN Table
           ELSE IF map[n - 1].used THEN DelSorted(cleared[n - 1], n - 1) ELSE cleared[n - 1]
     IN sorted' = cleared[Size].sorted
  /\ map' = [r \in Ref |-> Dropped(map[r])]
  /\ UNCHANGED <<held, failure, tangled>>

Next == /\ failure = "NONE"
        /\ \/ \E a \in Ieee, lock \in BOOLEAN : ByIeee(a, lock)
           \/ \E s \in Short, lock \in BOOLEAN : ByShort(s, lock)
           \/ \E a \in Ieee \cup {Unknown}, s \in Short, lock \in BOOLEAN : Update(a, s, lock)
           \/ \E r \in Ref : Lock(r) \/ Unlock(r) \/ Delete(r)
           \/ Reset

Spec == Init /\ [][Next]_vars

----------------------------------------------------------------------------
(* Properties.  Once a redirection is tangled with another the array, the   *)
(* locks and the pairs are all lost: what the code keeps it keeps until     *)
(* then, and what its comments promise beyond that is stated apart.         *)

\* An entry in use that is not a redirection.
Regular(r) == map[r].used /\ map[r].redirect = "NONE"

Redirects(x, r) == map[x].redirect # "NONE" /\ map[x].to = r

\* The array of references holds, once each and in the order of their short
\* addresses, the entries that have one, except those whose short address
\* belongs to another entry now (REDIRECT_SHORT).  The five operations that
\* change an address each adjust the array by hand.
SortedIndex ==
  ~ tangled =>
    /\ ToSet(sorted) = {r \in Ref : /\ map[r].used /\ map[r].addr # NoShort
                                    /\ map[r].redirect # "SHORT"}
    /\ \A i, j \in DOMAIN sorted : i < j => map[sorted[i]].addr < map[sorted[j]].addr

\* The binary search of zb_address_by_short finds every entry in use that has a
\* short address ("16-bits address sort array", zb_addr_globals.h:140).
FoundByShort ==
  ~ tangled =>
    \A r \in Ref : Regular(r) /\ map[r].addr # NoShort => ShortSearch(Table, map[r].addr) = r

\* Locks are neither lost nor left behind: each entry is locked once for every
\* lock its clients hold on it or on the entries redirected to it, across updates,
\* redirections and pending deletions; so no held entry is deleted or reused,
\* and one that nobody holds can be.
LocksAddUp ==
  ~ tangled =>
    \A r \in Ref :
      /\ held[r] > 0 => map[r].used
      /\ map[r].lock = held[r] + Total([x \in Ref |-> IF Redirects(x, r) THEN held[x] ELSE 0])

\* The target of a redirection stays what it is, an entry in use that is not a
\* redirection, whatever is deleted, expires or is updated meanwhile.
RedirectsOnce ==
  ~ tangled => \A r \in Ref : map[r].redirect # "NONE" => map[r].used /\ Regular(map[r].to)

\* No long address is in two entries: a device has one address pair.
UniqueIeee ==
  ~ tangled =>
    \A p, q \in Ref : Regular(p) /\ Regular(q) /\ p # q =>
      map[p].ieee = Unknown \/ map[p].ieee # map[q].ieee

\* A client that unlocks what it has locked finds it in use and locked, and the
\* entry it is redirected to as well (the assertions of zb_address_unlock, but for
\* the second deletion).
UnlockFindsLock == ~ tangled => failure \in {"NONE", "DELETED_TWICE"}

\* Of the operations, zb_address_update alone changes the pair that the holder of a
\* reference sees: no lookup, expiry, deletion or unlocking by others does.
\* (zb_long_address_update_by_ref would, but nothing in the repository calls it.)
HeldKeepsPair ==
  [][\/ tangled
     \/ \A r \in Ref : held[r] > 0 /\ held'[r] > 0 => Resolved(r)' = Resolved(r)
     \/ \E a \in Ieee \cup {Unknown}, s \in Short, lock \in BOOLEAN : Update(a, s, lock)]_vars

\* A redirection leads to a "regular record" (zb_addr_globals.h:99-102).
RedirectsToRegular ==
  \A r \in Ref : map[r].redirect # "NONE" => map[r].to \in Ref /\ Regular(map[r].to)

\* "Lock counter is zero when this address is not used in any table"
\* (zb_addr_globals.h:71).
UnusedIsUnlocked == (\A r \in Ref : held[r] = 0) => \A r \in Ref : map[r].lock = 0

\* zb_address_unlock deletes an entry that is there to be deleted
\* (ZB_ASSERT(ret == RET_OK)).
DeletesOnce == failure # "DELETED_TWICE"

\* What is said of redirections: at least one of the three is true.  Where this fails
\* one behaviour has broken them all.
RedirectionsKept == RedirectsToRegular \/ UnusedIsUnlocked \/ DeletesOnce
=============================================================================
