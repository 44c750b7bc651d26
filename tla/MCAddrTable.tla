---- MODULE MCAddrTable ----
EXTENDS AddrTable, TLC
Perms == Permutations(Ieee)
\* The properties claim nothing once redirections are tangled.
Untangled == ~ tangled
\* Three locks are met over two short addresses, three addresses with two locks, and
\* one deletion is pending at a time.
Bounded == /\ Untangled
           /\ Total(held) > 2 => \A r \in Ref : map[r].addr # 2
           /\ \A p, q \in Ref : map[p].pending /\ map[q].pending => p = q
====
