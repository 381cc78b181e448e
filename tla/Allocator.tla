------------------------------ MODULE Allocator ------------------------------
(***************************************************************************)
(* What a heap promises its clients: the regions they hold lie inside the  *)
(* heap and never overlap, and only the client that holds a region can     *)
(* change or release it.  A request may always be refused.                 *)
(***************************************************************************)
EXTENDS Naturals

CONSTANTS
    Client,
    Top             \* the cells of the heap are 0 .. Top - 1

VARIABLE regions    \* what is allocated: holder, first cell and size

Region == [client : Client, addr : 0 .. Top, size : 1 .. Top]

Inside(r) == r.addr + r.size <= Top

Apart(r, s) == r.addr + r.size <= s.addr \/ s.addr + s.size <= r.addr

Init == regions = {}

Allocate(r) ==
    /\ r \in Region /\ Inside(r)
    /\ \A s \in regions : Apart(r, s)
    /\ regions' = regions \cup {r}

Release(r) ==
    /\ r \in regions
    /\ regions' = regions \ {r}

\* A region that stays where it is and changes its size.
Resize(r, size) ==
    /\ r \in regions
    /\ Inside([r EXCEPT !.size = size])
    /\ \A s \in regions \ {r} : Apart([r EXCEPT !.size = size], s)
    /\ regions' = (regions \ {r}) \cup {[r EXCEPT !.size = size]}

Next ==
    \/ \E r \in regions' : Allocate(r)
    \/ \E r \in regions : Release(r)
    \/ \E r \in regions, size \in 1 .. Top : Resize(r, size)

Spec == Init /\ [][Next]_regions
=============================================================================
