------------------------------ MODULE Resource ------------------------------
(***************************************************************************)
(* The I/O memory resource tree of src/kernel/resource.c.                  *)
(*                                                                         *)
(* Resources are ranges [start, end] (inclusive) of a W-bit address space, *)
(* kept in a tree of parent/sibling/child pointers below iomem_resource    *)
(* (ROOT): request_resource() adds a resource as a new child of ROOT,      *)
(* insert_resource() descends into a containing resource and adopts the    *)
(* resources the new one covers.  Every operation runs under               *)
(* resource_lock and is one atomic step.  The pointer manipulation of      *)
(* __request_resource() and __insert_resource() is modelled on a record T  *)
(* of the three pointer functions, by recursive operators that follow the  *)
(* code's loops; walk_system_ram_range() is a recursive operator checked   *)
(* against a reference over every reachable tree.                         *)
(***************************************************************************)
EXTENDS Integers, FiniteSets

CONSTANTS
    Res,        \* resource descriptors callers may pass
    ResStart,   \* ResStart[r]: r->start
    ResEnd,     \* ResEnd[r]: r->end
    Ram,        \* the resources flagged IORESOURCE_SYSTEM_RAM | IORESOURCE_BUSY
    W,          \* bits of resource_size_t
    PAGE_SHIFT,
    ROOT,       \* iomem_resource
    NULL

Nodes == Res \cup {ROOT}
PAGE_SIZE == 2 ^ PAGE_SHIFT
MaxAddr == 2 ^ W - 1            \* iomem_resource.end = -1
MaxPfn == MaxAddr \div PAGE_SIZE

ASSUME Ram \subseteq Res /\ ROOT \notin Res

Lo(n) == IF n = ROOT THEN 0 ELSE ResStart[n]
Hi(n) == IF n = ROOT THEN MaxAddr ELSE ResEnd[n]

VARIABLES
    tree,   \* [parent, sibling, child]: the pointer fields of every node
    last    \* the last operation: [op, new, conflict]

vars == <<tree, last>>

-----------------------------------------------------------------------------
(* Pointer helpers.  A "slot" is the struct resource ** of the code: the  *)
(* child field of a node or the sibling field of a node.                   *)

SlotVal(T, slot) ==
    IF slot.kind = "child" THEN T.child[slot.of] ELSE T.sibling[slot.of]
SetSlot(T, slot, v) ==
    IF slot.kind = "child" THEN [T EXCEPT !.child[slot.of] = v]
                           ELSE [T EXCEPT !.sibling[slot.of] = v]

\* The nodes of a sibling list from n on.
RECURSIVE Chain(_, _)
Chain(T, n) == IF n = NULL THEN {} ELSE {n} \cup Chain(T, T.sibling[n])

-----------------------------------------------------------------------------
(* __request_resource(root, new): the for (;;) loop over p = &root->child, *)
(* then &tmp->sibling.  Returns the conflict (NULL on success) and the     *)
(* tree after the call.                                                    *)

\* (mutant) A sibling that ends exactly at new->start is not a conflict.
RECURSIVE ReqScan_offByOne(_, _, _, _)
ReqScan_offByOne(T, root, new, slot) ==
    LET tmp == SlotVal(T, slot)
    IN  IF tmp = NULL \/ Lo(tmp) > Hi(new)
        THEN [conflict |-> NULL,
              t |-> [SetSlot([T EXCEPT !.sibling[new] = tmp], slot, new)
                       EXCEPT !.parent[new] = root]]
        ELSE IF Hi(tmp) <= Lo(new)
             THEN ReqScan_offByOne(T, root, new, [kind |-> "sibling", of |-> tmp])
             ELSE [conflict |-> tmp, t |-> T]

RECURSIVE ReqScan(_, _, _, _)
ReqScan(T, root, new, slot) ==
    LET tmp == SlotVal(T, slot)
    IN  IF tmp = NULL \/ Lo(tmp) > Hi(new)
        THEN [conflict |-> NULL,
              t |-> [SetSlot([T EXCEPT !.sibling[new] = tmp], slot, new)
                       EXCEPT !.parent[new] = root]]
        ELSE IF Hi(tmp) < Lo(new)
             THEN ReqScan(T, root, new, [kind |-> "sibling", of |-> tmp])
             ELSE [conflict |-> tmp, t |-> T]

\* (mutant) No check that end >= start.
RequestR_noOrderCheck(T, root, new) ==
    IF Lo(new) < Lo(root) \/ Hi(new) > Hi(root)
    THEN [conflict |-> root, t |-> T]
    ELSE ReqScan(T, root, new, [kind |-> "child", of |-> root])

RequestR(T, root, new) ==
    IF Hi(new) < Lo(new) \/ Lo(new) < Lo(root) \/ Hi(new) > Hi(root)
    THEN [conflict |-> root, t |-> T]
    ELSE ReqScan(T, root, new, [kind |-> "child", of |-> root])

-----------------------------------------------------------------------------
(* __insert_resource(parent, new) *)

\* The second loop: from first, the siblings new covers; a partial overlap
\* is the conflict.  Returns the conflict or the last covered sibling.
\* (mutant) No partial-overlap test.
RECURSIVE ScanCovered_noOverlapCheck(_, _, _)
ScanCovered_noOverlapCheck(T, next, new) ==
    IF T.sibling[next] = NULL \/ Lo(T.sibling[next]) > Hi(new)
    THEN [conflict |-> NULL, last |-> next]
    ELSE ScanCovered_noOverlapCheck(T, T.sibling[next], new)

RECURSIVE ScanCovered(_, _, _)
ScanCovered(T, next, new) ==
    IF Lo(next) < Lo(new) \/ Hi(next) > Hi(new)
    THEN [conflict |-> next, last |-> NULL]
    ELSE IF T.sibling[next] = NULL \/ Lo(T.sibling[next]) > Hi(new)
         THEN [conflict |-> NULL, last |-> next]
         ELSE ScanCovered(T, T.sibling[next], new)

\* while (next->sibling != first) next = next->sibling;
RECURSIVE PredOf(_, _, _)
PredOf(T, n, first) == IF T.sibling[n] = first THEN n ELSE PredOf(T, T.sibling[n], first)

\* new takes the place of first..next in parent's list and they become its
\* children.
Adopt(T, parent, first, new) ==
    LET s == ScanCovered(T, first, new)
        next == s.last
        T2 == [T EXCEPT !.parent[new] = parent, !.sibling[new] = T.sibling[next],
                        !.child[new] = first, !.sibling[next] = NULL]
        T3 == [T2 EXCEPT !.parent = [n \in Nodes |->
                                        IF n \in Chain(T2, first) THEN new
                                        ELSE T2.parent[n]]]
    IN  IF s.conflict # NULL THEN [conflict |-> s.conflict, t |-> T]
        ELSE [conflict |-> NULL,
              t |-> IF T3.child[parent] = first
                    THEN [T3 EXCEPT !.child[parent] = new]
                    ELSE [T3 EXCEPT !.sibling[PredOf(T3, T3.child[parent], first)] = new]]

\* The first loop: __request_resource() at this level; descend into a
\* conflict that strictly contains new, else adopt from the conflict on.
RECURSIVE InsDescend(_, _, _)
InsDescend(T, parent, new) ==
    LET first == RequestR(T, parent, new).conflict
    IN  CASE first = NULL   -> RequestR(T, parent, new)
          [] first = parent -> [conflict |-> first, t |-> T]
          [] first = new    -> [conflict |-> first, t |-> T]
          [] Lo(first) > Lo(new) \/ Hi(first) < Hi(new) -> Adopt(T, parent, first, new)
          [] Lo(first) = Lo(new) /\ Hi(first) = Hi(new) -> Adopt(T, parent, first, new)
          [] OTHER -> InsDescend(T, first, new)

-----------------------------------------------------------------------------
Init ==
    /\ tree = [parent |-> [n \in Nodes |-> NULL], sibling |-> [n \in Nodes |-> NULL],
               child |-> [n \in Nodes |-> NULL]]
    /\ last = [op |-> "none", new |-> NULL, conflict |-> NULL]

Unattached(new) == tree.parent[new] = NULL

\* request_resource(&iomem_resource, new) under resource_lock.
RequestResource(new) ==
    LET r == RequestR(tree, ROOT, new)
    IN  /\ Unattached(new)
        /\ tree' = r.t
        /\ last' = [op |-> "request", new |-> new, conflict |-> r.conflict]

\* insert_resource(&iomem_resource, new) under resource_lock.
InsertResource(new) ==
    LET r == InsDescend(tree, ROOT, new)
    IN  /\ Unattached(new)
        /\ tree' = r.t
        /\ last' = [op |-> "insert", new |-> new, conflict |-> r.conflict]

Next == \E new \in Res : RequestResource(new) \/ InsertResource(new)

Spec == Init /\ [][Next]_vars

-----------------------------------------------------------------------------
(* find_next_iomem_res() and walk_system_ram_range().  Arithmetic is on    *)
(* W-bit unsigned values (% 2^W); the callback records the pfn ranges it   *)
(* is given and returns 0.                                                 *)

U(x) == x % (2 ^ W)

\* while (!p->sibling && p->parent) p = p->parent; return p->sibling;
RECURSIVE Climb(_, _)
Climb(T, p) == IF T.sibling[p] = NULL /\ T.parent[p] # NULL
               THEN Climb(T, T.parent[p]) ELSE T.sibling[p]

NextResource(T, p, sibling_only) ==
    IF sibling_only THEN T.sibling[p]
    ELSE IF T.child[p] # NULL THEN T.child[p] ELSE Climb(T, p)

\* The for loop of find_next_iomem_res() from p, for the flags of RAM.
RECURSIVE FindScan(_, _, _, _, _)
FindScan(T, p, start, end, sibling_only) ==
    IF p = NULL THEN NULL
    ELSE IF p \notin Ram THEN FindScan(T, NextResource(T, p, sibling_only), start, end, sibling_only)
    ELSE IF Lo(p) > end THEN NULL
    ELSE IF Hi(p) >= start /\ Lo(p) < end THEN p
    ELSE FindScan(T, NextResource(T, p, sibling_only), start, end, sibling_only)

\* The lowest RAM resource within [start, end], res clamped to it, or NULL.
FindNextIomemRes(T, start, end, sibling_only) ==
    LET p == FindScan(T, T.child[ROOT], start, end, sibling_only)
    IN  IF p = NULL THEN NULL
        ELSE [start |-> IF start < Lo(p) THEN Lo(p) ELSE start,
              end   |-> IF end > Hi(p) THEN Hi(p) ELSE end]

\* (mutant) The first pfn rounded down instead of up.
FirstPfn_roundDown(start) == start \div PAGE_SIZE

\* pfn = (res.start + PAGE_SIZE - 1) >> PAGE_SHIFT
FirstPfn(start) == U(start + PAGE_SIZE - 1) \div PAGE_SIZE

\* The while loop; fuel bounds the iterations (each finds a later resource,
\* so Cardinality(Res) + 1 suffice unless res.start wraps).
RECURSIVE WalkLoop(_, _, _, _, _, _, _)
WalkLoop(T, start, end, orig_end, ret, acc, fuel) ==
    IF fuel = 0 \/ ~(start < end) THEN acc
    ELSE LET f == FindNextIomemRes(T, start, end, TRUE)
         IN  IF f = NULL THEN acc
             ELSE LET pfn == FirstPfn(f.start)
                      end_pfn == U(f.end + 1) \div PAGE_SIZE
                      ret2 == IF end_pfn > pfn THEN 0 ELSE ret
                      acc2 == IF end_pfn > pfn THEN acc \cup (pfn .. end_pfn - 1) ELSE acc
                  IN  IF ret2 # 0 THEN acc2
                      ELSE WalkLoop(T, U(f.end + 1), orig_end, orig_end, ret2, acc2, fuel - 1)

\* The pfns walk_system_ram_range(start_pfn, nr_pages) passes to func.
WalkSystemRamRange(T, start_pfn, nr_pages) ==
    LET orig_end == U(U(start_pfn + nr_pages) * PAGE_SIZE + MaxAddr)   \* (..) << PAGE_SHIFT) - 1
    IN  WalkLoop(T, U(start_pfn * PAGE_SIZE), orig_end, orig_end, -1, {}, Cardinality(Res) + 1)

\* (mutant) The loop without its break: it runs off the end of the list.
RECURSIVE LookupScan_noBreak(_, _, _)
LookupScan_noBreak(T, res, start) ==
    IF res = NULL THEN NULL ELSE LookupScan_noBreak(T, T.sibling[res], start)

\* for (res = root->child; res; res = res->sibling) if (res->start == start) break;
RECURSIVE LookupScan(_, _, _)
LookupScan(T, res, start) ==
    IF res = NULL \/ Lo(res) = start THEN res ELSE LookupScan(T, T.sibling[res], start)

\* lookup_resource(root, start) under resource_lock.
LookupResource(T, root, start) == LookupScan(T, T.child[root], start)

-----------------------------------------------------------------------------
(* Properties *)

Attached == {r \in Res : tree.parent[r] # NULL}
Span(n) == Lo(n) .. Hi(n)

\* Every node's child list, walked as __request_resource() and
\* find_next_iomem_res() walk it, is sorted and disjoint, lies inside the
\* node, and points back to it: the list surgery of __insert_resource()
\* (splice, re-parent, predecessor fix-up) keeps the tree well formed.
ChildListsOrdered ==
    \A n \in Attached \cup {ROOT} :
        \A c \in Chain(tree, tree.child[n]) :
            /\ tree.parent[c] = n
            /\ Lo(n) <= Lo(c) /\ Hi(c) <= Hi(n)
            /\ tree.sibling[c] # NULL => Hi(c) < Lo(tree.sibling[c])

\* The resources above r, following parent pointers.
RECURSIVE Ancestors(_, _)
Ancestors(r, fuel) ==
    IF fuel = 0 \/ tree.parent[r] = NULL THEN {}
    ELSE {tree.parent[r]} \cup Ancestors(tree.parent[r], fuel - 1)

\* The tree is the containment order of the attached ranges: any two are
\* disjoint or nested, and a range inside another lies below it (equal
\* ranges one below the other), so lookups by address find the innermost.
NestingIsAncestry ==
    \A r, s \in Attached : r # s =>
        /\ Span(r) \cap Span(s) = {} \/ Span(r) \subseteq Span(s) \/ Span(s) \subseteq Span(r)
        /\ Span(r) \subseteq Span(s) =>
               s \in Ancestors(r, Cardinality(Res)) \/ r \in Ancestors(s, Cardinality(Res))

\* The refinement mapping: the claimed set is the attached resources, and a
\* call succeeded when it reported no conflict.
AbsResult == [op |-> last.op, new |-> last.new, ok |-> last.conflict = NULL]
Abs == INSTANCE ResourceSet WITH claimed <- Attached, result <- AbsResult

\* request_resource() and insert_resource() implement the claimed-set
\* specification: the first checks only ROOT's top-level children and the
\* second only the siblings on its descent, yet each succeeds exactly when
\* the range is well formed and disjoint from (or nests with) every
\* attached resource, and changes the attached set by exactly that range.
RefinesResourceSet == Abs!Spec

\* Reference for walk_system_ram_range(): the pfns of [start_pfn,
\* start_pfn + nr_pages) whose whole page lies in a top-level System RAM
\* resource.
RamPfns(start_pfn, nr_pages) ==
    {pfn \in start_pfn .. start_pfn + nr_pages - 1 :
        \E r \in Chain(tree, tree.child[ROOT]) \cap Ram :
            Lo(r) <= pfn * PAGE_SIZE /\ pfn * PAGE_SIZE + PAGE_SIZE - 1 <= Hi(r)}

WalkArgs == {<<sp, nr>> \in (0 .. MaxPfn) \X (1 .. MaxPfn + 1) : sp + nr <= MaxPfn + 1}

\* walk_system_ram_range() hands func only whole System RAM pages of the
\* requested range (the round-up of the first pfn, the round-down of the last).
WalkSound ==
    \A a \in WalkArgs : WalkSystemRamRange(tree, a[1], a[2]) \subseteq RamPfns(a[1], a[2])

\* walk_system_ram_range() hands func every whole System RAM page of the
\* requested range.
WalkComplete ==
    \A a \in WalkArgs : RamPfns(a[1], a[2]) \subseteq WalkSystemRamRange(tree, a[1], a[2])

\* lookup_resource(&iomem_resource, start) scans only the top-level list: it
\* finds an attached resource by its start exactly when that resource is a
\* child of the root, so one that insert_resource() later adopted below a
\* new parent is no longer found (the parent is, if it starts there too).
LookupFindsTopLevel ==
    \A r \in Attached :
        (LookupResource(tree, ROOT, Lo(r)) = r) <=> (tree.parent[r] = ROOT)

====
