------------------------------ MODULE MemFault ------------------------------
(***************************************************************************)
(* Remote page-fault resolution on a LegoOS memory node: the LLC-miss RPC  *)
(* handler (src/managers/memory/handle_pcache.c) and the fault engine it   *)
(* calls (src/managers/memory/vm/fault.c): handle_lego_mm_fault(), the     *)
(* anonymous and file-backed fault paths with their pte_same() re-check    *)
(* under the PTE lock, the present-PTE path, and the bulk prefetch         *)
(* handle_lego_mmap_faults().                                              *)
(*                                                                         *)
(* One address space.  Addresses are page numbers; a PTE maps a page to a  *)
(* kernel page of the memory node, drawn from a finite pool.  Several      *)
(* handler threads serve LLC misses concurrently under mmap_sem (read);    *)
(* one prefetcher runs handle_lego_mmap_faults() beside them.              *)
(***************************************************************************)
EXTENDS Integers, FiniteSets, Functions

CONSTANTS
    Handlers,       \* memory-manager threads serving p2m LLC misses
    Addrs,          \* the page addresses of the address space
    ReqAddrs,       \* the addresses requests carry (a subset of Addrs)
    PidKnown,       \* whether find_lego_task_by_pid() finds the task
    Aligned,        \* whether a flush's user_va is page aligned
    TASK_SIZE_MAX,  \* first kernel-space address (fault_in_kernel_space)
    Vma,            \* Vma[v]: [start, end, write, growsdown, file, pgoff]
    StackLimit,     \* lowest vm_start expand_stack() may reach
    PageIds,        \* the memory node's free pages at start
    MaxPrefetch,    \* largest nr_pages of a prefetch
    MaxRequests,    \* requests each handler serves (bounds the model)
    NONE            \* an empty PTE / no value

VmaIds == DOMAIN Vma
UserAddrs == {a \in Addrs : a < TASK_SIZE_MAX}
ZERO == -1          \* content of a __GFP_ZERO page (no file offset is negative)

ASSUME /\ ReqAddrs \subseteq Addrs /\ PidKnown \subseteq BOOLEAN /\ Aligned \subseteq BOOLEAN
       /\ \A v \in VmaIds : Vma[v].start < Vma[v].end
       /\ PageIds \subseteq Nat /\ MaxRequests \in Nat

\* Reply codes (RET_E* of the p2m protocol)
RET_ESRCH == "ESRCH"
RET_EFAULT == "EFAULT"
RET_ENOMEM == "ENOMEM"
RET_ESIGSEGV == "ESIGSEGV"
RET_EINVAL == "EINVAL"
FLUSHED == -2       \* content written back by a flush (no file offset is negative)

VARIABLES
    vm_start,   \* vm_start of each VMA (expand_stack() lowers a stack's)
    ptable,     \* the page-table pages down to the PTE level exist
    pte,        \* pte[a]: NONE or [page, write, dirty]
    free,       \* free pages of the memory node
    content,    \* what each page holds: ZERO or a file page offset
    hs,         \* per-handler state of the request in progress
    holds,      \* mmap_sem read acquisitions not yet released, per handler
    served,     \* requests received, per handler
    reply,      \* last reply sent by each handler
    pf,         \* the prefetcher's state
    flushed,    \* addresses whose line was written back by a flush
    panicked    \* BUG() was hit

vars == <<vm_start, ptable, pte, free, content, hs, holds, served, reply,
          pf, flushed, panicked>>

-----------------------------------------------------------------------------
(* Helpers *)

\* find_vma(): the first VMA with vm_end > addr (code not under src/).
FindVma(a) ==
    LET above == {v \in VmaIds : Vma[v].end > a}
    IN  IF above = {} THEN NONE
        ELSE CHOOSE v \in above : \A u \in above : Vma[v].end <= Vma[u].end

\* (mutant) vm_pgoff left out of the file offset.
LinearPgoff_noPgoff(v, a) == a - vm_start[v]

\* do_linear_fault(): pgoff = ((address & PAGE_MASK) - vm_start) >> PAGE_SHIFT
\* + vm_pgoff; with page addresses the shift is the identity.
LinearPgoff(v, a) == (a - vm_start[v]) + Vma[v].pgoff

\* __get_free_page(): the lowest free page, or NONE when exhausted.
AllocPage == IF free = {} THEN NONE
             ELSE CHOOSE pg \in free : \A q \in free : pg <= q

\* lego_vfn_pte() + pte_mkwrite(pte_mkdirty()) when writable.
MkPte(pg, writable) == [page |-> pg, write |-> writable, dirty |-> writable]

Idle == [pc |-> "idle", addr |-> NONE, write |-> FALSE, vma |-> NONE,
         entry |-> NONE]

\* Sending a reply ends the request; the handler is idle again.
Reply(h, r) ==
    /\ reply' = [reply EXCEPT ![h] = r]
    /\ hs' = [hs EXCEPT ![h] = Idle]

ErrReply(h, code) == Reply(h, [kind |-> "err", code |-> code, addr |-> hs[h].addr,
                               write |-> hs[h].write, page |-> NONE, data |-> NONE])

\* The cache line sent back: the page at pte_val(*pte) & PTE_VFN_MASK.
PageReply(h, pg, cont) == Reply(h, [kind |-> "page", code |-> "OK", addr |-> hs[h].addr,
                              write |-> hs[h].write, page |-> pg, data |-> cont[pg]])

-----------------------------------------------------------------------------
Init ==
    /\ vm_start = [v \in VmaIds |-> Vma[v].start]
    /\ ptable = FALSE
    /\ pte = [a \in UserAddrs |-> NONE]
    /\ free = PageIds
    /\ content = [pg \in PageIds |-> NONE]
    /\ hs = [h \in Handlers |-> Idle]
    /\ holds = [h \in Handlers |-> 0]
    /\ served = [h \in Handlers |-> 0]
    /\ reply = [h \in Handlers |-> NONE]
    /\ pf = [pc |-> "idle", vma |-> NONE, addr |-> NONE, nr |-> 0, i |-> 0,
             pages |-> <<>>, entry |-> NONE]
    /\ flushed = {}
    /\ panicked = FALSE

-----------------------------------------------------------------------------
(* handle_p2m_llc_miss(): receive a miss for address a.  For an unknown pid *)
(* find_lego_task_by_pid() returns NULL and llc_miss_error(RET_ESRCH, desc, *)
(* p, vaddr) evaluates p->node and p->pid for its WARN() before replying:   *)
(* the NULL dereference oopses the memory node and no reply is sent.  A     *)
(* kernel-space address is answered EFAULT; otherwise the request goes on  *)
(* to do_handle_p2m_llc_miss().                                            *)
Recv(h, a, write, known) ==
    /\ hs[h].pc = "idle"
    /\ served[h] < MaxRequests
    /\ served' = [served EXCEPT ![h] = @ + 1]
    /\ LET req == [Idle EXCEPT !.addr = a, !.write = write]
       IN  \/ /\ ~known
              /\ panicked' = TRUE
              /\ UNCHANGED <<hs, reply>>
           \/ /\ known /\ a >= TASK_SIZE_MAX
              /\ reply' = [reply EXCEPT ![h] = [kind |-> "err", code |-> RET_EFAULT,
                              addr |-> a, write |-> write, page |-> NONE, data |-> NONE]]
              /\ UNCHANGED <<hs, panicked>>
           \/ /\ known /\ a < TASK_SIZE_MAX
              /\ hs' = [hs EXCEPT ![h] = [req EXCEPT !.pc = "lock"]]
              /\ UNCHANGED <<reply, panicked>>
    /\ UNCHANGED <<vm_start, ptable, pte, free, content, holds, pf, flushed>>

\* bad_area() and llc_miss_error() reply without up_read(&mm->mmap_sem).
BadArea(h) == ErrReply(h, RET_ESIGSEGV)

\* do_handle_p2m_llc_miss() up to good_area: down_read(&mm->mmap_sem),
\* find_vma(), and expand_stack() for an address below a VM_GROWSDOWN VMA.
LockAndFindVma(h) ==
    LET a == hs[h].addr
        v == FindVma(a)
    IN  /\ hs[h].pc = "lock"
        /\ holds' = [holds EXCEPT ![h] = @ + 1]
        /\ \/ /\ v = NONE
              /\ BadArea(h) /\ UNCHANGED vm_start
           \/ /\ v # NONE /\ vm_start[v] <= a
              /\ hs' = [hs EXCEPT ![h].pc = "walk", ![h].vma = v]
              /\ UNCHANGED <<vm_start, reply>>
           \/ /\ v # NONE /\ vm_start[v] > a
              /\ ~Vma[v].growsdown
              /\ BadArea(h) /\ UNCHANGED vm_start
           \/ /\ v # NONE /\ vm_start[v] > a
              /\ Vma[v].growsdown
              /\ IF a >= StackLimit           \* expand_stack() succeeds
                 THEN /\ vm_start' = [vm_start EXCEPT ![v] = a]
                      /\ hs' = [hs EXCEPT ![h].pc = "walk", ![h].vma = v]
                      /\ UNCHANGED reply
                 ELSE BadArea(h) /\ UNCHANGED vm_start
        /\ UNCHANGED <<ptable, pte, free, content, served, pf, flushed, panicked>>

\* lego_pud/pmd/pte_alloc(): the page-table pages are allocated once, from
\* the same pool, under mm->page_table_lock (code not under src/).
PtAlloc == IF ptable THEN [ok |-> TRUE, free |-> free]
           ELSE IF AllocPage = NONE THEN [ok |-> FALSE, free |-> free]
           ELSE [ok |-> TRUE, free |-> free \ {AllocPage}]

\* handle_lego_mm_fault(): walk to the PTE (VM_FAULT_OOM -> RET_ENOMEM via
\* llc_miss_error()), then handle_pte_fault() reads entry = *pte unlocked
\* and picks do_linear_fault(), do_anonymous_page() or the present path.
WalkAndReadPte(h) ==
    LET a == hs[h].addr
        v == hs[h].vma
    IN  /\ hs[h].pc = "walk"
        /\ free' = PtAlloc.free
        /\ ptable' = (ptable \/ PtAlloc.ok)
        /\ IF ~PtAlloc.ok
           THEN ErrReply(h, RET_ENOMEM)
           ELSE /\ hs' = [hs EXCEPT ![h].entry = pte[a],
                          ![h].pc = CASE pte[a] # NONE -> "present"
                                      [] Vma[v].file   -> "linear"
                                      [] OTHER         -> "anon"]
                /\ UNCHANGED reply
        /\ UNCHANGED <<vm_start, pte, content, holds, served, pf, flushed, panicked>>

\* The tail of do_handle_p2m_llc_miss() after a successful fault:
\* *ret_va = pte_val(*pte) & PTE_VFN_MASK, up_read(), and the reply.
\* The code reads *pte after dropping the PTE lock; the model reads it in the
\* same step: only the prefetcher can change an installed PTE in between
\* (HandlersNeverReplace), and no run checks replies with the prefetcher.
FaultDone(h, ptes, cont) ==
    /\ holds' = [holds EXCEPT ![h] = @ - 1]
    /\ PageReply(h, ptes[hs[h].addr].page, cont)

\* (mutant) The reply carries vmf.page, not the page installed at *pte.
DoLinearFault_replyOwnPage(h) ==
    LET a == hs[h].addr
        pg == AllocPage
    IN  /\ hs[h].pc = "linear"
        /\ pg # NONE
        /\ free' = free \ {pg}
        /\ content' = [content EXCEPT ![pg] = LinearPgoff(hs[h].vma, a)]
        /\ pte' = IF pte[a] = hs[h].entry THEN [pte EXCEPT ![a] = MkPte(pg, hs[h].write)]
                  ELSE pte
        /\ FaultDone(h, [pte EXCEPT ![a] = MkPte(pg, hs[h].write)], content')
        /\ UNCHANGED <<vm_start, ptable, served, pf, flushed, panicked>>

\* (mutant) The page is installed without the pte_same() re-check.
DoLinearFault_noPteSame(h) ==
    LET a == hs[h].addr
        pg == AllocPage
        newpte == [pte EXCEPT ![a] = MkPte(pg, hs[h].write)]
    IN  /\ hs[h].pc = "linear"
        /\ IF pg = NONE
           THEN ErrReply(h, RET_ENOMEM) /\ UNCHANGED <<free, content, pte, holds>>
           ELSE /\ free' = free \ {pg}
                /\ content' = [content EXCEPT ![pg] = LinearPgoff(hs[h].vma, a)]
                /\ pte' = newpte
                /\ FaultDone(h, pte', content')
        /\ UNCHANGED <<vm_start, ptable, served, pf, flushed, panicked>>

\* __do_fault() via do_linear_fault(): vm_ops->fault() reads the file page
\* at pgoff into a new page (an allocation failure is VM_FAULT_OOM); then,
\* under the PTE lock, the page is installed only if pte_same(*pte, orig_pte);
\* a write fault installs it writable and dirty.
DoLinearFault(h) ==
    LET a == hs[h].addr
        v == hs[h].vma
        pg == AllocPage
        newpte == [pte EXCEPT ![a] = MkPte(pg, hs[h].write)]
    IN  /\ hs[h].pc = "linear"
        /\ IF pg = NONE
           THEN ErrReply(h, RET_ENOMEM) /\ UNCHANGED <<free, content, pte, holds>>
           ELSE /\ free' = free \ {pg}
                /\ content' = [content EXCEPT ![pg] = LinearPgoff(v, a)]
                /\ pte' = IF pte[a] = hs[h].entry THEN newpte ELSE pte
                /\ FaultDone(h, pte', content')
        /\ UNCHANGED <<vm_start, ptable, served, pf, flushed, panicked>>

\* (mutant) No VM_FAULT_OOM check of __get_free_page().
DoAnonymousPage_noOomCheck(h) ==
    LET a == hs[h].addr
        pg == AllocPage
    IN  /\ hs[h].pc = "anon"
        /\ free' = free \ {pg}
        /\ content' = [content EXCEPT ![pg] = ZERO]
        /\ pte' = IF pte[a] = NONE
                  THEN [pte EXCEPT ![a] = MkPte(pg, Vma[hs[h].vma].write)] ELSE pte
        /\ holds' = [holds EXCEPT ![h] = @ - 1]
        /\ Reply(h, [kind |-> "page", code |-> "OK", addr |-> a, write |-> hs[h].write,
                     page |-> pte'[a].page, data |-> ZERO])
        /\ UNCHANGED <<vm_start, ptable, served, pf, flushed, panicked>>

\* (mutant) The PTE is set without the !pte_none() re-check under the lock.
DoAnonymousPage_noRecheck(h) ==
    LET a == hs[h].addr
        pg == AllocPage
    IN  /\ hs[h].pc = "anon"
        /\ IF pg = NONE
           THEN ErrReply(h, RET_ENOMEM) /\ UNCHANGED <<free, content, pte, holds>>
           ELSE /\ free' = free \ {pg}
                /\ content' = [content EXCEPT ![pg] = ZERO]
                /\ pte' = [pte EXCEPT ![a] = MkPte(pg, Vma[hs[h].vma].write)]
                /\ FaultDone(h, pte', content')
        /\ UNCHANGED <<vm_start, ptable, served, pf, flushed, panicked>>

\* do_anonymous_page(): a zeroed page, writable and dirty when the VMA has
\* VM_WRITE; under the PTE lock it is installed only if the PTE is still
\* none.
DoAnonymousPage(h) ==
    LET a == hs[h].addr
        v == hs[h].vma
        pg == AllocPage
    IN  /\ hs[h].pc = "anon"
        /\ IF pg = NONE
           THEN ErrReply(h, RET_ENOMEM) /\ UNCHANGED <<free, content, pte, holds>>
           ELSE /\ free' = free \ {pg}
                /\ content' = [content EXCEPT ![pg] = ZERO]
                /\ pte' = IF pte[a] = NONE
                          THEN [pte EXCEPT ![a] = MkPte(pg, Vma[v].write)]
                          ELSE pte
                /\ FaultDone(h, pte', content')
        /\ UNCHANGED <<vm_start, ptable, served, pf, flushed, panicked>>

\* handle_pte_fault() on a present PTE: under the PTE lock, nothing if
\* !pte_same(*pte, entry); a write fault on a read-only entry goes to
\* do_wp_page(), which is BUG(); otherwise a write fault marks it dirty.
PresentPte(h) ==
    LET a == hs[h].addr
        e == hs[h].entry
    IN  /\ hs[h].pc = "present"
        /\ IF pte[a] = e /\ hs[h].write /\ ~e.write
           THEN /\ panicked' = TRUE
                /\ UNCHANGED <<pte, hs, holds, reply>>
           ELSE /\ pte' = IF pte[a] = e /\ hs[h].write
                          THEN [pte EXCEPT ![a].dirty = TRUE] ELSE pte
                /\ FaultDone(h, pte', content)
                /\ UNCHANGED panicked
        /\ UNCHANGED <<vm_start, ptable, free, content, served, pf, flushed>>

\* handle_p2m_flush_one(): a misaligned user_va is -EINVAL, an unknown pid
\* -ESRCH; lego_copy_to_user() (not under src/) writes the line into the
\* page mapped at user_va and fails, -EFAULT, where none is mapped.
FlushOne(h, a, aligned, known) ==
    LET code == CASE ~aligned -> RET_EINVAL
                  [] ~known -> RET_ESRCH
                  [] a \notin UserAddrs \/ pte[a] = NONE -> RET_EFAULT
                  [] OTHER -> "OK"
    IN  /\ hs[h].pc = "idle"
        /\ served[h] < MaxRequests
        /\ served' = [served EXCEPT ![h] = @ + 1]
        /\ reply' = [reply EXCEPT ![h] = [kind |-> "flush", code |-> code, addr |-> a,
                        write |-> TRUE, page |-> NONE, data |-> NONE]]
        /\ IF code = "OK"
           THEN /\ content' = [content EXCEPT ![pte[a].page] = FLUSHED]
                /\ flushed' = flushed \cup {a}
           ELSE UNCHANGED <<content, flushed>>
        /\ UNCHANGED <<vm_start, ptable, pte, free, hs, holds, pf, panicked>>

-----------------------------------------------------------------------------
(* handle_lego_mmap_faults(vma, address, flags, nr_pages): the prefetcher.  *)
(* It is called at most once in the model; the caller keeps the nr_pages    *)
(* pages inside the VMA.                                                    *)

PfIdle == [pc |-> "done", vma |-> NONE, addr |-> NONE, nr |-> 0, i |-> 0,
           pages |-> <<>>, entry |-> NONE]

\* The nr lowest free pages, as the block __get_free_pages() returns.
LowestPages(nr) ==
    CHOOSE s \in [1..nr -> free] :
        /\ \A i \in 1..nr - 1 : s[i] < s[i + 1]
        /\ \A q \in free \ Range(s) : s[nr] < q

\* __get_free_pages() (VM_FAULT_OOM if it fails), then storage_read() of
\* nr_pages file pages from pos = pgoff << PAGE_SHIFT into the block.
PfStart(v, a, nr) ==
    /\ pf.pc = "idle"
    /\ Vma[v].file /\ vm_start[v] <= a /\ a + nr <= Vma[v].end
    /\ IF Cardinality(free) < nr
       THEN pf' = PfIdle /\ UNCHANGED <<free, content>>
       ELSE LET blk == LowestPages(nr)
            IN  /\ free' = free \ Range(blk)
                /\ content' = [pg \in DOMAIN content |->
                                 IF \E i \in 1..nr : blk[i] = pg
                                 THEN LinearPgoff(v, a) + (CHOOSE i \in 1..nr : blk[i] = pg) - 1
                                 ELSE content[pg]]
                /\ pf' = [pc |-> "walk", vma |-> v, addr |-> a, nr |-> nr, i |-> 0,
                          pages |-> blk, entry |-> NONE]
    /\ UNCHANGED <<vm_start, ptable, pte, hs, holds, served, reply, flushed, panicked>>

\* next_round: cur_addr += PAGE_SIZE; cur_page_addr += PAGE_SIZE.
PfNextRound(q) == IF q.i + 1 = q.nr THEN PfIdle ELSE [q EXCEPT !.i = @ + 1, !.pc = "walk"]

\* One iteration of the loop: the page-table walk (VM_FAULT_OOM returns and
\* abandons the rest of the block), then if (!pte_none(*pte)) goto next_round.
PfWalk ==
    LET a == pf.addr + pf.i
    IN  /\ pf.pc = "walk"
        /\ free' = PtAlloc.free
        /\ ptable' = (ptable \/ PtAlloc.ok)
        /\ pf' = IF ~PtAlloc.ok THEN PfIdle
                 ELSE IF pte[a] # NONE THEN PfNextRound(pf)
                 ELSE [pf EXCEPT !.pc = "read"]
        /\ UNCHANGED <<vm_start, pte, content, hs, holds, served, reply, flushed, panicked>>

\* handle_prefetch_pte_fault(): entry = *pte, read again, unlocked.
PfReadOrig ==
    /\ pf.pc = "read"
    /\ pf' = [pf EXCEPT !.entry = pte[pf.addr + pf.i], !.pc = "install"]
    /\ UNCHANGED <<vm_start, ptable, pte, free, content, hs, holds, served, reply, flushed, panicked>>

\* (mutant) Every iteration installs the block's first page.
PfInstall_noPageStep ==
    LET a == pf.addr + pf.i
    IN  /\ pf.pc = "install"
        /\ pte' = IF pte[a] = pf.entry
                  THEN [pte EXCEPT ![a] = MkPte(pf.pages[1], Vma[pf.vma].write)]
                  ELSE pte
        /\ pf' = PfNextRound(pf)
        /\ UNCHANGED <<vm_start, ptable, free, content, hs, holds, served, reply, flushed, panicked>>

\* __do_prefetch_fault(): under the PTE lock install the block's i-th page
\* (writable and dirty when VM_WRITE) if pte_same(*pte, orig_pte).
PfInstall ==
    LET a == pf.addr + pf.i
    IN  /\ pf.pc = "install"
        /\ pte' = IF pte[a] = pf.entry
                  THEN [pte EXCEPT ![a] = MkPte(pf.pages[pf.i + 1], Vma[pf.vma].write)]
                  ELSE pte
        /\ pf' = PfNextRound(pf)
        /\ UNCHANGED <<vm_start, ptable, free, content, hs, holds, served, reply, flushed, panicked>>

-----------------------------------------------------------------------------
Halted == panicked /\ UNCHANGED vars

\* Every request has been served and the prefetcher has returned.
Done == /\ \A h \in Handlers : hs[h].pc = "idle" /\ served[h] = MaxRequests
        /\ pf.pc \in {"idle", "done"}
        /\ UNCHANGED vars

Running ==
    \/ \E h \in Handlers :
          \/ \E a \in ReqAddrs, w \in BOOLEAN, k \in PidKnown : Recv(h, a, w, k)
          \/ LockAndFindVma(h)
          \/ WalkAndReadPte(h)
          \/ DoLinearFault(h)
          \/ DoAnonymousPage(h)
          \/ PresentPte(h)
          \/ \E a \in ReqAddrs, al \in Aligned, k \in PidKnown : FlushOne(h, a, al, k)
    \/ \E v \in VmaIds, a \in UserAddrs, nr \in 1..MaxPrefetch : PfStart(v, a, nr)
    \/ PfWalk \/ PfReadOrig \/ PfInstall

Next == (~panicked /\ Running) \/ Halted \/ Done

Spec == Init /\ [][Next]_vars

-----------------------------------------------------------------------------
(* Properties *)

Entries == [page : PageIds, write : BOOLEAN, dirty : BOOLEAN]
Replies == [kind : {"page", "err", "flush"}, code : {"OK", RET_ESRCH, RET_EFAULT,
            RET_ENOMEM, RET_ESIGSEGV, RET_EINVAL}, addr : Addrs, write : BOOLEAN, page : PageIds \cup {NONE},
            data : Nat \cup {ZERO, FLUSHED, NONE}]

TypeOK ==
    /\ pte \in [UserAddrs -> Entries \cup {NONE}]
    /\ free \subseteq PageIds
    /\ ptable \in BOOLEAN
    /\ content \in [PageIds -> Nat \cup {ZERO, FLUSHED, NONE}]
    /\ flushed \subseteq UserAddrs
    /\ \A h \in Handlers :
          /\ hs[h].pc \in {"idle", "lock", "walk", "linear", "anon", "present"}
          /\ holds[h] \in Nat /\ served[h] \in 0..MaxRequests
          /\ reply[h] \in Replies \cup {NONE}
    /\ pf.pc \in {"idle", "walk", "read", "install", "done"}
    /\ panicked \in BOOLEAN

Mapped == {a \in UserAddrs : pte[a] # NONE}
MappedPages == {pte[a].page : a \in Mapped}

\* What the page at address a must hold: a zeroed page in an anonymous VMA,
\* the file page at ((a - vm_start) >> PAGE_SHIFT) + vm_pgoff in a
\* file-backed one (do_linear_fault, handle_lego_mmap_faults).
ExpectedContent(a) ==
    LET v == FindVma(a)
    IN  IF Vma[v].file THEN a - Vma[v].start + Vma[v].pgoff ELSE ZERO

\* Page ownership: no kernel page is mapped at two addresses or is both
\* mapped and on the free list, across the racing installs of the fault
\* paths and the prefetch loop's cur_page_addr stepping.
PagesExclusive ==
    /\ \A a, b \in Mapped : a # b => pte[a].page # pte[b].page
    /\ MappedPages \cap free = {}

\* Every mapped page holds what its address maps: the prefetched block's
\* i-th page lands at address + i, a fault's own page at its address, and
\* a flushed line stays in the page mapped at its address.
ContentMatchesAddress ==
    \A a \in Mapped :
        content[pte[a].page] = IF a \in flushed THEN FLUSHED ELSE ExpectedContent(a)

\* The cache line sent for a miss comes from the page installed at that
\* address, even when the handler lost the install race and its own page
\* was not used (*ret_va = pte_val(*pte) after the unlock).
ReplyCorrect ==
    \A h \in Handlers :
        reply[h] # NONE /\ reply[h].kind = "page" =>
            /\ pte[reply[h].addr] # NONE
            /\ reply[h].page = pte[reply[h].addr].page
            /\ reply[h].data \in {ExpectedContent(reply[h].addr), FLUSHED}

\* No step of an LLC-miss handler replaces an installed PTE by another page:
\* do_linear_fault() re-checks pte_same() and do_anonymous_page()
\* pte_none() under the PTE lock, so a handler that read the PTE before a
\* handler or the prefetcher installed it installs nothing.  (Steps of the
\* prefetcher, the only ones that change pf, are exempt: its re-read of
\* orig_pte lets it replace a page, see fault_prefetch_overwrite.)
HandlersNeverReplace ==
    [][pf' = pf => \A a \in Mapped : pte'[a] # NONE /\ pte'[a].page = pte[a].page]_vars

PfPending == IF pf.pc \in {"walk", "read", "install"}
             THEN {pf.pages[i] : i \in pf.i + 1..pf.nr} ELSE {}
NoPageLeak ==
    Cardinality(PageIds \ free) =
        Cardinality(MappedPages \cup PfPending) + (IF ptable THEN 1 ELSE 0)

\* Every path of do_handle_p2m_llc_miss() that took mmap_sem for read
\* releases it before the handler takes the next request.
MmapSemReleased == \A h \in Handlers : hs[h].pc = "idle" => holds[h] = 0

\* Identity and addressing errors are recovered at the handler boundary
\* and turned into a reply code (an unknown pid is answered exactly ESRCH):
\* no request a remote node sends aborts the memory node.
RequestsNeverAbort == ~panicked

====
