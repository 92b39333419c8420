------------------------------ MODULE KMalloc ------------------------------
(***************************************************************************)
(* The kernel heap: kern/vm/kmalloc.c over the pages of dumbvm.  A page is *)
(* cut into blocks of one size.  A pageref describes it; pagerefs live in  *)
(* pages of their own, found from kheaproots.  kmalloc_spinlock is given   *)
(* up around alloc_kpages, so a call is several steps.                     *)
(***************************************************************************)
EXTENDS Integers, FiniteSets, SequencesExt

CONSTANTS
  Threads,
  NumPages,       (* pages of memory, numbered from 1                      *)
  PAGE_SIZE,
  sizes,          (* the block sizes, growing                              *)
  NumRoots,       (* NUM_PAGEREFPAGES                                      *)
  PerPage,        (* NPAGEREFS_PER_PAGE                                    *)
  Requests        (* the sizes clients ask for                             *)

ASSUME KMallocConstants ==
  /\ NumPages \in Nat /\ NumRoots \in Nat /\ PerPage \in Nat \ {0} /\ PAGE_SIZE \in Nat
  /\ sizes \in Seq(1 .. PAGE_SIZE) /\ sizes # <<>>
  /\ \A i, j \in DOMAIN sizes : i < j => sizes[i] < sizes[j]
  /\ Requests \subseteq Nat \ {0}
  /\ IsFiniteSet(Threads) /\ Cardinality(Threads) <= PerPage  (* of 256 *)

Types == DOMAIN sizes
Roots == 1 .. NumRoots
Pages == 1 .. NumPages
Pagerefs == Pages \X (1 .. PerPage)    (* where a pageref may be: page and place *)
NBlocks(type) == PAGE_SIZE \div sizes[type]
LARGEST_SUBPAGE_SIZE == Last(sizes)

VARIABLES
  firstpage,      (* ram_stealmem: the next page it gives out              *)
  root,           (* kheaproots[].page, 0 for NULL                         *)
  inuse,          (* kheaproots[].pagerefs_inuse                           *)
  pageref,        (* the pagerefs: page, type, free list and nfree         *)
  sizebases,
  allbase,
  owned,          (* the blocks clients have: address and length           *)
  pc,
  loc             (* the locals of kmalloc: type, page, root and place, va *)

heap == <<root, inuse, pageref, sizebases, allbase>>
vars == <<firstpage, heap, owned, pc, loc>>

NoLocals == [type |-> 0, page |-> 0, root |-> 0, place |-> 0, va |-> 0]
NoPageref == [page |-> 0, type |-> 0, free |-> <<>>, nfree |-> 0]

Init ==
  /\ firstpage = 1
  /\ root = [r \in Roots |-> 0]
  /\ inuse = [r \in Roots |-> {}]
  /\ pageref = [p \in Pagerefs |-> NoPageref]
  /\ sizebases = [t \in Types |-> <<>>]
  /\ allbase = <<>>
  /\ owned = {}
  /\ pc = [t \in Threads |-> "out"]
  /\ loc = [t \in Threads |-> NoLocals]

(* The address of block i of a page, and what a client then has.           *)
Block(page, type, i) == [at |-> page * PAGE_SIZE + i * sizes[type], len |-> sizes[type]]

(* alloc_kpages(n): the first of n pages, or 0.                            *)
KPages(n) == IF firstpage + n - 1 <= NumPages THEN firstpage ELSE 0

(* Mutant: one page is taken, whatever n is.                               *)
alloc_kpages_one(n) == firstpage' = IF KPages(n) = 0 THEN firstpage ELSE firstpage + 1

alloc_kpages(n) == firstpage' = IF KPages(n) = 0 THEN firstpage ELSE firstpage + n

(* The index of the block size for a request.                              *)
blocktype(sz) == Min({i \in Types : sz <= sizes[i]})

Return(t) ==
  /\ pc' = [pc EXCEPT ![t] = "out"]
  /\ loc' = [loc EXCEPT ![t] = NoLocals]

----------------------------------------------------------------------------

(* kmalloc of half a page or more: whole pages.                            *)
kmalloc_pages(t, sz) ==
  LET n == (sz + PAGE_SIZE - 1) \div PAGE_SIZE
  IN  /\ pc[t] = "out"
      /\ sz >= LARGEST_SUBPAGE_SIZE
      /\ alloc_kpages(n)
      /\ owned' = IF KPages(n) = 0 THEN owned
                  ELSE owned \cup {[at |-> KPages(n) * PAGE_SIZE, len |-> n * PAGE_SIZE]}
      /\ UNCHANGED <<heap, pc, loc>>

(* doalloc: the first block of the free list of pageref p, which is ref.   *)
doalloc(t, p, ref) ==
  /\ pageref' = [pageref EXCEPT ![p] = [ref EXCEPT !.free = Tail(@), !.nfree = @ - 1]]
  /\ owned' = owned \cup {Block(ref.page, ref.type, Head(ref.free))}
  /\ Return(t)

(* subpage_kmalloc: the first page of the size with a free block, or else  *)
(* a new page is needed.                                                   *)
subpage_kmalloc(t, sz) ==
  /\ pc[t] = "out"
  /\ sz < LARGEST_SUBPAGE_SIZE
  /\ LET type == blocktype(sz)
         list == sizebases[type]
         usable == {i \in DOMAIN list : pageref[list[i]].nfree > 0}
     IN  IF usable # {}
           THEN doalloc(t, list[Min(usable)], pageref[list[Min(usable)]])
           ELSE /\ pc' = [pc EXCEPT ![t] = "page"]
                /\ loc' = [loc EXCEPT ![t].type = type]
                /\ UNCHANGED <<pageref, owned>>
  /\ UNCHANGED <<firstpage, root, inuse, sizebases, allbase>>

(* alloc_kpages(1) for the blocks, without the spinlock.                   *)
subpage_page(t) ==
  /\ pc[t] = "page"
  /\ alloc_kpages(1)
  /\ IF KPages(1) = 0
       THEN Return(t)
       ELSE /\ pc' = [pc EXCEPT ![t] = "pageref"]
            /\ loc' = [loc EXCEPT ![t].page = KPages(1)]
  /\ UNCHANGED <<heap, owned>>

(* The new page described by the pageref at place j of page q, put in      *)
(* front of both lists, and a block taken from it.  The free list runs     *)
(* from the last block to the first.                                       *)
install(t, q, j) ==
  LET p == <<q, j>>
      type == loc[t].type
      n == NBlocks(type)
      ref == [page |-> loc[t].page, type |-> type,
              free |-> [i \in 1 .. n |-> n - i], nfree |-> n]
  IN  /\ sizebases' = [sizebases EXCEPT ![type] = <<p>> \o @]
      /\ allbase' = <<p>> \o allbase
      /\ doalloc(t, p, ref)

(* allocpageref: the first free place of the first root that is not full.  *)
(* Its page may have to be allocated first.                                *)
allocpageref(t) ==
  LET notfull == {r \in Roots : Cardinality(inuse[r]) < PerPage}
      r == Min(notfull)
      j == Min((1 .. PerPage) \ inuse[r])
  IN  /\ pc[t] = "pageref"
      /\ IF notfull = {}
           THEN /\ Return(t)
                /\ UNCHANGED <<inuse, pageref, sizebases, allbase, owned>>
         ELSE /\ inuse' = [inuse EXCEPT ![r] = @ \cup {j}]
              /\ IF root[r] # 0
                   THEN install(t, root[r], j)
                   ELSE /\ pc' = [pc EXCEPT ![t] = "rootpage"]
                        /\ loc' = [loc EXCEPT ![t].root = r, ![t].place = j]
                        /\ UNCHANGED <<pageref, sizebases, allbase, owned>>
      /\ UNCHANGED <<firstpage, root>>

(* allocpagerefpage: alloc_kpages(1), without the spinlock.                *)
rootpage_alloc(t) ==
  /\ pc[t] = "rootpage"
  /\ alloc_kpages(1)
  /\ pc' = [pc EXCEPT ![t] = "rootpage_got"]
  /\ loc' = [loc EXCEPT ![t].va = KPages(1)]
  /\ UNCHANGED <<heap, owned>>

(* Mutant: whether somebody else has set the root's page is not looked at. *)
rootpage_set_blindly(t) ==
  LET r == loc[t].root
  IN  /\ pc[t] = "rootpage_got"
      /\ IF loc[t].va = 0
           THEN Return(t) /\ UNCHANGED <<heap, owned>>
           ELSE /\ root' = [root EXCEPT ![r] = loc[t].va]
                /\ install(t, loc[t].va, loc[t].place)
                /\ UNCHANGED inuse
      /\ UNCHANGED firstpage

(* The spinlock taken again: somebody else may have set the root's page.   *)
(* With none, the call fails and its place stays taken.                    *)
rootpage_set(t) ==
  LET r == loc[t].root
  IN  /\ pc[t] = "rootpage_got"
      /\ \/ /\ loc[t].va = 0 /\ root[r] = 0
            /\ Return(t)
            /\ UNCHANGED <<heap, owned>>
         \/ /\ loc[t].va = 0 /\ root[r] # 0
            /\ install(t, root[r], loc[t].place)
            /\ UNCHANGED <<root, inuse>>
         \/ /\ loc[t].va # 0 /\ root[r] = 0
            /\ root' = [root EXCEPT ![r] = loc[t].va]
            /\ install(t, loc[t].va, loc[t].place)
            /\ UNCHANGED inuse
         \/ /\ loc[t].va # 0 /\ root[r] # 0
            /\ pc' = [pc EXCEPT ![t] = "rootpage_freed"]
            /\ UNCHANGED <<heap, owned, loc>>
      /\ UNCHANGED firstpage

(* The page that was not needed has been freed without the spinlock.       *)
rootpage_lost(t) ==
  /\ pc[t] = "rootpage_freed"
  /\ install(t, root[loc[t].root], loc[t].place)
  /\ UNCHANGED <<firstpage, root, inuse>>

----------------------------------------------------------------------------

(* The listed page an address is on.                                       *)
OnPage(at, p) == pageref[p].page * PAGE_SIZE <= at /\ at < (pageref[p].page + 1) * PAGE_SIZE

remove_lists(p) ==
  /\ sizebases' = [sizebases EXCEPT ![pageref[p].type] = RemoveFirst(@, p)]
  /\ allbase' = RemoveFirst(allbase, p)

(* Mutant: the place of the pageref is not given back.                     *)
release_page_keep(p) ==
  /\ remove_lists(p)
  /\ pageref' = [pageref EXCEPT ![p] = NoPageref]
  /\ UNCHANGED inuse

(* remove_lists and freepageref.                                           *)
release_page(p) ==
  /\ remove_lists(p)
  /\ inuse' = [r \in Roots |-> IF root[r] = p[1] THEN inuse[r] \ {p[2]} ELSE inuse[r]]
  /\ pageref' = [pageref EXCEPT ![p] = NoPageref]

(* subpage_kfree: the block goes in front of its page's free list; a page  *)
(* that is all free leaves the heap.  free_kpages does nothing in dumbvm.  *)
subpage_kfree(t, b) ==
  /\ pc[t] = "out"
  /\ b \in owned
  /\ \E i \in DOMAIN allbase :
       LET p == allbase[i]
           ref == pageref[p]
           block == (b.at - ref.page * PAGE_SIZE) \div sizes[ref.type]
       IN  /\ OnPage(b.at, p)
           /\ \A j \in 1 .. i - 1 : ~ OnPage(b.at, allbase[j])
           /\ IF ref.nfree + 1 = NBlocks(ref.type)
                THEN release_page(p)
                ELSE /\ pageref' = [pageref EXCEPT ![p].free = <<block>> \o @,
                                                   ![p].nfree = @ + 1]
                     /\ UNCHANGED <<inuse, sizebases, allbase>>
  /\ owned' = owned \ {b}
  /\ UNCHANGED <<firstpage, root, pc, loc>>

(* kfree of whole pages: the address is on no page of the subpage heap.    *)
kfree_pages(t, b) ==
  /\ pc[t] = "out"
  /\ b \in owned
  /\ \A i \in DOMAIN allbase : ~ OnPage(b.at, allbase[i])
  /\ owned' = owned \ {b}
  /\ UNCHANGED <<firstpage, heap, pc, loc>>

----------------------------------------------------------------------------

Run(t) ==
  \/ subpage_page(t) \/ allocpageref(t)
  \/ rootpage_alloc(t) \/ rootpage_set(t) \/ rootpage_lost(t)

Next ==
  \E t \in Threads :
    \/ \E sz \in Requests : kmalloc_pages(t, sz) \/ subpage_kmalloc(t, sz)
    \/ \E b \in owned : subpage_kfree(t, b) \/ kfree_pages(t, b)
    \/ Run(t)

Spec == Init /\ [][Next]_vars

----------------------------------------------------------------------------

Listed == ToSet(allbase)
FreeBlocks(p) ==
  {Block(pageref[p].page, pageref[p].type, i) : i \in ToSet(pageref[p].free)}
OwnedOn(p) == {b \in owned : OnPage(b.at, p)}

TypeOK ==
  /\ firstpage \in 1 .. NumPages + 1
  /\ root \in [Roots -> 0 .. NumPages]
  /\ inuse \in [Roots -> SUBSET (1 .. PerPage)]
  /\ sizebases \in [Types -> Seq(Pagerefs)]
  /\ allbase \in Seq(Pagerefs)
  /\ \A p \in Listed :
       /\ pageref[p].page \in Pages /\ pageref[p].type \in Types
       /\ pageref[p].nfree \in 0 .. NBlocks(pageref[p].type)
  /\ \A b \in owned : b.at \in Nat /\ b.len \in Nat

(* What checksubpage and checksubpages assert with SLOWER defined: nfree   *)
(* is the length of the free list, the list has every block that no client *)
(* has, once, and the two lists name the same pages.                       *)
PagesAccounted ==
  /\ \A p \in Listed :
       /\ pageref[p].nfree = Len(pageref[p].free)
       /\ Cardinality(FreeBlocks(p)) = pageref[p].nfree
       /\ FreeBlocks(p) \cap owned = {}
       /\ Cardinality(OwnedOn(p)) + pageref[p].nfree = NBlocks(pageref[p].type)
  /\ \A type \in Types :
       ToSet(sizebases[type]) = {p \in Listed : pageref[p].type = type}
  /\ Cardinality(Listed) = Len(allbase)

(* A pageref in use stays where freepageref looks for it, its place taken, *)
(* though the spinlock was given up while its page was allocated.          *)
PagerefsFound ==
  \A p \in Listed : \E r \in Roots : root[r] = p[1] /\ p[2] \in inuse[r]

(* freepageref's assertion: a root without a page that it passes on the    *)
(* way to its own has nothing in use.                                      *)
EmptyRootsUnused ==
  \A r \in Roots : (\E p \in Listed : \E s \in Roots : s > r /\ root[s] = p[1])
                     => root[r] # 0 \/ inuse[r] = {}

(* Places are taken by listed pages and by calls under way; until memory   *)
(* runs out no place is lost.                                              *)
NoPlaceLost ==
  firstpage <= NumPages =>
    \A r \in Roots : \A j \in inuse[r] :
      \/ root[r] # 0 /\ <<root[r], j>> \in Listed
      \/ \E t \in Threads : pc[t] \in {"rootpage", "rootpage_got", "rootpage_freed"}
                              /\ loc[t].root = r /\ loc[t].place = j

Addresses(b) == b.at .. b.at + b.len - 1

H == INSTANCE Heap WITH owned <- {Addresses(b) : b \in owned}

(* Every block that kmalloc returns is clear of all that clients have,     *)
(* whatever other calls did while the spinlock was given up.               *)
ImplementsHeap == H!Spec

(* Taken together: the lists of pages, the free lists and the places of    *)
(* the pagerefs agree whenever kmalloc_spinlock is free, also between the  *)
(* halves of a call that gave it up; freepageref finds what it looks for.  *)
KMallocInv == TypeOK /\ PagesAccounted /\ PagerefsFound /\ EmptyRootsUnused

============================================================================
