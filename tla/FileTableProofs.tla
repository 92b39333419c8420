-------------------------- MODULE FileTableProofs --------------------------
(* Proofs about the file tables, for any number of processes, descriptors, *)
(* Files and vnodes and any size of the two tables.                        *)
EXTENDS FileTable, FiniteSetTheorems, NaturalsInduction, WellFoundedInduction, TLAPS

(* The loops over a table stop at the first slot that fits.                *)
LEMMA FirstFreeLemma ==
  ASSUME NEW S \in SUBSET Nat, S # {}
  PROVE  FirstFree(S) \in S
<1> DEFINE R == {ss \in Nat \X Nat : ss[1] < ss[2]}
<1>1. IsWellFoundedOn(R, Nat)
  BY NatLessThanWellFounded, Zenon DEF OpToRel
<1>2. PICK i \in S : \A j \in S : ~ (<<j, i>> \in R)
  <2> HIDE DEF R
  <2>1. QED
    BY <1>1, WFMin
<1>3. ASSUME NEW j \in S PROVE i <= j
  <2>1. i \in Nat /\ j \in Nat
    OBVIOUS
  <2>2. j < i => <<j, i>> \in R
    BY <2>1
  <2>3. QED
    BY <1>2, <2>1, <2>2
<1>4. \E k \in S : \A j \in S : k <= j
  BY <1>3
<1>5. QED
  BY <1>4, Zenon DEF FirstFree

(* One more or one less in a finite set.                                   *)
LEMMA CountOne ==
  ASSUME NEW S, IsFiniteSet(S), NEW x
  PROVE  /\ IsFiniteSet(S \cup {x}) /\ IsFiniteSet(S \ {x})
         /\ Cardinality(S) \in Nat
         /\ Cardinality(S \cup {x}) \in Nat
         /\ Cardinality(S \ {x}) \in Nat
         /\ Cardinality(S \cup {x}) <= Cardinality(S) + 1
         /\ x \notin S => Cardinality(S \cup {x}) = Cardinality(S) + 1
         /\ x \in S => Cardinality(S \ {x}) = Cardinality(S) - 1
         /\ x \in S => Cardinality(S) >= 1
<1>1. IsFiniteSet(S \cup {x}) /\ IsFiniteSet(S \ {x})
  BY FS_AddElement, FS_RemoveElement
<1>2. /\ Cardinality(S) \in Nat
      /\ Cardinality(S \cup {x}) \in Nat
      /\ Cardinality(S \ {x}) \in Nat
  BY <1>1, FS_CardinalityType
<1>3. Cardinality(S \cup {x}) = IF x \in S THEN Cardinality(S) ELSE Cardinality(S) + 1
  BY FS_AddElement
<1>4. Cardinality(S \ {x}) = IF x \in S THEN Cardinality(S) - 1 ELSE Cardinality(S)
  BY FS_RemoveElement
<1>5. QED
  BY <1>1, <1>2, <1>3, <1>4

----------------------------------------------------------------------------

(* Every open descriptor leads to a File and a vnode.                      *)
Allocated ==
  \A p \in Procs, i \in Fds : local[p][i] \in Descs =>
    /\ file_of[local[p][i]] \in Files
    /\ node_of[file_of[local[p][i]]] \in Nodes

(* LastCloserAlone, slot by slot.                                          *)
CloserAlone ==
  \A p \in Procs : pc[p] = "remove" =>
    /\ \A q \in Procs, i \in Fds : local[q][i] \in Descs =>
         node_of[file_of[local[q][i]]] # arg[p].node
    /\ \A q \in Procs : q # p /\ (pc[q] = "adding" \/ Closing(q)) =>
         arg[q].node # arg[p].node

(* The inductive invariant.                                                *)
IInv ==
  /\ TypeOK /\ GlobalCountExact /\ FilesListed /\ ArgsCurrent /\ TablesKept
  /\ CloserAlone /\ Allocated /\ RefsCounted

(* A local table has finitely many slots, ...                              *)
LEMMA FdsFinite == IsFiniteSet(Fds)
  BY FileTableConstants, FS_Interval DEF Fds

(* ... and the sets that vn_refcount counts are finite.                            *)
LEMMA UsesFinite ==
  ASSUME TypeOK, NEW n
  PROVE  /\ IsFiniteSet(Descriptors(n)) /\ Cardinality(Descriptors(n)) \in Nat
         /\ IsFiniteSet(InCall(n)) /\ Cardinality(InCall(n)) \in Nat
         /\ IsFiniteSet(loading \cap {n}) /\ Cardinality(loading \cap {n}) \in Nat
<1>1. IsFiniteSet(Fds)
  BY FdsFinite
<1>2. IsFiniteSet(Procs \X Fds)
  BY <1>1, FileTableConstants, FS_Product
<1>3. Descriptors(n) \subseteq Procs \X Fds /\ InCall(n) \subseteq Procs
  BY DEF Descriptors, InCall
<1>4. IsFiniteSet(Descriptors(n)) /\ IsFiniteSet(InCall(n))
  BY <1>2, <1>3, FileTableConstants, FS_Subset
<1>5. IsFiniteSet({n})
  BY FS_Singleton
<1>6. IsFiniteSet(loading \cap {n})
  BY <1>5, FS_Intersection
<1>7. QED
  BY <1>4, <1>6, FS_CardinalityType

(* The descriptor in slot i of p's table leads to vnode n.                 *)
Leads(p, i, n) == local[p][i] \in Descs /\ node_of[file_of[local[p][i]]] = n

(* A slot counts for the vnode its descriptor leads to.                    *)
LEMMA InDescriptors ==
  ASSUME Allocated, NEW n, NEW p \in Procs, NEW i \in Fds
  PROVE  <<p, i>> \in Descriptors(n) <=> Leads(p, i, n)
  BY FileTableConstants DEF Descriptors, Allocated, Leads

(* The same in the next state.                                             *)
LEMMA InDescriptorsNext ==
  ASSUME Allocated', NEW n, NEW p \in Procs, NEW i \in Fds
  PROVE  <<p, i>> \in Descriptors(n)' <=> Leads(p, i, n)'
  BY FileTableConstants DEF Descriptors, Allocated, Leads

(* Slots that lead where they led make no difference.                      *)
LEMMA DescriptorsSame ==
  ASSUME Allocated, Allocated', NEW n,
         \A p \in Procs, i \in Fds : Leads(p, i, n)' <=> Leads(p, i, n)
  PROVE  Descriptors(n)' = Descriptors(n)
<1>1. Descriptors(n) \subseteq Procs \X Fds /\ Descriptors(n)' \subseteq Procs \X Fds
  BY DEF Descriptors
<1>2. \A p \in Procs, i \in Fds :
        <<p, i>> \in Descriptors(n)' <=> <<p, i>> \in Descriptors(n)
  BY InDescriptors, InDescriptorsNext
<1>3. QED
  BY <1>1, <1>2

(* One slot that leads to n is filled.                                     *)
LEMMA DescriptorsMore ==
  ASSUME Allocated, Allocated', NEW n, NEW p \in Procs, NEW i \in Fds,
         Leads(p, i, n)', ~ Leads(p, i, n),
         \A q \in Procs, j \in Fds :
           <<q, j>> # <<p, i>> => (Leads(q, j, n)' <=> Leads(q, j, n))
  PROVE  /\ Descriptors(n)' = Descriptors(n) \cup {<<p, i>>}
         /\ <<p, i>> \notin Descriptors(n)
<1>1. Descriptors(n) \subseteq Procs \X Fds /\ Descriptors(n)' \subseteq Procs \X Fds
  BY DEF Descriptors
<1>2. \A q \in Procs, j \in Fds : <<q, j>> # <<p, i>> =>
        (<<q, j>> \in Descriptors(n)' <=> <<q, j>> \in Descriptors(n))
  BY InDescriptors, InDescriptorsNext
<1>3. <<p, i>> \in Descriptors(n)' /\ <<p, i>> \notin Descriptors(n)
  BY InDescriptors, InDescriptorsNext
<1>4. QED
  BY <1>1, <1>2, <1>3

(* One slot that led to n is cleared.                                      *)
LEMMA DescriptorsLess ==
  ASSUME Allocated, Allocated', NEW n, NEW p \in Procs, NEW i \in Fds,
         ~ Leads(p, i, n)', Leads(p, i, n),
         \A q \in Procs, j \in Fds :
           <<q, j>> # <<p, i>> => (Leads(q, j, n)' <=> Leads(q, j, n))
  PROVE  /\ Descriptors(n)' = Descriptors(n) \ {<<p, i>>}
         /\ <<p, i>> \in Descriptors(n)
<1>1. Descriptors(n) \subseteq Procs \X Fds /\ Descriptors(n)' \subseteq Procs \X Fds
  BY DEF Descriptors
<1>2. \A q \in Procs, j \in Fds : <<q, j>> # <<p, i>> =>
        (<<q, j>> \in Descriptors(n)' <=> <<q, j>> \in Descriptors(n))
  BY InDescriptors, InDescriptorsNext
<1>3. <<p, i>> \notin Descriptors(n)' /\ <<p, i>> \in Descriptors(n)
  BY InDescriptors, InDescriptorsNext
<1>4. QED
  BY <1>1, <1>2, <1>3

(* The promises follow from the invariant.                                 *)
LEMMA IInvImplies ==
  ASSUME IInv
  PROVE  FileIsShared /\ LastCloserAlone /\ NoDanglingDescriptor
<1> USE DEF IInv
<1>1. \A p \in Procs : \A d \in OpenDescs(p) :
        /\ file_of[d] \in Files /\ node_of[file_of[d]] \in Nodes
  BY DEF OpenDescs, Allocated
<1>2. NoDanglingDescriptor
  <2> SUFFICES ASSUME NEW p \in Procs, NEW i \in Fds, local[p][i] \in Descs
               PROVE  vn_refcount[node_of[file_of[local[p][i]]]] > 0
    BY <1>1, FileTableConstants DEF NoDanglingDescriptor, OpenDescs
  <2> DEFINE n == node_of[file_of[local[p][i]]]
  <2>1. n \in Nodes /\ file_of[local[p][i]] \in Files
    BY DEF Allocated
  <2>2. <<p, i>> \in Descriptors(n)
    BY <2>1, FileTableConstants DEF Descriptors
  <2> HIDE DEF n
  <2>3. Cardinality(Descriptors(n)) >= 1
    BY <2>2, UsesFinite, CountOne
  <2>4. vn_refcount[n] \in Nat
    BY <2>1 DEF TypeOK
  <2>5. vn_refcount[n] > 0
    <3>1. vn_refcount[n] >= Cardinality(Descriptors(n)) + Cardinality(InCall(n))
                            + Cardinality(loading \cap {n})
      BY <2>1 DEF RefsCounted
    <3>2. /\ Cardinality(Descriptors(n)) \in Nat /\ Cardinality(InCall(n)) \in Nat
          /\ Cardinality(loading \cap {n}) \in Nat
      BY UsesFinite
    <3>3. QED
      BY <2>3, <2>4, <3>1, <3>2
  <2>6. QED
    BY <2>5 DEF n
<1>3. FileIsShared
  BY <1>1, FileTableConstants DEF FileIsShared, FilesListed
<1>4. LastCloserAlone
  BY DEF LastCloserAlone, CloserAlone, OpenDescs
<1>5. QED
  BY <1>2, <1>3, <1>4

(* The local variables of a process that is in no call.                    *)
LEMMA NoArgType == NoArg \in Args
  BY FileTableConstants DEF NoArg, Args, Fds

(* The invariant holds when the tables are made.                           *)
LEMMA IInvInit == Init => IInv
<1> SUFFICES ASSUME Init PROVE IInv
  OBVIOUS
<1> USE FileTableConstants DEF Init
<1>0. 0 \in Fds
  BY DEF Fds
<1>1. TypeOK
  BY <1>0, NoArgType DEF TypeOK, NoTable, Places
<1>2. GlobalCountExact
  <2>1. {i \in Slots : global[i] # NULL} = {}
    OBVIOUS
  <2>2. QED
    BY <2>1, FS_EmptySet DEF GlobalCountExact
<1>3. FilesListed
  BY DEF FilesListed
<1>4. ArgsCurrent /\ TablesKept /\ CloserAlone /\ Allocated
  BY DEF ArgsCurrent, TablesKept, CloserAlone, Allocated, Closing, NoTable
<1>5. RefsCounted
  <2> SUFFICES ASSUME NEW n \in Nodes
               PROVE  vn_refcount[n] >= Cardinality(Descriptors(n))
                        + Cardinality(InCall(n)) + Cardinality(loading \cap {n})
    BY DEF RefsCounted
  <2>1. Descriptors(n) = {} /\ InCall(n) = {} /\ loading \cap {n} = {}
    BY DEF Descriptors, InCall, NoTable
  <2>2. QED
    BY <2>1, FS_EmptySet
<1>6. QED
  BY <1>1, <1>2, <1>3, <1>4, <1>5 DEF IInv

----------------------------------------------------------------------------

(* RefsCounted for one vnode.                                              *)
Counted(n) ==
  vn_refcount[n] >= Cardinality(Descriptors(n)) + Cardinality(InCall(n))
                    + Cardinality(loading \cap {n})

(* A step that touches none of the uses of a vnode keeps its count right.  *)
LEMMA CountedSame ==
  ASSUME TypeOK, NEW n \in Nodes, Counted(n),
         vn_refcount'[n] = vn_refcount[n], Descriptors(n)' = Descriptors(n),
         InCall(n)' = InCall(n), (loading \cap {n})' = loading \cap {n}
  PROVE  Counted(n)'
  BY DEF Counted

(* p's call gives up its reference.                                        *)
LEMMA CountedReturn ==
  ASSUME TypeOK, NEW n \in Nodes, Counted(n), NEW p \in InCall(n),
         vn_refcount'[n] >= vn_refcount[n] - 1, Descriptors(n)' = Descriptors(n),
         InCall(n)' = InCall(n) \ {p}, (loading \cap {n})' = loading \cap {n},
         vn_refcount'[n] \in Int
  PROVE  Counted(n)' /\ vn_refcount[n] >= 1
<1>1. /\ Cardinality(Descriptors(n)) \in Nat /\ Cardinality(InCall(n)) \in Nat
      /\ Cardinality(loading \cap {n}) \in Nat /\ vn_refcount[n] \in Nat
  BY UsesFinite DEF TypeOK
<1>2. /\ Cardinality(InCall(n))' = Cardinality(InCall(n)) - 1
      /\ Cardinality(InCall(n)) >= 1
  BY UsesFinite, CountOne
<1>3. /\ Cardinality(Descriptors(n))' = Cardinality(Descriptors(n))
      /\ Cardinality(loading \cap {n})' = Cardinality(loading \cap {n})
  OBVIOUS
<1>4. QED
  BY <1>1, <1>2, <1>3 DEF Counted

(* The table a program starts with has standard descriptors only.          *)
LEMMA StartStep ==
  ASSUME IInv, NEW p \in Procs, start(p)
  PROVE  IInv'
<1> USE FileTableConstants DEF IInv, start, Goto, gtable, heap
<1>1. TypeOK'
  BY DEF TypeOK, EmptyTable, Places
<1>2. GlobalCountExact' /\ FilesListed'
  BY DEF GlobalCountExact, FilesListed
<1>3. ArgsCurrent' /\ TablesKept' /\ CloserAlone' /\ Allocated'
  BY DEF ArgsCurrent, TablesKept, CloserAlone, Allocated, EmptyTable, TypeOK, Closing
<1>4. RefsCounted'
  <2> SUFFICES ASSUME NEW n \in Nodes PROVE Counted(n)'
    BY DEF RefsCounted, Counted
  <2>1. Descriptors(n)' = Descriptors(n)
    BY DEF Descriptors, EmptyTable, TablesKept, TypeOK
  <2>2. InCall(n)' = InCall(n)
    BY DEF InCall, TypeOK
  <2>3. QED
    BY <2>1, <2>2, CountedSame DEF RefsCounted, Counted
<1>5. QED
  BY <1>1, <1>2, <1>3, <1>4

(* The test of the count: with one reference left p is alone.              *)
LEMMA CheckStep ==
  ASSUME IInv, NEW p \in Procs, file_destroy_check(p)
  PROVE  IInv'
<1> USE FileTableConstants DEF IInv, file_destroy_check, Goto, heap
<1> DEFINE m == arg[p].node
<1>1. TypeOK'
  BY DEF TypeOK, Places
<1>2. GlobalCountExact' /\ FilesListed' /\ Allocated'
  BY DEF GlobalCountExact, FilesListed, Allocated
<1>3. ArgsCurrent'
  BY DEF ArgsCurrent, TypeOK, Closing
<1>4. TablesKept'
  BY DEF TablesKept, TypeOK
<1>5. CloserAlone'
  <2>1. m \in Nodes /\ p \in InCall(m)
    BY DEF ArgsCurrent, Closing, InCall
  <2>2. ASSUME vn_refcount[m] = 1 PROVE Descriptors(m) = {} /\ InCall(m) = {p}
    <3>1. Cardinality(Descriptors(m)) = 0 /\ Cardinality(InCall(m)) = 1
      <4> HIDE DEF m
      <4>1. /\ Cardinality(Descriptors(m)) \in Nat /\ Cardinality(InCall(m)) \in Nat
            /\ Cardinality(loading \cap {m}) \in Nat
        BY UsesFinite
      <4>2. Cardinality(InCall(m)) >= 1
        BY <2>1, UsesFinite, CountOne
      <4>3. vn_refcount[m] >= Cardinality(Descriptors(m)) + Cardinality(InCall(m))
                              + Cardinality(loading \cap {m})
        BY <2>1 DEF RefsCounted
      <4>4. QED
        BY <2>2, <4>1, <4>2, <4>3
    <3>2. Descriptors(m) = {}
      BY <3>1, UsesFinite, FS_EmptySet
    <3>3. PICK x : InCall(m) = {x}
      BY <3>1, UsesFinite, FS_Singleton
    <3>4. QED
      BY <2>1, <3>2, <3>3
  <2>3. CASE vn_refcount[m] = 1
    <3>1. ASSUME NEW q \in Procs, NEW i \in Fds, local[q][i] \in Descs
          PROVE  node_of[file_of[local[q][i]]] # m
      <4>1. <<q, i>> \notin Descriptors(m)
        BY <2>2, <2>3
      <4>2. QED
        BY <3>1, <4>1, InDescriptors DEF Leads
    <3>2. \A q \in Procs : q # p /\ (pc[q] = "adding" \/ Closing(q)) => arg[q].node # m
      BY <2>2, <2>3 DEF InCall, Closing
    <3>3. \A q \in Procs : pc'[q] = "remove" => q = p
      BY DEF ArgsCurrent, TypeOK
    <3>4. \A q \in Procs : q # p => pc'[q] = pc[q]
      BY DEF TypeOK
    <3>5. QED
      BY <3>1, <3>2, <3>3, <3>4 DEF CloserAlone, Closing
  <2>4. CASE vn_refcount[m] # 1
    BY <2>4 DEF CloserAlone, TypeOK, Closing, LastReference
  <2>5. QED
    BY <2>3, <2>4
<1>6. RefsCounted'
  <2> SUFFICES ASSUME NEW n \in Nodes PROVE Counted(n)'
    BY DEF RefsCounted, Counted
  <2>1. Descriptors(n)' = Descriptors(n) /\ InCall(n)' = InCall(n)
    BY DEF Descriptors, InCall, TypeOK
  <2>2. QED
    BY <2>1, CountedSame DEF RefsCounted, Counted
<1>7. QED
  BY <1>1, <1>2, <1>3, <1>4, <1>5, <1>6

(* The slots of the global table that are in use are finitely many.        *)
LEMMA SlotsFinite ==
  /\ IsFiniteSet(Slots) /\ Cardinality(Slots) = MAX_GLOBAL_TABLE_SIZE
  /\ IsFiniteSet({i \in Slots : global[i] # NULL})
<1>1. IsFiniteSet(Slots) /\ Cardinality(Slots) = MAX_GLOBAL_TABLE_SIZE
  BY FileTableConstants, FS_Interval DEF Slots
<1>2. {i \in Slots : global[i] # NULL} \subseteq Slots
  OBVIOUS
<1>3. QED
  BY <1>1, <1>2, FS_Subset

(* A finished file_destroy leaves its caller's variables well typed.       *)
LEMMA ContinueType ==
  ASSUME TypeOK, NEW p \in Procs, Continue(p)
  PROVE  pc' \in [Procs -> Places] /\ arg' \in [Procs -> Args]
<1>1. arg \in [Procs -> Args] /\ pc \in [Procs -> Places]
  BY DEF TypeOK
<1>2. PICK a \in Args : a = arg[p]
  BY <1>1
<1>3. [NoArg EXCEPT !.old = a.old, !.new = a.new] \in Args
  BY NoArgType DEF Args
<1>4. a.ret \in Places
  BY DEF Args, Places
<1>5. QED
  BY <1>1, <1>2, <1>3, <1>4 DEF Continue, Goto

(* The last close: nothing else leads to the File that is freed.           *)
LEMMA RemoveStep ==
  ASSUME IInv, NEW p \in Procs, file_destroy_remove(p)
  PROVE  IInv'
<1> USE FileTableConstants DEF IInv, file_destroy_remove, Goto
<1> DEFINE used == {i \in Slots : global[i] # NULL}
<1>0. PICK n \in Nodes, f \in Files : n = arg[p].node /\ f = arg[p].file
  BY DEF ArgsCurrent, Closing
<1>1. node_of[f] = n /\ p \in InCall(n)
  BY <1>0 DEF ArgsCurrent, Closing, InCall
<1>2. PICK i \in Slots : global[i] = f
  BY <1>1 DEF FilesListed
<1>3. /\ global' = [j \in Slots |-> IF global[j] = f THEN NULL ELSE global[j]]
      /\ global_open' = global_open - 1
  BY <1>0, <1>2 DEF CloseSlot
<1>4. used' = used \ {i} /\ i \in used
  BY <1>1, <1>2, <1>3 DEF FilesListed
<1>5. GlobalCountExact' /\ global_open >= 1
  <2>1. IsFiniteSet(used)
    BY SlotsFinite
  <2>2. Cardinality(used') = Cardinality(used) - 1 /\ Cardinality(used) >= 1
    BY <1>4, <2>1, CountOne
  <2>3. QED
    BY <1>3, <2>2 DEF GlobalCountExact
<1>6. FilesListed'
  BY <1>0, <1>1, <1>3 DEF FilesListed, TypeOK
<1>7. \A q \in Procs : q # p => pc'[q] = pc[q] /\ arg'[q] = arg[q]
  BY DEF Continue, TypeOK
<1>8. \A q \in Procs : q # p => pc[q] \notin {"remove", "drop"}
  BY DEF ArgsCurrent
<1>9. /\ pc'[p] = arg[p].ret /\ arg[p].ret \in {"user", "dup", "closing"}
      /\ arg'[p].old = arg[p].old /\ arg'[p].new = arg[p].new
      /\ arg'[p].desc = NULL
  BY DEF Continue, TypeOK, NoArg, Args
<1>10. \A q \in Procs, j \in Fds : local[q][j] \in Descs =>
         /\ file_of'[local[q][j]] = file_of[local[q][j]]
         /\ node_of'[file_of[local[q][j]]] = node_of[file_of[local[q][j]]]
  BY <1>0, <1>1 DEF CloserAlone, ArgsCurrent, Closing, Allocated, TypeOK
<1>11. CloserAlone' /\ Allocated'
  BY <1>7, <1>8, <1>9, <1>10 DEF CloserAlone, Allocated
<1>12. RefsCounted' /\ vn_refcount[n] >= 1
  <2> SUFFICES ASSUME NEW m \in Nodes
               PROVE  Counted(m)' /\ (m = n => vn_refcount[m] >= 1)
    BY <1>1 DEF RefsCounted, Counted
  <2>1. Descriptors(m)' = Descriptors(m)
    BY <1>10, <1>11, DescriptorsSame DEF Leads
  <2>2. CASE m # n
    <3>1. InCall(m)' = InCall(m)
      BY <1>0, <1>7, <1>9, <2>2 DEF InCall
    <3>2. vn_refcount'[m] = vn_refcount[m]
      BY <1>0, <2>2 DEF TypeOK
    <3>3. QED
      BY <2>1, <2>2, <3>1, <3>2, CountedSame DEF RefsCounted, Counted
  <2>3. CASE m = n
    <3>1. InCall(n)' = InCall(n) \ {p}
      BY <1>0, <1>7, <1>9 DEF InCall
    <3>2. vn_refcount'[n] = vn_refcount[n] - 1 /\ vn_refcount[n] \in Nat
      BY <1>0 DEF TypeOK
    <3>3. Counted(n)
      BY <1>1 DEF RefsCounted, Counted
    <3>4. QED
      BY <1>1, <2>1, <2>3, <3>1, <3>2, <3>3, CountedReturn
  <2>4. QED
    BY <2>2, <2>3
<1>13. TypeOK'
  <2>1. /\ global' \in [Slots -> Files \cup {NULL}]
        /\ global_open' \in 0 .. MAX_GLOBAL_TABLE_SIZE
    BY <1>3, <1>5 DEF TypeOK
  <2>2. vn_refcount' \in [Nodes -> Nat]
    <3>1. vn_refcount' = [vn_refcount EXCEPT ![n] = @ - 1]
      BY <1>0
    <3>2. QED
      BY <1>12, <3>1 DEF TypeOK
  <2>3. /\ file_of' \in [Descs -> Files \cup {FREED}]
        /\ node_of' \in [Files -> Nodes \cup {FREED}]
    BY DEF TypeOK
  <2>4. QED
    BY <2>1, <2>2, <2>3, ContinueType DEF TypeOK
<1>14. ArgsCurrent'
  <2>1. \A q \in Procs : q # p /\ (pc[q] = "adding" \/ Closing(q)) =>
          /\ arg[q].file \in Files /\ node_of'[arg[q].file] = node_of[arg[q].file]
          /\ Closing(q) /\ arg[q].desc # NULL =>
               file_of'[arg[q].desc] = file_of[arg[q].desc]
    BY <1>0, <1>1 DEF CloserAlone, ArgsCurrent, Closing, TypeOK, Args
  <2>2. \A q \in Procs : Closing(q)' <=> q # p /\ Closing(q)
    BY <1>7, <1>9 DEF Closing
  <2>3. global_lk' = NULL /\ local' = local
    OBVIOUS
  <2>4. QED
    BY <1>7, <1>8, <1>9, <2>1, <2>2, <2>3 DEF ArgsCurrent, Closing
<1>15. TablesKept'
  BY <1>7, <1>9 DEF TablesKept
<1>16. QED
  BY <1>5, <1>6, <1>11, <1>12, <1>13, <1>14, <1>15

(* A close that is not the last one only gives its reference back.         *)
LEMMA DropStep ==
  ASSUME IInv, NEW p \in Procs, file_destroy_drop(p)
  PROVE  IInv'
<1> USE FileTableConstants DEF IInv, file_destroy_drop, Goto, heap
<1>0. PICK n \in Nodes : n = arg[p].node /\ p \in InCall(n)
  BY DEF ArgsCurrent, Closing, InCall
<1>1. \A q \in Procs : q # p => pc'[q] = pc[q] /\ arg'[q] = arg[q]
  BY DEF Continue, TypeOK
<1>2. \A q \in Procs : q # p => pc[q] \notin {"remove", "drop"}
  BY DEF ArgsCurrent
<1>3. /\ pc'[p] = arg[p].ret /\ arg[p].ret \in {"user", "dup", "closing"}
      /\ arg'[p].old = arg[p].old /\ arg'[p].new = arg[p].new
      /\ arg'[p].desc = NULL
  BY DEF Continue, TypeOK, NoArg, Args
<1>4. GlobalCountExact' /\ FilesListed' /\ Allocated'
  BY DEF GlobalCountExact, FilesListed, Allocated
<1>5. CloserAlone'
  BY <1>1, <1>2, <1>3 DEF CloserAlone
<1>6. RefsCounted' /\ vn_refcount[n] >= 1
  <2> SUFFICES ASSUME NEW m \in Nodes
               PROVE  Counted(m)' /\ (m = n => vn_refcount[m] >= 1)
    BY <1>0 DEF RefsCounted, Counted
  <2>1. Descriptors(m)' = Descriptors(m)
    BY DEF Descriptors
  <2>2. CASE m # n
    <3>1. InCall(m)' = InCall(m)
      BY <1>0, <1>1, <1>3, <2>2 DEF InCall
    <3>2. vn_refcount'[m] = vn_refcount[m]
      BY <1>0, <2>2 DEF TypeOK
    <3>3. QED
      BY <2>1, <2>2, <3>1, <3>2, CountedSame DEF RefsCounted, Counted
  <2>3. CASE m = n
    <3>1. InCall(n)' = InCall(n) \ {p}
      BY <1>0, <1>1, <1>3 DEF InCall
    <3>2. vn_refcount'[n] = vn_refcount[n] - 1 /\ vn_refcount[n] \in Nat
      BY <1>0 DEF TypeOK
    <3>3. Counted(n)
      BY <1>0 DEF RefsCounted, Counted
    <3>4. QED
      BY <1>0, <2>1, <2>3, <3>1, <3>2, <3>3, CountedReturn
  <2>4. QED
    BY <2>2, <2>3
<1>7. TypeOK'
  <2>1. vn_refcount' = [vn_refcount EXCEPT ![n] = @ - 1]
    BY <1>0
  <2>2. vn_refcount' \in [Nodes -> Nat]
    BY <1>6, <2>1 DEF TypeOK
  <2>3. QED
    BY <2>2, ContinueType DEF TypeOK
<1>8. ArgsCurrent'
  <2>1. \A q \in Procs : Closing(q)' <=> q # p /\ Closing(q)
    BY <1>1, <1>3 DEF Closing
  <2>2. global_lk' = NULL /\ local' = local
    OBVIOUS
  <2>3. QED
    BY <1>1, <1>2, <1>3, <2>1, <2>2 DEF ArgsCurrent, Closing
<1>9. TablesKept'
  BY <1>1, <1>3 DEF TablesKept
<1>10. QED
  BY <1>4, <1>5, <1>6, <1>7, <1>8, <1>9

(* A call takes a reference.                                               *)
LEMMA CountedCall ==
  ASSUME TypeOK, NEW n \in Nodes, Counted(n), NEW p,
         vn_refcount'[n] = vn_refcount[n] + 1, Descriptors(n)' = Descriptors(n),
         InCall(n)' = InCall(n) \cup {p}, (loading \cap {n})' = loading \cap {n}
  PROVE  Counted(n)'
<1>1. /\ Cardinality(Descriptors(n)) \in Nat /\ Cardinality(InCall(n)) \in Nat
      /\ Cardinality(loading \cap {n}) \in Nat /\ vn_refcount[n] \in Nat
  BY UsesFinite DEF TypeOK
<1>2. /\ Cardinality(InCall(n))' <= Cardinality(InCall(n)) + 1
      /\ Cardinality(InCall(n))' \in Nat
  BY UsesFinite, CountOne
<1>3. /\ Cardinality(Descriptors(n))' = Cardinality(Descriptors(n))
      /\ Cardinality(loading \cap {n})' = Cardinality(loading \cap {n})
  OBVIOUS
<1>4. QED
  BY <1>1, <1>2, <1>3 DEF Counted

(* vfs_open, in the middle of another's last close or not.                 *)
LEMMA OpenStep ==
  ASSUME IInv, NEW p \in Procs, NEW n \in Nodes, sys_open(p, n)
  PROVE  IInv'
<1> USE FileTableConstants DEF IInv, sys_open, Goto, heap, gtable
<1>1. \A q \in Procs : q # p => pc'[q] = pc[q] /\ arg'[q] = arg[q]
  BY DEF TypeOK
<1>2. pc'[p] = "opened" /\ arg'[p].node = n /\ pc[p] = "user"
  BY DEF TypeOK
<1>3. GlobalCountExact' /\ FilesListed' /\ Allocated'
  BY DEF GlobalCountExact, FilesListed, Allocated
<1>4. CloserAlone'
  BY <1>1, <1>2 DEF CloserAlone, Closing
<1>5. RefsCounted'
  <2> SUFFICES ASSUME NEW m \in Nodes PROVE Counted(m)'
    BY DEF RefsCounted, Counted
  <2>1. Descriptors(m)' = Descriptors(m) /\ Counted(m)
    BY DEF Descriptors, RefsCounted, Counted
  <2>2. CASE m # n
    <3>1. InCall(m)' = InCall(m)
      BY <1>1, <1>2, <2>2 DEF InCall
    <3>2. vn_refcount'[m] = vn_refcount[m]
      BY <2>2 DEF TypeOK
    <3>3. QED
      BY <2>1, <3>1, <3>2, CountedSame
  <2>3. CASE m = n
    <3>1. InCall(n)' = InCall(n) \cup {p}
      BY <1>1, <1>2 DEF InCall
    <3>2. vn_refcount'[n] = vn_refcount[n] + 1
      BY DEF TypeOK
    <3>3. QED
      BY <2>1, <2>3, <3>1, <3>2, CountedCall
  <2>4. QED
    BY <2>2, <2>3
<1>6. TypeOK'
  <2>1. PICK a \in Args : a = arg[p]
    BY DEF TypeOK
  <2>2. [a EXCEPT !.node = n] \in Args /\ "opened" \in Places
    BY DEF Args, Places
  <2>3. QED
    BY <2>1, <2>2 DEF TypeOK
<1>7. ArgsCurrent'
  BY <1>1, <1>2 DEF ArgsCurrent, Closing
<1>8. TablesKept'
  BY <1>1, <1>2 DEF TablesKept
<1>9. QED
  BY <1>3, <1>4, <1>5, <1>6, <1>7, <1>8

(* global_table_open_file returns an error.                                *)
LEMMA OpenFileErrorStep ==
  ASSUME IInv, NEW p \in Procs, pc[p] = "opened", global_lk = NULL, Return(p),
         UNCHANGED <<local, num_open_files, global, global_open, global_lk, file_of,
                     node_of, vn_refcount, loading>>
  PROVE  IInv'
<1> USE FileTableConstants DEF IInv, Return, Goto
<1>0. PICK n \in Nodes : n = arg[p].node /\ p \in InCall(n)
  BY DEF ArgsCurrent, InCall
<1>1. \A q \in Procs : q # p => pc'[q] = pc[q] /\ arg'[q] = arg[q]
  BY DEF TypeOK
<1>2. pc'[p] = "user" /\ arg'[p] = NoArg
  BY DEF TypeOK
<1>3. GlobalCountExact' /\ FilesListed' /\ Allocated'
  BY DEF GlobalCountExact, FilesListed, Allocated
<1>4. CloserAlone'
  BY <1>1, <1>2 DEF CloserAlone, ArgsCurrent
<1>5. RefsCounted'
  <2> SUFFICES ASSUME NEW m \in Nodes PROVE Counted(m)'
    BY DEF RefsCounted, Counted
  <2>1. Descriptors(m)' = Descriptors(m) /\ Counted(m) /\ vn_refcount[m] \in Nat
    BY DEF Descriptors, RefsCounted, Counted, TypeOK
  <2>2. CASE m # n
    <3>1. InCall(m)' = InCall(m)
      BY <1>0, <1>1, <1>2, <2>2 DEF InCall
    <3>2. QED
      BY <2>1, <3>1, CountedSame
  <2>3. CASE m = n
    <3>1. InCall(n)' = InCall(n) \ {p}
      BY <1>0, <1>1, <1>2 DEF InCall
    <3>2. vn_refcount'[n] >= vn_refcount[n] - 1
      BY <2>1, <2>3
    <3>3. QED
      BY <1>0, <2>1, <2>3, <3>1, <3>2, CountedReturn
  <2>4. QED
    BY <2>2, <2>3
<1>6. TypeOK'
  BY NoArgType DEF TypeOK, Places
<1>7. ArgsCurrent'
  BY <1>1, <1>2 DEF ArgsCurrent, Closing
<1>8. TablesKept'
  BY <1>1, <1>2 DEF TablesKept
<1>9. QED
  BY <1>3, <1>4, <1>5, <1>6, <1>7, <1>8

(* The File of the vnode, found in the table or put there by this step: p  *)
(* goes on with it.                                                        *)
LEMMA OpenFileFoundStep ==
  ASSUME IInv, NEW p \in Procs, NEW n, n = arg[p].node, NEW f \in Files,
         pc[p] = "opened", global_lk = NULL,
         pc' = [pc EXCEPT ![p] = "adding"], arg' = [arg EXCEPT ![p].file = f],
         UNCHANGED <<local, num_open_files, global_lk, file_of, vn_refcount, loading>>,
         global' \in [Slots -> Files \cup {NULL}],
         global_open' \in 0 .. MAX_GLOBAL_TABLE_SIZE,
         node_of' \in [Files -> Nodes \cup {FREED}],
         node_of'[f] = n, \A g \in Files : node_of[g] # FREED => node_of'[g] = node_of[g],
         GlobalCountExact', FilesListed'
  PROVE  IInv'
<1> USE FileTableConstants DEF IInv
<1>0. n \in Nodes
  BY DEF ArgsCurrent
<1>1. \A q \in Procs : q # p => pc'[q] = pc[q] /\ arg'[q] = arg[q]
  BY DEF TypeOK
<1>2. /\ pc'[p] = "adding" /\ arg'[p].node = n /\ arg'[p].file = f
      /\ arg'[p].desc = arg[p].desc
  BY DEF TypeOK, Args
<1>3. \A q \in Procs, i \in Fds : local[q][i] \in Descs =>
        node_of'[file_of[local[q][i]]] = node_of[file_of[local[q][i]]]
  BY DEF Allocated
<1>4. Allocated'
  BY <1>3 DEF Allocated
<1>5. CloserAlone'
  BY <1>1, <1>2 DEF CloserAlone, ArgsCurrent
<1>6. RefsCounted'
  <2> SUFFICES ASSUME NEW m \in Nodes PROVE Counted(m)'
    BY DEF RefsCounted, Counted
  <2>1. Descriptors(m)' = Descriptors(m)
    BY <1>3, <1>4, DescriptorsSame DEF Leads
  <2>2. InCall(m)' = InCall(m)
    BY <1>1, <1>2 DEF InCall
  <2>3. QED
    BY <2>1, <2>2, CountedSame DEF RefsCounted, Counted
<1>7. TypeOK'
  <2>1. PICK a \in Args : a = arg[p]
    BY DEF TypeOK
  <2>2. [a EXCEPT !.file = f] \in Args /\ "adding" \in Places
    BY DEF Args, Places
  <2>3. QED
    BY <2>1, <2>2 DEF TypeOK
<1>8. ArgsCurrent'
  BY <1>0, <1>1, <1>2 DEF ArgsCurrent, Closing
<1>9. TablesKept'
  BY <1>1, <1>2 DEF TablesKept
<1>10. QED
  BY <1>4, <1>5, <1>6, <1>7, <1>8, <1>9

(* A table that is not full has an empty slot, and a new File fits.        *)
LEMMA NewFileStep ==
  ASSUME IInv, NEW p \in Procs, NEW n \in Nodes, NEW f \in Files,
         global_open # MAX_GLOBAL_TABLE_SIZE, OpenFiles(n) = {},
         node_of[f] = FREED, node_of' = [node_of EXCEPT ![f] = n],
         global' = [global EXCEPT ![FirstFree(EmptySlots)] = f],
         global_open' = global_open + 1
  PROVE  /\ global' \in [Slots -> Files \cup {NULL}]
         /\ global_open' \in 0 .. MAX_GLOBAL_TABLE_SIZE
         /\ node_of' \in [Files -> Nodes \cup {FREED}]
         /\ GlobalCountExact' /\ FilesListed'
<1> USE FileTableConstants DEF IInv
<1> DEFINE used == {i \in Slots : global[i] # NULL}
<1>1. EmptySlots # {}
  <2> SUFFICES ASSUME EmptySlots = {} PROVE FALSE
    OBVIOUS
  <2>1. used = Slots
    BY DEF EmptySlots
  <2>2. QED
    BY <2>1, SlotsFinite DEF GlobalCountExact
<1>2. PICK i : i = FirstFree(EmptySlots)
  OBVIOUS
<1>3. i \in Slots /\ global[i] = NULL
  <2>1. EmptySlots \in SUBSET Nat
    BY DEF EmptySlots, Slots
  <2>2. FirstFree(EmptySlots) \in EmptySlots
    BY <1>1, <2>1, FirstFreeLemma
  <2>3. QED
    BY <1>2, <2>2 DEF EmptySlots
<1>4. global' = [global EXCEPT ![i] = f]
  BY <1>2
<1>5. GlobalCountExact'
  <2>1. used' = used \cup {i} /\ i \notin used
    BY <1>3, <1>4 DEF TypeOK
  <2>2. Cardinality(used') = Cardinality(used) + 1
    BY <2>1, SlotsFinite, CountOne
  <2>3. QED
    BY <2>2 DEF GlobalCountExact
<1>6. FilesListed'
  <2>1. \A g \in Files : node_of[g] # n
    BY DEF OpenFiles, FilesListed
  <2>2. \A j \in Slots : global[j] # f
    BY DEF FilesListed
  <2>3. QED
    BY <1>3, <1>4, <2>1, <2>2 DEF FilesListed, TypeOK
<1>7. QED
  BY <1>3, <1>4, <1>5, <1>6 DEF TypeOK

(* global_table_open_file.                                                 *)
LEMMA OpenFileStep ==
  ASSUME IInv, NEW p \in Procs, global_table_open_file(p)
  PROVE  IInv'
<1> USE FileTableConstants DEF IInv, global_table_open_file, Goto
<1>0. PICK n \in Nodes : n = arg[p].node
  BY DEF ArgsCurrent
<1>1. CASE Return(p) /\ UNCHANGED <<global, global_open, node_of>>
  BY <1>1, OpenFileErrorStep
<1>2. ASSUME NEW f \in OpenFiles(n), arg' = [arg EXCEPT ![p].file = f],
             pc' = [pc EXCEPT ![p] = "adding"],
             UNCHANGED <<global, global_open, node_of>>
      PROVE  IInv'
  <2>1. f \in Files /\ node_of[f] = n
    BY DEF OpenFiles
  <2>2. GlobalCountExact' /\ FilesListed'
    BY <1>2 DEF GlobalCountExact, FilesListed
  <2>3. QED
    BY <1>0, <1>2, <2>1, <2>2, OpenFileFoundStep DEF TypeOK
<1>3. ASSUME NEW f \in Files, node_of[f] = FREED, OpenFiles(n) = {},
             global_open # MAX_GLOBAL_TABLE_SIZE,
             node_of' = [node_of EXCEPT ![f] = n],
             global' = [global EXCEPT ![FirstFree(EmptySlots)] = f],
             arg' = [arg EXCEPT ![p].file = f], global_open' = global_open + 1,
             pc' = [pc EXCEPT ![p] = "adding"]
      PROVE  IInv'
  <2>1. /\ global' \in [Slots -> Files \cup {NULL}]
        /\ global_open' \in 0 .. MAX_GLOBAL_TABLE_SIZE
        /\ node_of' \in [Files -> Nodes \cup {FREED}]
        /\ GlobalCountExact' /\ FilesListed'
    BY <1>3, NewFileStep
  <2>2. node_of'[f] = n /\ \A g \in Files : node_of[g] # FREED => node_of'[g] = node_of[g]
    BY <1>3 DEF TypeOK
  <2>3. QED
    BY <1>0, <1>3, <2>1, <2>2, OpenFileFoundStep
<1>4. QED
  BY <1>0, <1>1, <1>2, <1>3

(* A reference moves from a call to a slot, ...                            *)
LEMMA CountedAdd ==
  ASSUME TypeOK, NEW n \in Nodes, Counted(n), NEW p \in InCall(n), NEW x,
         vn_refcount'[n] = vn_refcount[n],
         Descriptors(n)' = Descriptors(n) \cup {x}, x \notin Descriptors(n),
         InCall(n)' = InCall(n) \ {p}, (loading \cap {n})' = loading \cap {n}
  PROVE  Counted(n)'
<1>1. /\ Cardinality(Descriptors(n)) \in Nat /\ Cardinality(InCall(n)) \in Nat
      /\ Cardinality(loading \cap {n}) \in Nat /\ vn_refcount[n] \in Nat
  BY UsesFinite DEF TypeOK
<1>2. Cardinality(InCall(n))' = Cardinality(InCall(n)) - 1
  BY UsesFinite, CountOne
<1>3. Cardinality(Descriptors(n))' = Cardinality(Descriptors(n)) + 1
  BY UsesFinite, CountOne
<1>4. Cardinality(loading \cap {n})' = Cardinality(loading \cap {n})
  OBVIOUS
<1>5. QED
  BY <1>1, <1>2, <1>3, <1>4 DEF Counted

(* ... from a slot to a call, ...                                          *)
LEMMA CountedClose ==
  ASSUME TypeOK, NEW n \in Nodes, Counted(n), NEW p, NEW x \in Descriptors(n),
         vn_refcount'[n] = vn_refcount[n],
         Descriptors(n)' = Descriptors(n) \ {x},
         InCall(n)' = InCall(n) \cup {p}, (loading \cap {n})' = loading \cap {n}
  PROVE  Counted(n)'
<1>1. /\ Cardinality(Descriptors(n)) \in Nat /\ Cardinality(InCall(n)) \in Nat
      /\ Cardinality(loading \cap {n}) \in Nat /\ vn_refcount[n] \in Nat
  BY UsesFinite DEF TypeOK
<1>2. /\ Cardinality(InCall(n))' <= Cardinality(InCall(n)) + 1
      /\ Cardinality(InCall(n))' \in Nat
  BY UsesFinite, CountOne
<1>3. Cardinality(Descriptors(n))' = Cardinality(Descriptors(n)) - 1
  BY UsesFinite, CountOne
<1>4. Cardinality(loading \cap {n})' = Cardinality(loading \cap {n})
  OBVIOUS
<1>5. QED
  BY <1>1, <1>2, <1>3, <1>4 DEF Counted

(* ... or a slot gets one of its own.                                      *)
LEMMA CountedDup ==
  ASSUME TypeOK, NEW n \in Nodes, Counted(n), NEW x,
         vn_refcount'[n] = vn_refcount[n] + 1,
         Descriptors(n)' = Descriptors(n) \cup {x},
         InCall(n)' = InCall(n), (loading \cap {n})' = loading \cap {n}
  PROVE  Counted(n)'
<1>1. /\ Cardinality(Descriptors(n)) \in Nat /\ Cardinality(InCall(n)) \in Nat
      /\ Cardinality(loading \cap {n}) \in Nat /\ vn_refcount[n] \in Nat
  BY UsesFinite DEF TypeOK
<1>2. /\ Cardinality(Descriptors(n))' <= Cardinality(Descriptors(n)) + 1
      /\ Cardinality(Descriptors(n))' \in Nat
  BY UsesFinite, CountOne
<1>3. /\ Cardinality(InCall(n))' = Cardinality(InCall(n))
      /\ Cardinality(loading \cap {n})' = Cardinality(loading \cap {n})
  OBVIOUS
<1>4. QED
  BY <1>1, <1>2, <1>3 DEF Counted

(* The new descriptor goes to an empty slot, which is not one that is kept *)
(* for a standard descriptor.                                              *)
LEMMA AddFileStep ==
  ASSUME IInv, NEW p \in Procs, local_table_add_file(p)
  PROVE  IInv'
<1> USE FileTableConstants DEF IInv, local_table_add_file, Return, Goto, gtable
<1>0. PICK n \in Nodes, f \in Files :
        n = arg[p].node /\ f = arg[p].file /\ node_of[f] = n /\ p \in InCall(n)
  BY DEF ArgsCurrent, InCall
<1>1. PICK i : i = FirstFree(EmptyFds(p))
  OBVIOUS
<1>2. PICK d \in Descs :
        /\ Unused(d)
        /\ file_of' = [file_of EXCEPT ![d] = f]
        /\ local' = [local EXCEPT ![p][i] = d]
  BY <1>0, <1>1
<1>3. i \in Fds /\ local[p][i] = NULL
  <2>1. EmptyFds(p) \in SUBSET Nat
    BY DEF EmptyFds, Fds
  <2>2. FirstFree(EmptyFds(p)) \in EmptyFds(p)
    BY <2>1, FirstFreeLemma
  <2>3. QED
    BY <1>1, <2>2 DEF EmptyFds
<1>4. \A q \in Procs : q # p => pc'[q] = pc[q] /\ arg'[q] = arg[q]
  BY DEF TypeOK
<1>5. pc'[p] = "user" /\ arg'[p] = NoArg
  BY DEF TypeOK
<1>6. \A q \in Procs, j \in Fds :
        IF q = p /\ j = i THEN local'[q][j] = d
        ELSE local'[q][j] = local[q][j] /\ local[q][j] # d
  BY <1>2, <1>3 DEF TypeOK, Unused
<1>7. file_of'[d] = f /\ \A e \in Descs : e # d => file_of'[e] = file_of[e]
  BY <1>2 DEF TypeOK
<1>8. GlobalCountExact' /\ FilesListed'
  BY DEF GlobalCountExact, FilesListed
<1>9. Allocated'
  BY <1>0, <1>6, <1>7 DEF Allocated
<1>10. CloserAlone'
  BY <1>0, <1>4, <1>5, <1>6, <1>7 DEF CloserAlone, Closing
<1>11. RefsCounted'
  <2> SUFFICES ASSUME NEW m \in Nodes PROVE Counted(m)'
    BY DEF RefsCounted, Counted
  <2>1. Counted(m) /\ vn_refcount'[m] = vn_refcount[m]
    BY DEF RefsCounted, Counted
  <2>2. \A q \in Procs, j \in Fds :
          <<q, j>> # <<p, i>> => (Leads(q, j, m)' <=> Leads(q, j, m))
    BY <1>6, <1>7 DEF Leads
  <2>3. ~ Leads(p, i, m) /\ (Leads(p, i, m)' <=> m = n)
    BY <1>0, <1>3, <1>6, <1>7 DEF Leads
  <2>4. CASE m # n
    <3>1. InCall(m)' = InCall(m)
      BY <1>0, <1>4, <1>5, <2>4 DEF InCall
    <3>2. Descriptors(m)' = Descriptors(m)
      BY <1>9, <2>2, <2>3, <2>4, DescriptorsSame
    <3>3. QED
      BY <2>1, <3>1, <3>2, CountedSame
  <2>5. CASE m = n
    <3>1. InCall(n)' = InCall(n) \ {p}
      BY <1>0, <1>4, <1>5 DEF InCall
    <3>2. /\ Descriptors(m)' = Descriptors(m) \cup {<<p, i>>}
          /\ <<p, i>> \notin Descriptors(m)
      BY <1>3, <1>9, <2>2, <2>3, <2>5, DescriptorsMore
    <3>3. QED
      BY <1>0, <2>1, <2>5, <3>1, <3>2, CountedAdd
  <2>6. QED
    BY <2>4, <2>5
<1>12. TypeOK'
  BY <1>2, <1>3, NoArgType DEF TypeOK, Places
<1>13. ArgsCurrent'
  <2>1. \A q \in Procs : arg[q].desc # d
    BY <1>2 DEF Unused
  <2>2. \A q \in Procs : arg[q] \in Args
    BY DEF TypeOK
  <2>3. \A q \in Procs : arg[q].desc \in Descs \cup {NULL} /\ arg[q].old \in Fds /\ arg[q].new \in Fds
    BY <2>2 DEF Args
  <2>4. \A q \in Procs : q # p => (Closing(q)' <=> Closing(q))
    BY <1>4 DEF Closing
  <2>5. \A q \in Procs : q # p => \A j \in Fds : local'[q][j] = local[q][j]
    BY <1>6
  <2>6. QED
    BY <1>4, <1>5, <1>7, <2>1, <2>3, <2>4, <2>5 DEF ArgsCurrent, Closing
<1>14. TablesKept'
  BY <1>4, <1>5, <1>6 DEF TablesKept
<1>15. QED
  BY <1>8, <1>9, <1>10, <1>11, <1>12, <1>13, <1>14

(* sys_open gives its reference back by way of file_destroy.               *)
LEMMA AddFailsStep ==
  ASSUME IInv, NEW p \in Procs, local_table_add_file_fails(p)
  PROVE  IInv'
<1> USE FileTableConstants DEF IInv, local_table_add_file_fails, Goto, heap, gtable
<1>0. PICK n \in Nodes, f \in Files :
        n = arg[p].node /\ f = arg[p].file /\ node_of[f] = n
  BY DEF ArgsCurrent
<1>1. PICK a : a = [NoArg EXCEPT !.node = n, !.file = f, !.desc = NULL, !.ret = "user"]
  OBVIOUS
<1>2. pc' = [pc EXCEPT ![p] = "destroy"] /\ arg' = [arg EXCEPT ![p] = a]
  BY <1>0, <1>1 DEF Destroy, NodeOf
<1>3. a \in Args
  BY <1>1, NoArgType DEF Args
<1>4. a.node = n /\ a.file = f /\ a.desc = NULL /\ a.ret = "user"
  BY <1>1 DEF NoArg
<1> HIDE DEF local_table_add_file_fails
<1>5. \A q \in Procs : q # p => pc'[q] = pc[q] /\ arg'[q] = arg[q]
  BY <1>2 DEF TypeOK
<1>6. pc'[p] = "destroy" /\ arg'[p] = a /\ pc[p] = "adding"
  BY <1>2 DEF TypeOK, local_table_add_file_fails
<1>7. UNCHANGED <<local, num_open_files, gtable, heap, vn_refcount, loading>>
  BY DEF local_table_add_file_fails
<1>8. GlobalCountExact' /\ FilesListed' /\ Allocated'
  BY <1>7 DEF GlobalCountExact, FilesListed, Allocated
<1>9. CloserAlone'
  BY <1>0, <1>4, <1>5, <1>6, <1>7 DEF CloserAlone, Closing
<1>10. RefsCounted'
  <2> SUFFICES ASSUME NEW m \in Nodes PROVE Counted(m)'
    BY DEF RefsCounted, Counted
  <2>1. Descriptors(m)' = Descriptors(m) /\ InCall(m)' = InCall(m)
    BY <1>0, <1>4, <1>5, <1>6, <1>7 DEF Descriptors, InCall
  <2>2. QED
    BY <1>7, <2>1, CountedSame DEF RefsCounted, Counted
<1>11. TypeOK'
  BY <1>2, <1>3, <1>7 DEF TypeOK, Places
<1>12. ArgsCurrent'
  BY <1>0, <1>4, <1>5, <1>6, <1>7 DEF ArgsCurrent, Closing
<1>13. TablesKept'
  BY <1>5, <1>6, <1>7 DEF TablesKept
<1>14. QED
  BY <1>8, <1>9, <1>10, <1>11, <1>12, <1>13

----------------------------------------------------------------------------

(* A slot with an ordinary descriptor is cleared and its reference handed  *)
(* to file_destroy, by close, dup2 or exit.                                *)
LEMMA CloseSlotStep ==
  ASSUME IInv, NEW p \in Procs, pc[p] \in {"user", "closing"},
         NEW i \in Fds, NEW d \in Descs, local[p][i] = d,
         local' = [local EXCEPT ![p][i] = NULL],
         num_open_files' \in [Procs -> Int],
         NEW a \in Args, pc' = [pc EXCEPT ![p] = "destroy"],
         arg' = [arg EXCEPT ![p] = a],
         a.node = node_of[file_of[d]], a.file = file_of[d], a.desc = d,
         a.ret = "dup" => /\ a.old \in Fds /\ local[p][a.old] # NULL
                          /\ a.old # i /\ a.new = i /\ i \in TargetFds,
         UNCHANGED <<gtable, heap, vn_refcount, loading>>
  PROVE  IInv'
<1> USE FileTableConstants DEF IInv, gtable, heap
<1>0. PICK n \in Nodes, f \in Files : f = file_of[d] /\ n = node_of[f]
  BY DEF Allocated
<1>1. \A q \in Procs : q # p => pc'[q] = pc[q] /\ arg'[q] = arg[q]
  BY DEF TypeOK
<1>2. pc'[p] = "destroy" /\ arg'[p] = a
  BY DEF TypeOK
<1>3. \A q \in Procs, j \in Fds :
        local'[q][j] = IF q = p /\ j = i THEN NULL ELSE local[q][j]
  BY DEF TypeOK
<1>4. GlobalCountExact' /\ FilesListed'
  BY DEF GlobalCountExact, FilesListed
<1>5. Allocated'
  BY <1>3 DEF Allocated
<1>6. CloserAlone'
  BY <1>0, <1>1, <1>2, <1>3 DEF CloserAlone, Closing
<1>7. RefsCounted'
  <2> SUFFICES ASSUME NEW m \in Nodes PROVE Counted(m)'
    BY DEF RefsCounted, Counted
  <2>1. Counted(m) /\ vn_refcount'[m] = vn_refcount[m]
    BY DEF RefsCounted, Counted
  <2>2. \A q \in Procs, j \in Fds :
          <<q, j>> # <<p, i>> => (Leads(q, j, m)' <=> Leads(q, j, m))
    BY <1>3 DEF Leads
  <2>3. ~ Leads(p, i, m)' /\ (Leads(p, i, m) <=> m = n)
    BY <1>0, <1>3 DEF Leads
  <2>4. CASE m # n
    <3>1. InCall(m)' = InCall(m)
      BY <1>0, <1>1, <1>2, <2>4 DEF InCall
    <3>2. Descriptors(m)' = Descriptors(m)
      BY <1>5, <2>2, <2>3, <2>4, DescriptorsSame
    <3>3. QED
      BY <2>1, <3>1, <3>2, CountedSame
  <2>5. CASE m = n
    <3>1. InCall(m)' = InCall(m) \cup {p}
      BY <1>0, <1>1, <1>2, <2>5 DEF InCall
    <3>2. /\ Descriptors(m)' = Descriptors(m) \ {<<p, i>>}
          /\ <<p, i>> \in Descriptors(m)
      BY <1>5, <2>2, <2>3, <2>5, DescriptorsLess
    <3>3. QED
      BY <2>1, <3>1, <3>2, CountedClose
  <2>6. QED
    BY <2>4, <2>5
<1>8. TypeOK'
  BY DEF TypeOK, Places
<1>9. ArgsCurrent'
  <2>1. \A q \in Procs : q # p => (Closing(q)' <=> Closing(q))
    BY <1>1 DEF Closing
  <2>2. \A q \in Procs : arg[q] \in Args
    BY DEF TypeOK
  <2>3. \A q \in Procs : arg[q].old \in Fds /\ arg[q].new \in Fds
    BY <2>2 DEF Args
  <2>4. Closing(p)' /\ pc[p] \notin {"remove", "drop"}
    BY <1>2 DEF Closing
  <2>5. \A q \in Procs : q # p => \A j \in Fds : local'[q][j] = local[q][j]
    BY <1>3
  <2>6. QED
    BY <1>0, <1>1, <1>2, <1>3, <2>1, <2>3, <2>4, <2>5 DEF ArgsCurrent
<1>10. TablesKept'
  BY <1>1, <1>2, <1>3 DEF TablesKept
<1>11. QED
  BY <1>4, <1>5, <1>6, <1>7, <1>8, <1>9, <1>10

(* Clearing a slot with a standard descriptor, or none, changes no count.  *)
LEMMA ClearSlotStep ==
  ASSUME IInv, NEW p \in Procs, pc[p] \in {"user", "closing"},
         NEW i \in Fds, local[p][i] \in {NULL, STD},
         local' = [local EXCEPT ![p][i] = NULL],
         num_open_files' \in [Procs -> Int],
         NEW a \in Args, NEW w \in {"user", "dup", "closing"},
         pc' = [pc EXCEPT ![p] = w], arg' = [arg EXCEPT ![p] = a],
         w = "dup" => /\ a.old \in Fds /\ local[p][a.old] # NULL
                      /\ a.old # i /\ a.new = i /\ i \in TargetFds,
         UNCHANGED <<gtable, heap, vn_refcount, loading>>
  PROVE  IInv'
<1> USE FileTableConstants DEF IInv, gtable, heap
<1>1. \A q \in Procs : q # p => pc'[q] = pc[q] /\ arg'[q] = arg[q]
  BY DEF TypeOK
<1>2. pc'[p] = w /\ arg'[p] = a
  BY DEF TypeOK
<1>3. \A q \in Procs, j \in Fds :
        local'[q][j] = IF q = p /\ j = i THEN NULL ELSE local[q][j]
  BY DEF TypeOK
<1>4. GlobalCountExact' /\ FilesListed'
  BY DEF GlobalCountExact, FilesListed
<1>5. Allocated'
  BY <1>3 DEF Allocated
<1>6. CloserAlone'
  BY <1>1, <1>2, <1>3 DEF CloserAlone, Closing
<1>7. RefsCounted'
  <2> SUFFICES ASSUME NEW m \in Nodes PROVE Counted(m)'
    BY DEF RefsCounted, Counted
  <2>1. \A q \in Procs, j \in Fds : Leads(q, j, m)' <=> Leads(q, j, m)
    BY <1>3 DEF Leads
  <2>2. Descriptors(m)' = Descriptors(m)
    BY <1>5, <2>1, DescriptorsSame
  <2>3. InCall(m)' = InCall(m)
    BY <1>1, <1>2 DEF InCall
  <2>4. QED
    BY <2>2, <2>3, CountedSame DEF RefsCounted, Counted
<1>8. TypeOK'
  BY DEF TypeOK, Places
<1>9. ArgsCurrent'
  <2>1. \A q \in Procs : q # p => (Closing(q)' <=> Closing(q))
    BY <1>1 DEF Closing
  <2>2. \A q \in Procs : arg[q] \in Args
    BY DEF TypeOK
  <2>3. \A q \in Procs : arg[q].old \in Fds /\ arg[q].new \in Fds
    BY <2>2 DEF Args
  <2>4. ~ Closing(p)' /\ pc[p] \notin {"remove", "drop"}
    BY <1>2 DEF Closing
  <2>5. \A q \in Procs : q # p => \A j \in Fds : local'[q][j] = local[q][j]
    BY <1>3
  <2>6. QED
    BY <1>1, <1>2, <1>3, <2>1, <2>3, <2>4, <2>5 DEF ArgsCurrent
<1>10. TablesKept'
  BY <1>1, <1>2, <1>3 DEF TablesKept
<1>11. QED
  BY <1>4, <1>5, <1>6, <1>7, <1>8, <1>9, <1>10

(* What Destroy notes of an ordinary descriptor.                           *)
LEMMA DestroyArgs ==
  ASSUME IInv, NEW p \in Procs, NEW q \in Procs, NEW i \in Fds, NEW d \in Descs,
         local[q][i] = d, NEW ret \in {"user", "closing"},
         Destroy(p, file_of[d], d, ret)
  PROVE  \E a \in Args :
           /\ pc' = [pc EXCEPT ![p] = "destroy"] /\ arg' = [arg EXCEPT ![p] = a]
           /\ a.node = node_of[file_of[d]] /\ a.file = file_of[d]
           /\ a.desc = d /\ a.ret = ret
<1> USE FileTableConstants DEF IInv
<1>0. PICK n \in Nodes, f \in Files : f = file_of[d] /\ n = node_of[f]
  BY DEF Allocated
<1>1. NodeOf(f) = n
  BY <1>0 DEF NodeOf
<1>2. PICK a : a = [NoArg EXCEPT !.node = n, !.file = f, !.desc = d, !.ret = ret]
  OBVIOUS
<1>3. a \in Args
  BY <1>2, NoArgType DEF Args
<1>4. a.node = n /\ a.file = f /\ a.desc = d /\ a.ret = ret
  BY <1>2 DEF NoArg
<1>5. arg' = [arg EXCEPT ![p] = a] /\ pc' = [pc EXCEPT ![p] = "destroy"]
  BY <1>0, <1>1, <1>2 DEF Destroy, Goto
<1>6. QED
  BY <1>0, <1>3, <1>4, <1>5

(* close.                                                                  *)
LEMMA CloseStep ==
  ASSUME IInv, NEW p \in Procs, NEW fd \in TargetFds, sys_close(p, fd)
  PROVE  IInv'
<1> USE FileTableConstants DEF IInv, sys_close
<1>0. fd \in Fds /\ num_open_files' \in [Procs -> Int]
  BY DEF TypeOK
<1>1. CASE local[p][fd] = STD
  <2>1. PICK a \in Args : a = arg[p]
    BY DEF TypeOK
  <2>2. pc' = [pc EXCEPT ![p] = "user"] /\ arg' = [arg EXCEPT ![p] = a]
    BY <1>1, <2>1 DEF TypeOK
  <2>3. QED
    BY <1>0, <1>1, <2>2, ClearSlotStep
<1>2. CASE local[p][fd] # STD
  <2>1. PICK d \in Descs : d = local[p][fd]
    BY <1>0, <1>2 DEF TypeOK
  <2>2. Destroy(p, file_of[d], d, "user")
    BY <1>2, <2>1
  <2>3. PICK a \in Args :
           /\ pc' = [pc EXCEPT ![p] = "destroy"] /\ arg' = [arg EXCEPT ![p] = a]
           /\ a.node = node_of[file_of[d]] /\ a.file = file_of[d]
           /\ a.desc = d /\ a.ret = "user"
    BY <1>0, <2>1, <2>2, DestroyArgs
  <2>4. QED
    BY <1>0, <2>1, <2>3, CloseSlotStep
<1>3. QED
  BY <1>1, <1>2

(* The first part of dup2.                                                 *)
LEMMA Dup2CloseStep ==
  ASSUME IInv, NEW p \in Procs, NEW old \in Fds, NEW new \in TargetFds,
         sys_dup2(p, old, new)
  PROVE  IInv'
<1> USE FileTableConstants DEF IInv, sys_dup2
<1>0. new \in Fds /\ num_open_files' \in [Procs -> Int]
  BY DEF TypeOK
<1>1. CASE local[p][new] \in {NULL, STD}
  <2>1. PICK b \in Args : b = arg[p]
    BY DEF TypeOK
  <2>2. PICK a : a = [b EXCEPT !.old = old, !.new = new]
    OBVIOUS
  <2>3. a \in Args /\ a.old = old /\ a.new = new
    BY <1>0, <2>2 DEF Args
  <2>4. pc' = [pc EXCEPT ![p] = "dup"] /\ arg' = [arg EXCEPT ![p] = a]
    BY <1>1, <2>1, <2>2 DEF TypeOK, Goto
  <2>5. QED
    BY <1>0, <1>1, <2>3, <2>4, ClearSlotStep
<1>2. CASE local[p][new] \notin {NULL, STD}
  <2>1. PICK d \in Descs : d = local[p][new]
    BY <1>0, <1>2 DEF TypeOK
  <2>2. PICK n \in Nodes, f \in Files : f = file_of[d] /\ n = node_of[f]
    BY <1>0, <2>1 DEF Allocated
  <2>3. PICK a : a = [node |-> n, file |-> f, desc |-> d, old |-> old, new |-> new,
                      ret |-> "dup"]
    OBVIOUS
  <2>4. a \in Args
    BY <1>0, <2>3 DEF Args
  <2>5. NodeOf(f) = n
    BY <2>2 DEF NodeOf
  <2>6. pc' = [pc EXCEPT ![p] = "destroy"] /\ arg' = [arg EXCEPT ![p] = a]
    BY <1>2, <2>1, <2>2, <2>3, <2>5 DEF Goto
  <2>7. /\ a.node = n /\ a.file = f /\ a.desc = d /\ a.old = old /\ a.new = new
        /\ a.ret = "dup"
    BY <2>3
  <2>8. /\ a.node = node_of[file_of[d]] /\ a.file = file_of[d] /\ a.desc = d
        /\ a.old \in Fds /\ local[p][a.old] # NULL /\ a.old # new /\ a.new = new
    BY <2>2, <2>7
  <2>9. /\ pc[p] = "user" /\ local' = [local EXCEPT ![p][new] = NULL]
        /\ UNCHANGED <<gtable, heap, vn_refcount, loading>>
    OBVIOUS
  <2>10. QED
    BY <1>0, <2>1, <2>4, <2>6, <2>7, <2>8, <2>9, CloseSlotStep
<1>3. QED
  BY <1>1, <1>2

(* One turn of local_table_close_all.                                      *)
LEMMA CloseNextStep ==
  ASSUME IInv, NEW p \in Procs, close_next(p)
  PROVE  IInv'
<1> USE FileTableConstants DEF IInv, close_next
<1>0. PICK i \in Fds : i = FirstFree(OpenFds(p)) /\ local[p][i] # NULL
  <2>1. OpenFds(p) \in SUBSET Nat /\ OpenFds(p) # {}
    BY DEF OpenFds, Fds
  <2>2. FirstFree(OpenFds(p)) \in OpenFds(p)
    BY <2>1, FirstFreeLemma
  <2>3. QED
    BY <2>2 DEF OpenFds
<1>1. num_open_files' \in [Procs -> Int]
  BY DEF TypeOK
<1>2. CASE local[p][i] = STD
  <2>1. PICK a \in Args : a = arg[p]
    BY DEF TypeOK
  <2>2. pc' = [pc EXCEPT ![p] = "closing"] /\ arg' = [arg EXCEPT ![p] = a]
    BY <1>0, <1>2, <2>1 DEF TypeOK, Goto
  <2>3. QED
    BY <1>0, <1>1, <1>2, <2>2, ClearSlotStep
<1>3. CASE local[p][i] # STD
  <2>1. PICK d \in Descs : d = local[p][i]
    BY <1>0, <1>3 DEF TypeOK
  <2>2. Destroy(p, file_of[d], d, "closing")
    BY <1>0, <1>3, <2>1
  <2>3. PICK a \in Args :
           /\ pc' = [pc EXCEPT ![p] = "destroy"] /\ arg' = [arg EXCEPT ![p] = a]
           /\ a.node = node_of[file_of[d]] /\ a.file = file_of[d]
           /\ a.desc = d /\ a.ret = "closing"
    BY <2>1, <2>2, DestroyArgs
  <2>4. QED
    BY <1>0, <1>1, <2>1, <2>3, CloseSlotStep
<1>4. QED
  BY <1>2, <1>3

(* The second part of dup2: the vnode gets the reference of the copy.      *)
LEMMA Dup2Step ==
  ASSUME IInv, NEW p \in Procs, local_table_dup2(p)
  PROVE  IInv'
<1> USE FileTableConstants DEF IInv, local_table_dup2, Return, Goto, gtable, heap
<1>0. PICK old \in Fds, i \in Fds :
        /\ old = arg[p].old /\ i = arg[p].new /\ i \in TargetFds
        /\ local[p][old] # NULL /\ local[p][i] = NULL
  <2>1. arg[p] \in Args
    BY DEF TypeOK
  <2>2. arg[p].old \in Fds /\ arg[p].new \in Fds
    BY <2>1 DEF Args
  <2>3. QED
    BY <2>2 DEF ArgsCurrent
<1>1. PICK d : d = local[p][old]
  OBVIOUS
<1>2. d \in Descs \cup {STD}
  BY <1>0, <1>1 DEF TypeOK
<1>3. \A q \in Procs : q # p => pc'[q] = pc[q] /\ arg'[q] = arg[q]
  BY DEF TypeOK
<1>4. pc'[p] = "user" /\ arg'[p] = NoArg /\ pc[p] = "dup"
  BY DEF TypeOK
<1>5. \A q \in Procs, j \in Fds :
        local'[q][j] = IF q = p /\ j = i THEN d ELSE local[q][j]
  BY <1>0, <1>1 DEF TypeOK
<1>6. UNCHANGED <<global, global_open, global_lk, file_of, node_of, loading>>
  OBVIOUS
<1>7. GlobalCountExact' /\ FilesListed'
  BY <1>6 DEF GlobalCountExact, FilesListed
<1>8. Allocated'
  BY <1>0, <1>1, <1>5, <1>6 DEF Allocated
<1>9. CloserAlone'
  <2>1. \A q \in Procs, j \in Fds : \E k \in Fds : local'[q][j] = local[q][k]
    BY <1>0, <1>1, <1>5
  <2>2. \A q \in Procs : /\ pc'[q] = "remove" => pc[q] = "remove" /\ arg'[q] = arg[q]
                         /\ pc'[q] = "adding" \/ Closing(q)' =>
                              (pc[q] = "adding" \/ Closing(q)) /\ arg'[q] = arg[q]
    BY <1>3, <1>4 DEF Closing
  <2>3. ASSUME NEW r \in Procs, pc'[r] = "remove", NEW q \in Procs, NEW j \in Fds,
               local'[q][j] \in Descs
        PROVE  node_of'[file_of'[local'[q][j]]] # arg'[r].node
    <3>1. pc[r] = "remove" /\ arg'[r] = arg[r]
      BY <2>2, <2>3
    <3>2. PICK k \in Fds : local'[q][j] = local[q][k]
      BY <2>1
    <3>3. node_of[file_of[local[q][k]]] # arg[r].node
      BY <2>3, <3>1, <3>2 DEF CloserAlone
    <3>4. QED
      BY <1>6, <3>1, <3>2, <3>3
  <2>4. ASSUME NEW r \in Procs, pc'[r] = "remove", NEW q \in Procs, q # r,
               pc'[q] = "adding" \/ Closing(q)'
        PROVE  arg'[q].node # arg'[r].node
    BY <2>2, <2>4 DEF CloserAlone
  <2>5. QED
    BY <2>3, <2>4 DEF CloserAlone
<1>10. \A m : InCall(m)' = InCall(m)
  BY <1>3, <1>4 DEF InCall
<1>11. /\ d = STD => vn_refcount' = vn_refcount
       /\ d # STD => vn_refcount' =
            [vn_refcount EXCEPT ![node_of[file_of[d]]] = @ + 1]
  BY <1>0, <1>1, <1>2 DEF CountDup, NodeOf, Allocated
<1>12. RefsCounted'
  <2> SUFFICES ASSUME NEW m \in Nodes PROVE Counted(m)'
    BY DEF RefsCounted, Counted
  <2>1. Counted(m) /\ (loading \cap {m})' = loading \cap {m}
    BY <1>6 DEF RefsCounted, Counted
  <2>2. \A q \in Procs, j \in Fds :
          <<q, j>> # <<p, i>> => (Leads(q, j, m)' <=> Leads(q, j, m))
    BY <1>5, <1>6 DEF Leads
  <2>3. /\ ~ Leads(p, i, m)
        /\ Leads(p, i, m)' <=> d # STD /\ node_of[file_of[d]] = m
    BY <1>0, <1>2, <1>5, <1>6 DEF Leads
  <2>4. CASE d # STD /\ node_of[file_of[d]] = m
    <3>1. Descriptors(m)' = Descriptors(m) \cup {<<p, i>>}
      BY <1>8, <2>2, <2>3, <2>4, DescriptorsMore
    <3>2. vn_refcount'[m] = vn_refcount[m] + 1
      BY <1>11, <2>4 DEF TypeOK
    <3>3. QED
      BY <1>10, <2>1, <3>1, <3>2, CountedDup
  <2>5. CASE ~ (d # STD /\ node_of[file_of[d]] = m)
    <3>1. Descriptors(m)' = Descriptors(m)
      BY <1>8, <2>2, <2>3, <2>5, DescriptorsSame
    <3>2. vn_refcount'[m] = vn_refcount[m]
      BY <1>11, <2>5 DEF TypeOK
    <3>3. QED
      BY <1>10, <2>1, <3>1, <3>2, CountedSame
  <2>6. QED
    BY <2>4, <2>5
<1>13. TypeOK'
  <2>1. vn_refcount' \in [Nodes -> Nat]
    BY <1>11 DEF TypeOK
  <2>2. local' \in [Procs -> [Fds -> Descs \cup {NULL, STD}]]
    BY <1>0, <1>1, <1>2 DEF TypeOK
  <2>3. QED
    BY <1>6, <2>1, <2>2, NoArgType DEF TypeOK, Places
<1>14. ArgsCurrent'
  <2>1. \A q \in Procs : q # p => (Closing(q)' <=> Closing(q))
    BY <1>3 DEF Closing
  <2>2. \A q \in Procs : arg[q] \in Args
    BY DEF TypeOK
  <2>3. \A q \in Procs : arg[q].old \in Fds /\ arg[q].new \in Fds
    BY <2>2 DEF Args
  <2>4. ~ Closing(p)'
    BY <1>4 DEF Closing
  <2>5. \A q \in Procs : q # p => \A j \in Fds : local'[q][j] = local[q][j]
    BY <1>5
  <2>6. QED
    BY <1>3, <1>4, <1>6, <2>1, <2>3, <2>4, <2>5 DEF ArgsCurrent
<1>15. TablesKept'
  BY <1>0, <1>3, <1>4, <1>5 DEF TablesKept
<1>16. QED
  BY <1>7, <1>8, <1>9, <1>12, <1>13, <1>14, <1>15

(* fork: what the loop counts is what the child's table adds, if the slots *)
(* it passes over hold no files.                                           *)
LEMMA CopyStep ==
  ASSUME IInv, NEW p \in Procs, NEW q \in Procs, p # q,
         local_table_copy(p, q), ~ LeavesOut(p)
  PROVE  IInv'
<1> USE FileTableConstants DEF IInv, local_table_copy, Goto, gtable, heap
<1> DEFINE fds == {i \in Fds : i >= StdSlots}
<1>1. \A r \in Procs : r # q => pc'[r] = pc[r] /\ \A j \in Fds : local'[r][j] = local[r][j]
  BY DEF TypeOK
<1>2. /\ pc'[q] = "user" /\ pc[q] = "none"
      /\ \A j \in Fds : local'[q][j] = local[p][j] /\ local[q][j] = NULL
  BY DEF TypeOK, TablesKept
<1>3. UNCHANGED <<global, global_open, global_lk, file_of, node_of, loading, arg>>
  OBVIOUS
<1>4. GlobalCountExact' /\ FilesListed'
  BY <1>3 DEF GlobalCountExact, FilesListed
<1>5. Allocated'
  BY <1>1, <1>2, <1>3 DEF Allocated
<1>6. CloserAlone'
  BY <1>1, <1>2, <1>3 DEF CloserAlone, Closing
<1>7. \A j \in Fds : j < StdSlots => local[p][j] \notin Descs
  BY DEF LeavesOut
<1>8. ASSUME NEW m \in Nodes
      PROVE  /\ Counted(m)'
             /\ vn_refcount'[m] \in Nat
  <2> DEFINE S == FdsOn(p, fds, m)
  <2>1. /\ IsFiniteSet(S) /\ Cardinality(S) \in Nat
        /\ IsFiniteSet({q} \X S) /\ Cardinality({q} \X S) = Cardinality(S)
    <3>1. IsFiniteSet(Fds)
      BY FdsFinite
    <3>2. S \subseteq Fds
      BY DEF FdsOn
    <3>3. IsFiniteSet(S) /\ Cardinality(S) \in Nat
      BY <3>1, <3>2, FS_Subset, FS_CardinalityType
    <3>4. IsFiniteSet({q}) /\ Cardinality({q}) = 1
      BY FS_Singleton
    <3> HIDE DEF S
    <3>5. /\ IsFiniteSet({q} \X S)
          /\ Cardinality({q} \X S) = Cardinality({q}) * Cardinality(S)
      BY <3>3, <3>4, FS_Product
    <3>6. QED
      BY <3>3, <3>4, <3>5
  <2>2. \A i \in Fds : i \in S <=> Leads(p, i, m)
    BY <1>7 DEF FdsOn, Leads, NodeOf, Allocated, Fds
  <2>3. S \subseteq Fds
    BY DEF FdsOn
  <2>4. vn_refcount'[m] = vn_refcount[m] + Cardinality(S)
    BY DEF CopiedRefs
  <2>5. InCall(m)' = InCall(m) /\ (loading \cap {m})' = loading \cap {m}
    BY <1>1, <1>2, <1>3 DEF InCall
  <2>6. /\ Descriptors(m)' = Descriptors(m) \cup ({q} \X S)
        /\ Descriptors(m) \cap ({q} \X S) = {}
    <3>1. Descriptors(m) \subseteq Procs \X Fds /\ Descriptors(m)' \subseteq Procs \X Fds
      BY DEF Descriptors
    <3>2. \A r \in Procs, j \in Fds : r # q =>
            (<<r, j>> \in Descriptors(m)' <=> <<r, j>> \in Descriptors(m))
      BY <1>1, <1>3, <1>5, InDescriptors, InDescriptorsNext DEF Leads
    <3>3. \A j \in Fds : /\ <<q, j>> \in Descriptors(m)' <=> j \in S
                         /\ <<q, j>> \notin Descriptors(m)
      <4>1. \A j \in Fds : Leads(q, j, m)' <=> Leads(p, j, m)
        BY <1>2, <1>3 DEF Leads
      <4>2. \A j \in Fds : ~ Leads(q, j, m)
        BY <1>2 DEF Leads
      <4> HIDE DEF S
      <4>3. QED
        BY <1>5, <2>2, <4>1, <4>2, InDescriptors, InDescriptorsNext
    <3> HIDE DEF S
    <3>4. QED
      BY <2>3, <3>1, <3>2, <3>3
  <2> HIDE DEF S
  <2>7. /\ Cardinality(Descriptors(m)) \in Nat /\ Cardinality(InCall(m)) \in Nat
        /\ Cardinality(loading \cap {m}) \in Nat /\ vn_refcount[m] \in Nat
        /\ IsFiniteSet(Descriptors(m))
    BY UsesFinite DEF TypeOK
  <2>8. Cardinality(Descriptors(m))' = Cardinality(Descriptors(m)) + Cardinality(S)
    <3>1. Cardinality(Descriptors(m) \cup ({q} \X S)) =
            Cardinality(Descriptors(m)) + Cardinality({q} \X S)
              - Cardinality(Descriptors(m) \cap ({q} \X S))
      BY <2>1, <2>7, FS_Union
    <3>2. Cardinality(Descriptors(m) \cap ({q} \X S)) = 0
      BY <2>6, FS_EmptySet
    <3>3. Cardinality(Descriptors(m))' = Cardinality(Descriptors(m) \cup ({q} \X S))
      BY <2>6
    <3>4. QED
      BY <2>1, <2>7, <3>1, <3>2, <3>3
  <2>9. Counted(m)
    BY DEF RefsCounted, Counted
  <2>10. /\ Cardinality(InCall(m))' = Cardinality(InCall(m))
         /\ Cardinality(loading \cap {m})' = Cardinality(loading \cap {m})
    BY <2>5
  <2>11. QED
    BY <2>1, <2>4, <2>7, <2>8, <2>9, <2>10 DEF Counted
<1>9. RefsCounted'
  BY <1>8 DEF RefsCounted, Counted
<1>10. TypeOK'
  <2>1. vn_refcount' \in [Nodes -> Nat]
    BY <1>8
  <2>2. QED
    BY <1>3, <2>1 DEF TypeOK, Places
<1>11. ArgsCurrent'
  <2>1. \A r \in Procs : Closing(r)' <=> Closing(r)
    BY <1>1, <1>2 DEF Closing
  <2>2. \A r \in Procs : arg[r] \in Args
    BY DEF TypeOK
  <2>3. \A r \in Procs : arg[r].old \in Fds /\ arg[r].new \in Fds
    BY <2>2 DEF Args
  <2>4. ~ Closing(q)
    BY <1>2 DEF Closing
  <2>5. QED
    BY <1>1, <1>2, <1>3, <2>1, <2>3, <2>4 DEF ArgsCurrent
<1>12. TablesKept'
  BY <1>1, <1>2 DEF TablesKept
<1>13. QED
  BY <1>4, <1>5, <1>6, <1>9, <1>10, <1>11, <1>12

(* The end of exit: nothing is left in the table.                          *)
LEMMA TableDestroyStep ==
  ASSUME IInv, NEW p \in Procs, local_table_destroy(p)
  PROVE  IInv'
<1> USE FileTableConstants DEF IInv, local_table_destroy, Goto, gtable, heap
<1>1. \A q \in Procs : q # p => pc'[q] = pc[q] /\ arg'[q] = arg[q]
  BY DEF TypeOK
<1>2. pc'[p] = "none" /\ arg'[p] = NoArg /\ \A i \in Fds : local[p][i] = NULL
  BY DEF TypeOK, OpenFds
<1>3. UNCHANGED <<local, global, global_open, global_lk, file_of, node_of, vn_refcount,
                  loading>>
  OBVIOUS
<1>4. GlobalCountExact' /\ FilesListed' /\ Allocated'
  BY <1>3 DEF GlobalCountExact, FilesListed, Allocated
<1>5. CloserAlone'
  BY <1>1, <1>2, <1>3 DEF CloserAlone, Closing
<1>6. RefsCounted'
  <2> SUFFICES ASSUME NEW m \in Nodes PROVE Counted(m)'
    BY DEF RefsCounted, Counted
  <2>1. Descriptors(m)' = Descriptors(m) /\ InCall(m)' = InCall(m)
    BY <1>1, <1>2, <1>3 DEF Descriptors, InCall
  <2>2. QED
    BY <1>3, <2>1, CountedSame DEF RefsCounted, Counted
<1>7. TypeOK'
  BY NoArgType DEF TypeOK, Places
<1>8. ArgsCurrent'
  BY <1>1, <1>2, <1>3 DEF ArgsCurrent, Closing
<1>9. TablesKept'
  BY <1>1, <1>2, <1>3 DEF TablesKept
<1>10. QED
  BY <1>4, <1>5, <1>6, <1>7, <1>8, <1>9

(* A program is loaded: a reference outside the tables comes and goes.     *)
LEMMA LoadStep ==
  ASSUME IInv, NEW n \in Nodes, load_open(n) \/ load_close(n)
  PROVE  IInv'
<1> USE FileTableConstants DEF IInv, load_open, load_close, gtable, heap
<1>1. UNCHANGED <<local, num_open_files, global, global_open, global_lk, file_of,
                  node_of, pc, arg>>
  OBVIOUS
<1>2. /\ GlobalCountExact' /\ FilesListed' /\ Allocated' /\ CloserAlone'
      /\ ArgsCurrent' /\ TablesKept'
  BY <1>1 DEF GlobalCountExact, FilesListed, Allocated, CloserAlone, ArgsCurrent,
              TablesKept, Closing
<1>3. ASSUME NEW m \in Nodes
      PROVE  Counted(m)' /\ vn_refcount'[m] \in Nat
  <2>1. Descriptors(m)' = Descriptors(m) /\ InCall(m)' = InCall(m) /\ Counted(m)
    BY <1>1 DEF Descriptors, InCall, RefsCounted, Counted
  <2>2. vn_refcount[m] \in Nat
    BY DEF TypeOK
  <2>3. CASE m # n
    <3>1. vn_refcount'[m] = vn_refcount[m] /\ (loading \cap {m})' = loading \cap {m}
      BY <2>3 DEF TypeOK
    <3>2. QED
      BY <2>1, <2>2, <3>1, CountedSame
  <2>4. CASE m = n /\ load_open(n)
    <3>1. vn_refcount'[m] = vn_refcount[m] + 1
      BY <2>4 DEF TypeOK
    <3>2. loading \cap {m} = {} /\ (loading \cap {m})' = {m}
      BY <2>4
    <3>3. Cardinality(loading \cap {m}) = 0 /\ Cardinality(loading \cap {m})' = 1
      BY <3>2, FS_EmptySet, FS_Singleton
    <3>4. Cardinality(Descriptors(m)) \in Nat /\ Cardinality(InCall(m)) \in Nat
      BY UsesFinite
    <3>5. /\ Cardinality(Descriptors(m))' = Cardinality(Descriptors(m))
          /\ Cardinality(InCall(m))' = Cardinality(InCall(m))
      BY <2>1
    <3>6. QED
      BY <2>1, <2>2, <3>1, <3>3, <3>4, <3>5 DEF Counted
  <2>5. CASE m = n /\ load_close(n)
    <3>1. vn_refcount'[m] = vn_refcount[m] - 1
      BY <2>5 DEF TypeOK
    <3>2. loading \cap {m} = {m} /\ (loading \cap {m})' = {}
      BY <2>5
    <3>3. Cardinality(loading \cap {m}) = 1 /\ Cardinality(loading \cap {m})' = 0
      BY <3>2, FS_EmptySet, FS_Singleton
    <3>4. Cardinality(Descriptors(m)) \in Nat /\ Cardinality(InCall(m)) \in Nat
      BY UsesFinite
    <3>5. /\ Cardinality(Descriptors(m))' = Cardinality(Descriptors(m))
          /\ Cardinality(InCall(m))' = Cardinality(InCall(m))
      BY <2>1
    <3>6. QED
      BY <2>1, <2>2, <3>1, <3>3, <3>4, <3>5 DEF Counted
  <2>6. QED
    BY <2>3, <2>4, <2>5
<1>4. RefsCounted'
  BY <1>3 DEF RefsCounted, Counted
<1>5. TypeOK'
  <2>1. vn_refcount' \in [Nodes -> Nat]
    BY <1>3 DEF TypeOK
  <2>2. loading' \subseteq Nodes
    BY DEF TypeOK
  <2>3. QED
    BY <1>1, <2>1, <2>2 DEF TypeOK
<1>6. QED
  BY <1>2, <1>4, <1>5

----------------------------------------------------------------------------

(* A vnode that is in use has references.                                  *)
LEMMA UsedNotGone ==
  ASSUME IInv, NEW n \in Nodes,
         Cardinality(InCall(n)) >= 1 \/ Cardinality(loading \cap {n}) >= 1
  PROVE  ~ Gone(n)
<1>1. /\ Cardinality(Descriptors(n)) \in Nat /\ Cardinality(InCall(n)) \in Nat
      /\ Cardinality(loading \cap {n}) \in Nat
  BY UsesFinite DEF IInv
<1>2. vn_refcount[n] \in Nat
  BY DEF IInv, TypeOK
<1>3. vn_refcount[n] >= Cardinality(Descriptors(n)) + Cardinality(InCall(n))
                        + Cardinality(loading \cap {n})
  BY DEF IInv, RefsCounted
<1>4. vn_refcount[n] # 0
  BY <1>1, <1>2, <1>3
<1>5. QED
  BY <1>4 DEF Gone

(* No pointer leads to freed memory: the kernel goes on.                   *)
LEMMA NothingGone ==
  ASSUME IInv
  PROVE  ~ use_freed
<1> USE FileTableConstants DEF IInv
<1>1. ASSUME NEW n \in loading PROVE ~ Gone(n)
  <2>1. n \in Nodes
    BY DEF TypeOK
  <2>2. n \in loading \cap {n}
    OBVIOUS
  <2>3. Cardinality(loading \cap {n}) >= 1
    BY <2>2, UsesFinite, CountOne
  <2>4. QED
    BY <2>1, <2>3, UsedNotGone
<1>2. ASSUME NEW p \in Procs, NEW n \in Followed(p) PROVE ~ Gone(n)
  <2>1. CASE pc[p] \in {"destroy", "remove", "drop"}
    <3>1. n = arg[p].node
      BY <1>2, <2>1 DEF Followed
    <3>2. n \in Nodes
      BY <2>1, <3>1 DEF ArgsCurrent, Closing
    <3>3. p \in InCall(n)
      BY <2>1, <3>1 DEF InCall
    <3>4. Cardinality(InCall(n)) >= 1
      BY <3>3, UsesFinite, CountOne
    <3>5. QED
      BY <3>2, <3>4, UsedNotGone
  <2>2. CASE pc[p] \notin {"destroy", "remove", "drop"}
    <3>1. PICK i \in Fds : local[p][i] \in Descs /\ n = NodeOf(file_of[local[p][i]])
      <4>1. arg[p].old \in Fds
        BY DEF TypeOK, Args
      <4>2. CASE pc[p] = "dup" /\ local[p][arg[p].old] \in Descs
        BY <1>2, <2>2, <4>1, <4>2 DEF Followed
      <4>3. CASE ~ (pc[p] = "dup" /\ local[p][arg[p].old] \in Descs)
        <5>1. n \in CountedNodes(p)
          BY <1>2, <2>2, <4>3 DEF Followed
        <5>2. QED
          BY <5>1 DEF CountedNodes
      <4>4. QED
        BY <4>2, <4>3
    <3>2. /\ file_of[local[p][i]] \in Files /\ n \in Nodes
          /\ n = node_of[file_of[local[p][i]]]
      BY <3>1 DEF Allocated, NodeOf
    <3>3. vn_refcount[n] > 0
      BY <3>1, <3>2, IInvImplies DEF NoDanglingDescriptor, OpenDescs
    <3>4. QED
      BY <3>2, <3>3 DEF Gone, TypeOK
  <2>3. QED
    BY <2>1, <2>2
<1>3. QED
  BY <1>1, <1>2 DEF use_freed

(* The inductive step: as long as no fork has miscounted.                  *)
LEMMA IInvStep ==
  ASSUME IInv, [Next]_vars, ~ miscounted'
  PROVE  IInv' /\ used_freed' = used_freed
<1>1. ASSUME NEW p \in Procs, NEW n \in Nodes, sys_open(p, n) PROVE IInv'
  BY <1>1, OpenStep
<1>2. ASSUME NEW p \in Procs, NEW fd \in TargetFds, sys_close(p, fd) PROVE IInv'
  BY <1>2, CloseStep
<1>3. ASSUME NEW p \in Procs, NEW old \in Fds, NEW new \in TargetFds,
             sys_dup2(p, old, new)
      PROVE  IInv'
  BY <1>3, Dup2CloseStep
<1>4. ASSUME NEW n \in ExecNodes, load_open(n) \/ load_close(n) PROVE IInv'
  BY <1>4, LoadStep, FileTableConstants
<1>5. ASSUME Step PROVE IInv'
  BY <1>1, <1>2, <1>3, <1>4, <1>5, StartStep, CheckStep, RemoveStep, DropStep,
     OpenFileStep, AddFileStep, AddFailsStep, Dup2Step, CloseNextStep,
     TableDestroyStep DEF Step
<1>6. ASSUME NEW p \in Procs, NEW q \in Procs, p # q, local_table_copy(p, q)
      PROVE  IInv'
  <2>1. ~ LeavesOut(p)
    BY <1>6 DEF local_table_copy
  <2>2. QED
    BY <1>6, <2>1, CopyStep
<1>7. CASE UNCHANGED vars
  <2>1. TypeOK' /\ GlobalCountExact' /\ FilesListed'
    BY <1>7 DEF IInv, vars, TypeOK, GlobalCountExact, FilesListed
  <2>2. ArgsCurrent' /\ TablesKept' /\ CloserAlone' /\ Allocated'
    BY <1>7 DEF IInv, vars, ArgsCurrent, TablesKept, CloserAlone, Allocated, Closing
  <2>3. RefsCounted'
    BY <1>7 DEF IInv, vars, RefsCounted, Descriptors, InCall
  <2>4. QED
    BY <1>7, <2>1, <2>2, <2>3 DEF IInv, vars
<1>8. QED
  BY <1>5, <1>6, <1>7, NothingGone DEF Next

(* A fork that has miscounted stays in the history.                        *)
LEMMA MiscountedStep ==
  ASSUME [Next]_vars, miscounted
  PROVE  miscounted'
  BY DEF Next, local_table_copy, vars

(* The inductive invariant: all is well until a fork miscounts.            *)
CountedInv == ~ miscounted => IInv /\ ~ used_freed

(* It holds in every run of the tables.                                    *)
LEMMA CountedAlways == Spec => []CountedInv
<1>1. Init => CountedInv
  BY IInvInit DEF CountedInv, Init
<1>2. CountedInv /\ [Next]_vars => CountedInv'
  BY IInvStep, MiscountedStep DEF CountedInv
<1>3. QED
  BY <1>1, <1>2, PTL DEF Spec

(* Until a fork copies a file it does not count, vn_refcount never falls   *)
(* below the number of descriptors and calls that use the vnode, so the    *)
(* test for the last reference in file_destroy is right.                   *)
THEOREM VnodeRefsCounted == Spec => []UsesCounted
<1>1. CountedInv => UsesCounted
  BY DEF CountedInv, UsesCounted, IInv
<1>2. QED
  BY <1>1, CountedAlways, PTL

(* Until then no close, exit or failed open frees what an open descriptor  *)
(* leads to.                                                               *)
THEOREM DescriptorsAlive == Spec => []NoneDangles
<1>1. CountedInv => NoneDangles
  BY IInvImplies DEF CountedInv, NoneDangles
<1>2. QED
  BY <1>1, CountedAlways, PTL

(* Until then the global table has one File per open vnode, shared by all, *)
(* and its count is exact; a last close meets nobody who uses its File,    *)
(* and the kernel uses no freed memory.                                    *)
THEOREM FileTableSafe == Spec => []FileInv
<1>1. CountedInv => FileInv
  BY IInvImplies DEF CountedInv, FileInv, IInv
<1>2. QED
  BY <1>1, CountedAlways, PTL

============================================================================
