------------------------------ MODULE FlatFs -------------------------------
(***************************************************************************)
(* What the vnode operations (kern/include/vnode.h) promise of a file      *)
(* system with one directory: names lead to files, a file is a length and  *)
(* its blocks, and it lives as long as a name or an open leads to it.      *)
(* Every operation takes effect at once or not at all, with two            *)
(* exceptions under I/O errors: a write may stop after some of its blocks, *)
(* and a truncation that fails may already have discarded some.            *)
(***************************************************************************)
EXTENDS Naturals

CONSTANTS
  Threads,     \* those who have files open, each one at most
  Names,       \* names in the directory
  Files,       \* identities of files
  FileBlocks,  \* block numbers within a file, from 0
  Values,      \* contents of a block; 0 is all zeros
  NULL

VARIABLES
  dir,     \* name -> file, or NULL
  length,  \* file -> its length in blocks
  data,    \* file -> block number -> contents
  open     \* thread -> the file it has open, or NULL

vars == <<dir, length, data, open>>

Zeros == [k \in FileBlocks |-> 0]

Init ==
  /\ dir = [x \in Names |-> NULL]
  /\ length = [i \in Files |-> 0]
  /\ data = [i \in Files |-> Zeros]
  /\ open = [t \in Threads |-> NULL]

\* Some name or some thread leads to file i.
Lives(i, d, o) == (\E x \in Names : d[x] = i) \/ (\E t \in Threads : o[t] = i)

\* Files nothing leads to any more are gone.
Settle(d, o, len, dat) ==
  /\ dir' = d
  /\ open' = o
  /\ length' = [i \in Files |-> IF Lives(i, d, o) THEN len[i] ELSE 0]
  /\ data' = [i \in Files |-> IF Lives(i, d, o) THEN dat[i] ELSE Zeros]

Open(t, x) ==
  /\ open[t] = NULL /\ dir[x] # NULL
  /\ Settle(dir, [open EXCEPT ![t] = dir[x]], length, data)

\* A new file is empty, whatever the identity meant before.
Create(t, x) ==
  /\ open[t] = NULL /\ dir[x] = NULL
  /\ \E i \in Files :
       /\ ~Lives(i, dir, open)
       /\ Settle([dir EXCEPT ![x] = i], [open EXCEPT ![t] = i], length, data)

Close(t) ==
  /\ open[t] # NULL
  /\ Settle(dir, [open EXCEPT ![t] = NULL], length, data)

Link(t, x) ==
  /\ open[t] # NULL /\ dir[x] = NULL
  /\ Settle([dir EXCEPT ![x] = open[t]], open, length, data)

Remove(x) ==
  /\ dir[x] # NULL
  /\ Settle([dir EXCEPT ![x] = NULL], open, length, data)

Rename(x, y) ==
  /\ dir[x] # NULL /\ dir[y] = NULL
  /\ Settle([dir EXCEPT ![y] = dir[x], ![x] = NULL], open, length, data)

\* Blocks first .. last - 1 are written; the length only grows.
Write(t, first, last, v) ==
  /\ open[t] # NULL /\ first < last
  /\ Settle(dir, open,
       [length EXCEPT ![open[t]] = IF last > @ THEN last ELSE @],
       [data EXCEPT ![open[t]] =
          [k \in FileBlocks |-> IF k >= first /\ k < last THEN v ELSE @[k]]])

\* The length becomes 0, or the truncation fails half way.
Truncate(t) ==
  /\ open[t] # NULL
  /\ \/ Settle(dir, open, [length EXCEPT ![open[t]] = 0],
               [data EXCEPT ![open[t]] = Zeros])
     \/ \E discarded \in SUBSET FileBlocks :
          Settle(dir, open, length,
            [data EXCEPT ![open[t]] =
               [k \in FileBlocks |-> IF k \in discarded THEN 0 ELSE @[k]]])

Next ==
  \/ \E t \in Threads, x \in Names : Open(t, x) \/ Create(t, x) \/ Link(t, x)
  \/ \E t \in Threads : Close(t) \/ Truncate(t)
  \/ \E x, y \in Names : Remove(x) \/ Rename(x, y)
  \/ \E t \in Threads, first, len \in FileBlocks \cup {0}, v \in Values :
       Write(t, first, first + len + 1, v)

Spec == Init /\ [][Next]_vars

============================================================================
