----------------------------- MODULE JpegMemory -----------------------------
(***************************************************************************)
(* The memory manager of the JPEG library: jmemmgr.c over jmemansi.c.      *)
(*                                                                         *)
(* Objects live in two pools, PERMANENT and IMAGE, that are freed as a     *)
(* whole.  A pool carves small objects out of chunks and gives each large  *)
(* one a chunk of its own.  A virtual array keeps a strip of its rows in   *)
(* memory and, when it does not fit, the others in a temporary file.       *)
(*                                                                         *)
(* The manager is one record; an operator that takes it and gives it back  *)
(* is a method.  ERREXIT sets "failed", and a failed manager does nothing  *)
(* more until the application aborts or destroys the object.               *)
(***************************************************************************)
EXTENDS Integers, Sequences, FiniteSets, FiniteSetsExt, SequencesExt, Functions

CONSTANTS
  Sarray, Barray,   \* the virtual arrays the application may request
  Shape,            \* of each: rows, width in bytes, maxaccess and pre_zero
  Value,            \* what may be written to a row of each array
  ObjectSize,       \* the sizes of the other objects asked for
  Heap,             \* how many bytes malloc may have left to give
  MaxMemoryToUse,   \* max_memory_to_use
  MaxAllocChunk, AlignType, PoolHdr, FirstPoolSlop, ExtraPoolSlop, MinSlop,
  ControlBlock,     \* SIZEOF of the control block of a virtual array
  MaxObjects        \* bounds the other objects asked for

Array == Sarray \cup Barray
Pool == {"PERMANENT", "IMAGE"}

ASSUME MemoryAssumption ==
  /\ Sarray \cap Barray = {}
  /\ Shape \in [Array -> [rows : Nat \ {0}, width : Nat \ {0}, maxaccess : Nat \ {0},
                          pre_zero : BOOLEAN]]
  /\ DOMAIN Value = Array /\ \A a \in Array : {"undefined", "zero"} \cap Value[a] = {}
  /\ AlignType \in Nat \ {0} /\ PoolHdr % AlignType = 0 /\ MaxAllocChunk % AlignType = 0
  /\ PoolHdr \in Nat /\ MaxAllocChunk \in Nat /\ PoolHdr <= MaxAllocChunk /\ ControlBlock \in Nat
  /\ MinSlop \in Nat \ {0} /\ FirstPoolSlop \in [Pool -> Nat] /\ ExtraPoolSlop \in [Pool -> Nat]
  /\ ObjectSize \subseteq Nat /\ Heap \subseteq Nat /\ MaxMemoryToUse \in Int

VARIABLES
  mem,      \* my_memory_mgr, the control blocks of its virtual arrays, and the
            \* temporary files that exist with the rows they hold
  granted,  \* the rows the last access returned, and if to write them
  wanted    \* what each row should read as: what the application last wrote

vars == <<mem, granted, wanted>>

Row(a) == Value[a] \cup {"undefined", "zero"}
Rows(a) == 0..Shape[a].rows - 1
NoRows == [i \in {} |-> "undefined"]
Unrealized == [mem_buffer |-> NoRows, rowsperchunk |-> 0, cur_start_row |-> 0,
               first_undef_row |-> 0, dirty |-> FALSE, b_s_open |-> FALSE]
NoGrant == [array |-> {}, from |-> 0, to |-> 0, writable |-> FALSE]
Untouched(a) == [r \in Rows(a) |-> IF Shape[a].pre_zero THEN "zero" ELSE "undefined"]

\* The manager's lists hold chunks and arrays, every block its own rows.
TypeOK ==
  /\ mem.small_list \in [Pool -> Seq([bytes_used : Nat, bytes_left : Nat])]
  /\ mem.large_list \in [Pool -> Seq(Nat)]
  /\ mem.virt_list \in Seq(Array) /\ IsInjective(mem.virt_list)
  /\ mem.total_space_allocated \in Nat
  /\ mem.failed \in BOOLEAN /\ mem.state \in {"open", "destroyed"}
  /\ mem.exists \subseteq Array
  /\ \A a \in Array :
       /\ Range(mem.block[a].mem_buffer) \subseteq Row(a)
       /\ DOMAIN mem.file[a] \subseteq Rows(a)
       /\ mem.block[a].first_undef_row \in 0..Shape[a].rows
       /\ granted.array = {a} => granted.to <= Shape[a].rows

\* jinit_memory_mgr: the manager's own block is what is allocated at first.
Init ==
  /\ mem = [small_list |-> [p \in Pool |-> <<>>], large_list |-> [p \in Pool |-> <<>>],
            virt_list |-> <<>>, block |-> [a \in Array |-> Unrealized],
            total_space_allocated |-> ControlBlock, last_rowsperchunk |-> 0,
            exists |-> {}, file |-> [a \in Array |-> NoRows],
            failed |-> FALSE, state |-> "open"]
  /\ granted = NoGrant
  /\ wanted = [a \in Array |-> Untouched(a)]

-----------------------------------------------------------------------------
SumOf(s) == FoldLeft(LAMBDA x, y : x + y, 0, s)
RoundUp(n) == ((n + AlignType - 1) \div AlignType) * AlignType
OutOfMemory(m) == [m EXCEPT !.failed = TRUE]

\* The slops tried for a new pool: halved until they get small.
Slops(first) == {first} \cup {s \in MinSlop..first : \E k \in 1..14 : s = first \div 2^k}

\* Mutant: the slop of a new pool is not counted.
NewSmallPoolUncounted(m, p, size, heap) ==
  IF m.total_space_allocated + size + PoolHdr + FirstPoolSlop[p] > heap THEN OutOfMemory(m)
  ELSE [m EXCEPT
          !.total_space_allocated = @ + size + PoolHdr,
          !.small_list[p] = Append(@, [bytes_used |-> size, bytes_left |-> FirstPoolSlop[p]])]

\* A new pool for a small object, with the largest slop malloc has room for.
NewSmallPool(m, p, size, heap) ==
  LET list == m.small_list[p]
      request == size + PoolHdr
      slop == Min({IF list = <<>> THEN FirstPoolSlop[p] ELSE ExtraPoolSlop[p],
                   MaxAllocChunk - request})
      fits == {s \in Slops(slop) : m.total_space_allocated + request + s <= heap}
  IN  IF fits = {} THEN OutOfMemory(m)
      ELSE [m EXCEPT
              !.total_space_allocated = @ + request + Max(fits),
              !.small_list[p] = Append(@, [bytes_used |-> size, bytes_left |-> Max(fits)])]

\* alloc_small: the first chunk of the pool with room for the object has it.
AllocSmall(m, p, bytes, heap) ==
  LET size == RoundUp(bytes)
      roomy == {i \in DOMAIN m.small_list[p] : m.small_list[p][i].bytes_left >= size}
  IN  IF m.failed THEN m
      ELSE IF bytes > MaxAllocChunk - PoolHdr THEN OutOfMemory(m)
      ELSE IF roomy = {} THEN NewSmallPool(m, p, size, heap)
      ELSE [m EXCEPT !.small_list[p][Min(roomy)] =
              [bytes_used |-> @.bytes_used + size, bytes_left |-> @.bytes_left - size]]

\* alloc_large: a chunk of its own.
AllocLarge(m, p, bytes, heap) ==
  LET size == RoundUp(bytes)
  IN  IF m.failed THEN m
      ELSE IF bytes > MaxAllocChunk - PoolHdr
              \/ m.total_space_allocated + size + PoolHdr > heap THEN OutOfMemory(m)
      ELSE [m EXCEPT !.total_space_allocated = @ + size + PoolHdr,
                     !.large_list[p] = <<size>> \o @]

\* The heights of the chunks numrows rows are allocated in.
Chunks(rowsperchunk, numrows) ==
  [i \in 1..(numrows + rowsperchunk - 1) \div rowsperchunk |->
     Min({rowsperchunk, numrows - (i - 1) * rowsperchunk})]

\* alloc_sarray and alloc_barray: pointers to the rows, then chunks of rows.
AllocRows(m, p, width, numrows, heap) ==
  LET most == (MaxAllocChunk - PoolHdr) \div width
      rowsperchunk == Min({most, numrows})
      pointers == AllocSmall([m EXCEPT !.last_rowsperchunk = rowsperchunk], p,
                             numrows * AlignType, heap)
  IN  IF m.failed THEN m
      ELSE IF most = 0 THEN [m EXCEPT !.failed = TRUE]
      ELSE FoldLeft(LAMBDA n, rows : AllocLarge(n, p, rows * width, heap), pointers,
                    Chunks(rowsperchunk, numrows))

-----------------------------------------------------------------------------
(* Virtual arrays *)

\* request_virt_sarray and request_virt_barray.
RequestVirt(m, a, heap) ==
  LET n == AllocSmall(m, "IMAGE", ControlBlock, heap)
  IN  IF n.failed THEN n
      ELSE [n EXCEPT !.virt_list = <<a>> \o @, !.block[a] = Unrealized]

IsRealized(m, a) == DOMAIN m.block[a].mem_buffer # {}
Waiting(m) == {a \in Range(m.virt_list) : ~IsRealized(m, a)}

\* jpeg_mem_available (jmemansi.c): the user's limit less what is in use.
MemAvailable(m) == MaxMemoryToUse - m.total_space_allocated

\* How many times maxaccess rows of every waiting array are to be in memory.
MaxMinheights(m) ==
  LET sum(height(_)) == MapThenSumSet(LAMBDA a : height(a) * Shape[a].width, Waiting(m))
      all == sum(LAMBDA a : Shape[a].rows)
      least == sum(LAMBDA a : Shape[a].maxaccess)
  IN  IF MemAvailable(m) >= all THEN Max({Shape[a].rows : a \in Waiting(m)})
      ELSE Max({1, MemAvailable(m) \div least})

\* Mutant: the file is only known to be open once there is a buffer.
RealizeOpenLate(m, a, minheights, heap, disk) ==
  LET rows_in_mem == Min({Shape[a].rows, minheights * Shape[a].maxaccess})
      fits == rows_in_mem = Shape[a].rows
      n == AllocRows(IF fits THEN m ELSE [m EXCEPT !.exists = @ \cup {a}], "IMAGE",
                     Shape[a].width, rows_in_mem, heap)
  IN  IF m.failed \/ IsRealized(m, a) THEN m
      ELSE IF n.failed THEN n
      ELSE [n EXCEPT !.block[a].mem_buffer = [i \in 0..rows_in_mem - 1 |-> "undefined"],
                     !.block[a].rowsperchunk = n.last_rowsperchunk,
                     !.block[a].b_s_open = ~fits]

\* One turn of the loops of realize_virt_arrays.  The file is opened, and is
\* known to be open, before the buffer is asked for.
Realize(m, a, minheights, heap, disk) ==
  LET shape == Shape[a]
      fits == (shape.rows - 1) \div shape.maxaccess + 1 <= minheights
      rows_in_mem == IF fits THEN shape.rows ELSE minheights * shape.maxaccess
      opened == IF fits THEN m
                ELSE [m EXCEPT !.exists = @ \cup {a}, !.file[a] = NoRows,
                               !.block[a].b_s_open = TRUE]
      n == AllocRows(opened, "IMAGE", shape.width, rows_in_mem, heap)
  IN  IF m.failed \/ IsRealized(m, a) THEN m
      ELSE IF ~fits /\ ~disk THEN OutOfMemory(m)
      ELSE IF n.failed THEN n
      ELSE [n EXCEPT !.block[a] =
              [mem_buffer |-> [i \in 0..rows_in_mem - 1 |-> "undefined"],
               rowsperchunk |-> n.last_rowsperchunk, cur_start_row |-> 0,
               first_undef_row |-> 0, dirty |-> FALSE, b_s_open |-> @.b_s_open]]

\* The loop over the arrays of one kind, in the order of the list.
RealizeLoop(m, kind, minheights, heap, disk) ==
  FoldLeft(LAMBDA n, a : IF a \in kind THEN Realize(n, a, minheights, heap, disk) ELSE n,
           m, m.virt_list)

\* realize_virt_arrays: the sample arrays, then the block arrays.
RealizeAll(m, heap, disk) ==
  LET minheights == MaxMinheights(m)
  IN  RealizeLoop(RealizeLoop(m, Sarray, minheights, heap, disk), Barray, minheights, heap, disk)

\* do_sarray_io and do_barray_io: which row of the buffer goes with which row
\* of the file, chunk after chunk until one has nothing to transfer.
Transfer(b, a) ==
  LET chunks == Chunks(b.rowsperchunk, Cardinality(DOMAIN b.mem_buffer))
      first(k) == (k - 1) * b.rowsperchunk
      rows == [k \in DOMAIN chunks |->
                 Min({chunks[k], b.first_undef_row - (b.cur_start_row + first(k)),
                      Shape[a].rows - (b.cur_start_row + first(k))})]
      done == {k \in DOMAIN chunks : \A j \in 1..k : rows[j] > 0}
      offset(k) == b.cur_start_row + SumOf(SubSeq(rows, 1, k - 1))
  IN  UNION {{[row |-> first(k) + i, at |-> offset(k) + i] : i \in 0..rows[k] - 1} : k \in done}

WriteStore(m, a) ==
  LET b == m.block[a]
      moved == Transfer(b, a)
      at == {t.at : t \in moved}
      row(r) == (CHOOSE t \in moved : t.at = r).row
  IN  [m EXCEPT !.file[a] = [r \in at \cup DOMAIN @ |-> IF r \in at THEN b.mem_buffer[row(r)] ELSE @[r]],
                !.block[a].dirty = FALSE]

ReadStore(m, a) ==
  LET moved == Transfer(m.block[a], a)
      row == {t.row : t \in moved}
      at(i) == (CHOOSE t \in moved : t.row = i).at
  IN  [m EXCEPT !.block[a].mem_buffer =
         [i \in row \cup DOMAIN @ |-> IF i \in row THEN m.file[a][at(i)] ELSE @[i]]]

\* Mutant: the window moves without writing back what was changed in it.
MoveWindowUnflushed(m, a, start_row, end_row) ==
  LET b == m.block[a]
      rows_in_mem == Cardinality(DOMAIN b.mem_buffer)
      start == IF start_row > b.cur_start_row THEN start_row
               ELSE Max({0, end_row - rows_in_mem})
      moved == [m EXCEPT !.block[a].cur_start_row = start]
      there == {t \in Transfer(moved.block[a], a) : t.at \in DOMAIN m.file[a]}
  IN  IF start_row >= b.cur_start_row /\ end_row <= b.cur_start_row + rows_in_mem THEN m
      ELSE [moved EXCEPT !.block[a].mem_buffer =
              [i \in DOMAIN @ |-> IF \E t \in there : t.row = i
                                  THEN m.file[a][i + start] ELSE @[i]]]

\* The window that makes the rows accessible: from them on when going forward,
\* up to them when going backward.
MoveWindow(m, a, start_row, end_row) ==
  LET b == m.block[a]
      rows_in_mem == Cardinality(DOMAIN b.mem_buffer)
      flushed == IF b.dirty THEN WriteStore(m, a) ELSE m
      start == IF start_row > b.cur_start_row THEN start_row
               ELSE Max({0, end_row - rows_in_mem})
  IN  IF start_row >= b.cur_start_row /\ end_row <= b.cur_start_row + rows_in_mem THEN m
      ELSE IF ~b.b_s_open THEN [m EXCEPT !.failed = TRUE]
      ELSE ReadStore([flushed EXCEPT !.block[a].cur_start_row = start], a)

\* Mutant: rows are zeroed for a writer only.
DefineRowsForWriter(m, a, start_row, end_row, writable) ==
  LET b == m.block[a]
      new == {r - b.cur_start_row : r \in b.first_undef_row..end_row - 1}
  IN  IF m.failed \/ ~writable THEN m
      ELSE IF b.first_undef_row < start_row THEN [m EXCEPT !.failed = TRUE]
      ELSE [m EXCEPT
              !.block[a].first_undef_row = Max({@, end_row}),
              !.block[a].mem_buffer =
                 [i \in DOMAIN @ |-> IF Shape[a].pre_zero /\ i \in new THEN "zero" ELSE @[i]]]

\* Rows seen for the first time: zeroed if that was asked for; a writer must
\* not skip any, and a reader must not see them undefined.
DefineRows(m, a, start_row, end_row, writable) ==
  LET b == m.block[a]
      undef_row == Max({start_row, b.first_undef_row})
      new == {r - b.cur_start_row : r \in undef_row..end_row - 1}
  IN  IF m.failed \/ b.first_undef_row >= end_row THEN m
      ELSE IF \/ b.first_undef_row < start_row /\ writable
              \/ ~Shape[a].pre_zero /\ ~writable THEN [m EXCEPT !.failed = TRUE]
      ELSE [m EXCEPT
              !.block[a].first_undef_row = IF writable THEN end_row ELSE @,
              !.block[a].mem_buffer =
                 [i \in DOMAIN @ |-> IF Shape[a].pre_zero /\ i \in new THEN "zero" ELSE @[i]]]

\* access_virt_sarray and access_virt_barray.
AccessVirt(m, a, start_row, num_rows, writable) ==
  LET end_row == start_row + num_rows
      n == DefineRows(MoveWindow(m, a, start_row, end_row), a, start_row, end_row, writable)
  IN  IF end_row > Shape[a].rows \/ num_rows > Shape[a].maxaccess \/ ~IsRealized(m, a)
      THEN [m EXCEPT !.failed = TRUE]
      ELSE IF writable /\ ~n.failed THEN [n EXCEPT !.block[a].dirty = TRUE] ELSE n

-----------------------------------------------------------------------------
(* Freeing *)

PoolSpace(m, p) ==
  SumOf([i \in DOMAIN m.small_list[p] |->
            m.small_list[p][i].bytes_used + m.small_list[p][i].bytes_left + PoolHdr])
  + SumOf([i \in DOMAIN m.large_list[p] |-> m.large_list[p][i] + PoolHdr])

\* The files of the arrays on the list are closed, which deletes them.
CloseFiles(m) ==
  LET open == {a \in Range(m.virt_list) : m.block[a].b_s_open}
  IN  [m EXCEPT !.exists = @ \ open, !.virt_list = <<>>,
                !.file = [a \in Array |-> IF a \in open THEN NoRows ELSE @[a]],
                !.block = [a \in Array |-> IF a \in Range(m.virt_list) THEN Unrealized ELSE @[a]]]

FreePool(m, p) ==
  LET n == IF p = "IMAGE" THEN CloseFiles(m) ELSE m
  IN  [n EXCEPT !.total_space_allocated = @ - PoolSpace(m, p),
                !.small_list[p] = <<>>, !.large_list[p] = <<>>]

-----------------------------------------------------------------------------
(* The application: the codec's modules, which ask and then write. *)

Usable == mem.state = "open" /\ ~mem.failed

\* Bounds the other objects: few of them, and asked for before the arrays.
Bounded ==
  /\ Len(mem.small_list["PERMANENT"]) + Len(mem.large_list["IMAGE"]) < MaxObjects
  /\ mem.virt_list = <<>>

\* The codec's modules ask for permanent small objects and large ones of the
\* image; the small ones of the image are the control blocks and row pointers.
AllocateSmall(bytes) ==
  /\ Usable /\ Bounded
  /\ \E heap \in Heap : mem' = AllocSmall(mem, "PERMANENT", bytes, heap)
  /\ UNCHANGED <<granted, wanted>>

AllocateLarge(bytes) ==
  /\ Usable /\ Bounded
  /\ \E heap \in Heap : mem' = AllocLarge(mem, "IMAGE", bytes, heap)
  /\ UNCHANGED <<granted, wanted>>

\* The codec's modules request their arrays before any is realized.
RequestArray(a) ==
  /\ Usable /\ a \notin Range(mem.virt_list)
  /\ \A b \in Array : ~IsRealized(mem, b)
  /\ \E heap \in Heap : mem' = RequestVirt(mem, a, heap)
  /\ wanted' = [wanted EXCEPT ![a] = Untouched(a)]
  /\ UNCHANGED granted

RealizeArrays ==
  /\ Usable /\ Waiting(mem) # {}
  /\ \E heap \in Heap, disk \in BOOLEAN : mem' = RealizeAll(mem, heap, disk)
  /\ UNCHANGED <<granted, wanted>>

AccessRows(a, start_row, num_rows, writable) ==
  /\ mem' = AccessVirt(mem, a, start_row, num_rows, writable)
  /\ granted' = IF mem'.failed THEN NoGrant
                ELSE [array |-> {a}, from |-> start_row, to |-> start_row + num_rows,
                      writable |-> writable]
  /\ UNCHANGED wanted

AccessVirtSarray ==
  /\ Usable
  /\ \E a \in Sarray \cap Range(mem.virt_list), n \in 1..2, w \in BOOLEAN :
       \E r \in Rows(a) : AccessRows(a, r, n, w)

AccessVirtBarray ==
  /\ Usable
  /\ \E a \in Barray \cap Range(mem.virt_list), n \in 1..2, w \in BOOLEAN :
       \E r \in Rows(a) : AccessRows(a, r, n, w)

\* The caller fills the rows it was given to modify, and is done with them.
FillRows(a, v) ==
  /\ Usable /\ granted.array = {a} /\ granted.writable
  /\ LET rows == granted.from..granted.to - 1
         start == mem.block[a].cur_start_row
     IN  /\ mem' = [mem EXCEPT !.block[a].mem_buffer =
                      [i \in DOMAIN @ |-> IF i + start \in rows THEN v ELSE @[i]]]
         /\ wanted' = [wanted EXCEPT ![a] = [r \in Rows(a) |-> IF r \in rows THEN v ELSE @[r]]]
  /\ granted' = NoGrant

\* jpeg_abort: every pool but the permanent one.
Abort ==
  /\ mem.state = "open"
  /\ mem' = [FreePool(mem, "IMAGE") EXCEPT !.failed = FALSE]
  /\ granted' = NoGrant
  /\ wanted' = [a \in Array |-> Untouched(a)]

\* self_destruct, through jpeg_destroy.
SelfDestruct ==
  /\ mem.state = "open"
  /\ mem' = [FreePool(FreePool(mem, "IMAGE"), "PERMANENT") EXCEPT !.state = "destroyed"]
  /\ granted' = NoGrant
  /\ wanted' = [a \in Array |-> Untouched(a)]

Next ==
  \/ \E bytes \in ObjectSize : AllocateSmall(bytes) \/ AllocateLarge(bytes)
  \/ \E a \in Array : RequestArray(a)
  \/ RealizeArrays
  \/ AccessVirtSarray
  \/ AccessVirtBarray
  \/ \E a \in Array : \E v \in Value[a] : FillRows(a, v)
  \/ Abort
  \/ SelfDestruct

Spec == Init /\ [][Next]_vars

-----------------------------------------------------------------------------
(* Properties *)

InWindow(a, r) == r - mem.block[a].cur_start_row \in DOMAIN mem.block[a].mem_buffer
Held(a, r) ==
  IF InWindow(a, r) THEN mem.block[a].mem_buffer[r - mem.block[a].cur_start_row]
  ELSE IF r \in DOMAIN mem.file[a] THEN mem.file[a][r] ELSE "nowhere"

\* The count kept of the memory in use is what the pools hold, also after an
\* allocation failed half way through an array (jmemmgr.c:253-447).
SpaceAccounted ==
  mem.total_space_allocated =
    ControlBlock + PoolSpace(mem, "PERMANENT") + PoolSpace(mem, "IMAGE")

\* Every row ever granted to a writer still reads as last written, wherever it
\* is: the strip in memory moves over the file in both directions, and only
\* the rows defined so far are in it (access_virt_sarray, do_sarray_io).
RowsKept ==
  \A a \in Range(mem.virt_list) :
    IsRealized(mem, a) /\ ~mem.failed =>
      \A r \in Rows(a) :
        r < mem.block[a].first_undef_row /\ wanted[a][r] # "undefined"
          => Held(a, r) = wanted[a][r]

\* Rows a caller may look at are the array's, are in memory and are what was last
\* written there, or zero when pre-zeroed and never written, a reader ahead of the
\* writer included (jmemmgr.c:808-835).
GrantReads ==
  \A a \in granted.array : \A r \in granted.from..granted.to - 1 :
    /\ r \in Rows(a) /\ InWindow(a, r)
    /\ wanted[a][r] # "undefined" => Held(a, r) = wanted[a][r]

\* No temporary file outlives the arrays: each one that exists is known to be
\* open by an array on the list, so that freeing the IMAGE pool closes it,
\* also when realizing failed between two arrays (jmemmgr.c:633-665).
NoFileLost ==
  \A a \in mem.exists : a \in Range(mem.virt_list) /\ mem.block[a].b_s_open
=============================================================================
