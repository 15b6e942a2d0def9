------------------------- MODULE VirtualArrayProofs -------------------------
(***************************************************************************)
(* A virtual array is a plain one for its callers (VirtualArray,           *)
(* PlainArray), for every size of the array, of the strips and of the      *)
(* memory it is given.                                                     *)
(***************************************************************************)
EXTENDS VirtualArray, TLAPS

InMemory == 0 .. rows_in_mem - 1
Defined == 0 .. first_undef_row - 1

Sizes ==
  /\ Rows \in Nat \ {0} /\ MaxAccess \in Nat \ {0} /\ Zero \in Values
  /\ rows_in_mem \in Nat /\ cur_start_row \in Nat /\ first_undef_row \in 0 .. Rows
Contents == mem_buffer \in [InMemory -> Values] /\ store \in [0 .. Rows - 1 -> Values]
TypeInv ==
  /\ Sizes /\ Contents
  /\ b_s_open \in BOOLEAN /\ dirty \in BOOLEAN
  /\ open \in [start : Nat, end : Nat, writable : BOOLEAN]
  /\ failed \in {"", "JERR_BAD_VIRTUAL_ACCESS", "JERR_VIRTUAL_BUG"}

(* Nothing before the array is realized; then the window is the array, or  *)
(* does for any strip. *)
WindowInv ==
  /\ ~realized => /\ cur_start_row = 0 /\ first_undef_row = 0
                  /\ open.start = 0 /\ open.end = 0 /\ ~open.writable
  /\ realized /\ ~b_s_open => rows_in_mem = Rows /\ cur_start_row = 0
  /\ realized /\ b_s_open => rows_in_mem >= MaxAccess

(* A clean window agrees with the store. *)
StoreInv == ~dirty => \A r \in Defined : InWindow(r) => mem_buffer[r - cur_start_row] = store[r]

(* The rows that are open are in the window, those to be written defined.  *)
OpenInv ==
  /\ cur_start_row <= open.start /\ open.start <= open.end
  /\ open.end <= cur_start_row + rows_in_mem /\ open.end <= Rows
  /\ open.writable => dirty /\ open.end <= first_undef_row

IInv == TypeInv /\ WindowInv /\ StoreInv /\ OpenInv

-----------------------------------------------------------------------------
(* What the pieces of an access do, for rows that are defined and in the   *)
(* array.  The window moves to where the strip is all in it.               *)
LEMMA WindowMoves ==
  ASSUME Sizes, rows_in_mem >= MaxAccess,
         NEW start \in Nat, NEW end \in Nat, start < end, end - start <= MaxAccess
  PROVE  /\ NewStart(start, end) \in Nat
         /\ NewStart(start, end) <= start
         /\ end <= NewStart(start, end) + rows_in_mem
  BY DEF Sizes, NewStart, Most

LEMMA FlushedType ==
  ASSUME Sizes, Contents
  PROVE  Flushed \in [0 .. Rows - 1 -> Values]
<1>1. \A r \in 0 .. Rows - 1 : r \in Transferred(cur_start_row) => r - cur_start_row \in InMemory
  BY DEF Sizes, Transferred, Least, InMemory
<1>2. \A r \in 0 .. Rows - 1 :
        (IF dirty /\ r \in Transferred(cur_start_row) THEN mem_buffer[r - cur_start_row] ELSE store[r]) \in Values
  BY <1>1 DEF Contents
<1> QED
  BY <1>2 DEF Flushed

(* After a flush the store has every defined row. *)
LEMMA FlushedRow ==
  ASSUME Sizes, StoreInv, NEW r \in Defined
  PROVE  Flushed[r] = RowOf(r)
<1>1. r \in 0 .. Rows - 1
  BY DEF Sizes, Defined
<1>2. Flushed[r] = IF dirty /\ r \in Transferred(cur_start_row)
                   THEN mem_buffer[r - cur_start_row] ELSE store[r]
  BY <1>1 DEF Flushed
<1>3. r \in Transferred(cur_start_row) <=> InWindow(r)
  BY DEF Sizes, Defined, Transferred, Least, InWindow
<1>4. CASE dirty
  BY <1>2, <1>3, <1>4 DEF RowOf
<1>5. CASE ~dirty
  BY <1>2, <1>3, <1>5 DEF RowOf, StoreInv
<1> QED
  BY <1>4, <1>5

LEMMA LoadedType ==
  ASSUME Sizes, Contents, NEW cur \in Nat, NEW from \in [0 .. Rows - 1 -> Values]
  PROVE  Loaded(cur, from) \in [InMemory -> Values]
<1>1. \A i \in InMemory : cur + i \in Transferred(cur) => cur + i \in 0 .. Rows - 1
  BY DEF Sizes, Transferred, Least, InMemory
<1>2. \A i \in InMemory :
        (IF cur + i \in Transferred(cur) THEN from[cur + i] ELSE mem_buffer[i]) \in Values
  BY <1>1 DEF Contents
<1> QED
  BY <1>2 DEF Loaded, InMemory

LEMMA LoadedRow ==
  ASSUME Sizes, NEW cur \in Nat, NEW from \in [0 .. Rows - 1 -> Values],
         NEW r \in Defined, cur <= r, r < cur + rows_in_mem
  PROVE  Loaded(cur, from)[r - cur] = from[r]
<1>1. r - cur \in InMemory /\ cur + (r - cur) = r
  BY DEF Sizes, Defined, InMemory
<1>2. r \in Transferred(cur)
  BY DEF Sizes, Defined, Transferred, Least
<1>3. Loaded(cur, from)[r - cur] =
        IF cur + (r - cur) \in Transferred(cur) THEN from[cur + (r - cur)] ELSE mem_buffer[r - cur]
  BY <1>1 DEF Loaded, InMemory
<1> QED
  BY <1>1, <1>2, <1>3

LEMMA ClearedType ==
  ASSUME Sizes, NEW start \in Nat, NEW end \in Nat, NEW cur \in Nat,
         NEW buffer \in [InMemory -> Values]
  PROVE  Cleared(start, end, cur, buffer) \in [InMemory -> Values]
  BY DEF Sizes, Cleared, InMemory

(* Clearing spares what is defined, and clears what a strip shows of what  *)
(* is not. *)
LEMMA ClearedRow ==
  ASSUME Sizes, NEW start \in Nat, NEW end \in Nat, NEW cur \in Nat,
         NEW buffer \in [InMemory -> Values],
         NEW r \in Nat, cur <= r, r < cur + rows_in_mem
  PROVE  /\ r \in Defined => Cleared(start, end, cur, buffer)[r - cur] = buffer[r - cur]
         /\ PreZero /\ r \notin Defined /\ start <= r /\ r < end =>
              Cleared(start, end, cur, buffer)[r - cur] = Zero
<1> DEFINE from == IF first_undef_row < start THEN start ELSE first_undef_row
<1>1. r - cur \in InMemory /\ cur + (r - cur) = r
  BY DEF Sizes, InMemory
<1>2. Cleared(start, end, cur, buffer)[r - cur] =
        IF PreZero /\ first_undef_row < end /\ r \in from .. end - 1 THEN Zero ELSE buffer[r - cur]
  BY <1>1 DEF Cleared, InMemory
<1>3. r \in Defined => r \notin from .. end - 1
  BY DEF Sizes, Defined
<1>4. r \notin Defined /\ start <= r /\ r < end => first_undef_row < end /\ r \in from .. end - 1
  BY DEF Sizes, Defined
<1> HIDE DEF from
<1> QED
  BY <1>2, <1>3, <1>4

-----------------------------------------------------------------------------
(* An access that moves the window: what the store and the window hold.    *)
LEMMA MovedRows ==
  ASSUME Sizes, Contents, StoreInv, NEW start \in Nat, NEW end \in Nat, NEW cur \in Nat,
         NEW r \in Defined
  PROVE  /\ Flushed[r] = RowOf(r)
         /\ cur <= r /\ r < cur + rows_in_mem =>
              Cleared(start, end, cur, Loaded(cur, Flushed))[r - cur] = RowOf(r)
<1>1. Flushed[r] = RowOf(r)
  BY FlushedRow
<1>2. ASSUME cur <= r, r < cur + rows_in_mem
      PROVE  Cleared(start, end, cur, Loaded(cur, Flushed))[r - cur] = RowOf(r)
  <2>1. Flushed \in [0 .. Rows - 1 -> Values]
    BY FlushedType
  <2>2. Loaded(cur, Flushed) \in [InMemory -> Values]
    BY <2>1, LoadedType
  <2>3. Loaded(cur, Flushed)[r - cur] = Flushed[r]
    BY <1>2, <2>1, LoadedRow
  <2>4. r \in Nat
    BY DEF Defined, Sizes
  <2>5. Cleared(start, end, cur, Loaded(cur, Flushed))[r - cur] = Loaded(cur, Flushed)[r - cur]
    BY <1>2, <2>2, <2>4, ClearedRow
  <2> QED
    BY <1>1, <2>3, <2>5
<1> QED
  BY <1>1, <1>2

(* What an access leaves: the window of the strip, every defined row where *)
(* it was or in its other place, and zeroes where the strip shows more.    *)
RowsKept(cur, buffer, kept) ==
  \A r \in Defined : (IF r \in cur .. cur + rows_in_mem - 1 THEN buffer[r - cur] ELSE kept[r]) = RowOf(r)
AgreeIn(cur, buffer, kept) ==
  \A r \in Defined : r \in cur .. cur + rows_in_mem - 1 => buffer[r - cur] = kept[r]
ZeroShown(start, end, cur, buffer) ==
  PreZero => \A r \in start .. end - 1 : r \notin Defined => buffer[r - cur] = Zero

LEMMA AccessDoes ==
  ASSUME IInv, NEW start \in Nat, NEW end \in Nat, NEW writable \in BOOLEAN, start < end,
         access_virt_barray(start, end, writable)
  PROVE  /\ cur_start_row' \in Nat /\ cur_start_row' <= start /\ end <= cur_start_row' + rows_in_mem
         /\ mem_buffer' \in [InMemory -> Values] /\ store' \in [0 .. Rows - 1 -> Values]
         /\ RowsKept(cur_start_row', mem_buffer', store')
         /\ ~dirty' => ~writable /\ AgreeIn(cur_start_row', mem_buffer', store')
         /\ ZeroShown(start, end, cur_start_row', mem_buffer')
         /\ writable => dirty'
<1>0. Sizes /\ Contents /\ StoreInv /\ WindowInv /\ dirty \in BOOLEAN
  BY DEF IInv, TypeInv
<1> USE <1>0
<1>1. end - start <= MaxAccess /\ end <= Rows /\ realized /\ (Outside(start, end) => b_s_open)
  <2>1. Error(start, end, writable) = ""
    BY DEF access_virt_barray
  <2>2. ~(~realized \/ end > Rows \/ end - start > MaxAccess) /\ ~(Outside(start, end) /\ ~b_s_open)
    BY <2>1, Zenon DEF Error
  <2> QED
    BY <2>2 DEF Sizes
<1>2. (Outside(start, end) => dirty' = writable) /\ (~Outside(start, end) => dirty' = (dirty \/ writable))
  <2>1. CASE Outside(start, end)
    BY <2>1 DEF access_virt_barray
  <2>2. CASE ~Outside(start, end)
    BY <2>2 DEF access_virt_barray
  <2> QED
    BY <2>1, <2>2
<1>3. CASE Outside(start, end)
  <2> DEFINE cur == NewStart(start, end)
  <2> DEFINE buffer == Loaded(cur, Flushed)
  <2>1. cur_start_row' = cur /\ store' = Flushed /\ mem_buffer' = Cleared(start, end, cur, buffer)
    BY <1>3, Zenon DEF access_virt_barray, Window
  <2>2. rows_in_mem >= MaxAccess
    BY <1>1, <1>3 DEF WindowInv
  <2>3. cur \in Nat /\ cur <= start /\ end <= cur + rows_in_mem
    BY <1>1, <2>2, WindowMoves
  <2> HIDE DEF cur
  <2>4. Flushed \in [0 .. Rows - 1 -> Values] /\ buffer \in [InMemory -> Values]
    BY <2>3, FlushedType, LoadedType
  <2>5. Cleared(start, end, cur, buffer) \in [InMemory -> Values]
    BY <2>3, <2>4, ClearedType
  <2>6. \A r \in Defined :
          /\ Flushed[r] = RowOf(r)
          /\ cur <= r /\ r < cur + rows_in_mem => Cleared(start, end, cur, buffer)[r - cur] = RowOf(r)
    BY <2>3, MovedRows
  <2>7. \A r \in Defined : r \in cur .. cur + rows_in_mem - 1 => cur <= r /\ r < cur + rows_in_mem
    BY <2>3 DEF Sizes, Defined
  <2>8. \A r \in start .. end - 1 : r \in Nat /\ cur <= r /\ r < cur + rows_in_mem /\ start <= r /\ r < end
    BY <2>3 DEF Sizes
  <2>9. ZeroShown(start, end, cur, Cleared(start, end, cur, buffer))
    BY <2>3, <2>4, <2>8, ClearedRow DEF ZeroShown
  <2> HIDE DEF buffer
  <2>10. RowsKept(cur, Cleared(start, end, cur, buffer), Flushed)
    BY <2>6, <2>7 DEF RowsKept
  <2>11. AgreeIn(cur, Cleared(start, end, cur, buffer), Flushed)
    BY <2>6, <2>7 DEF AgreeIn
  <2>12. (writable => dirty') /\ (~dirty' => ~writable)
    BY <1>2, <1>3
  <2> QED
    BY <2>1, <2>3, <2>4, <2>5, <2>9, <2>10, <2>11, <2>12
<1>4. CASE ~Outside(start, end)
  <2> DEFINE cur == cur_start_row
  <2>1. /\ cur_start_row' = cur /\ store' = store
        /\ mem_buffer' = Cleared(start, end, cur, mem_buffer)
    BY <1>4, Zenon DEF access_virt_barray
  <2>2. cur \in Nat /\ cur <= start /\ end <= cur + rows_in_mem
    BY <1>4 DEF Outside, Sizes
  <2>3. mem_buffer \in [InMemory -> Values] /\ store \in [0 .. Rows - 1 -> Values]
    BY DEF Contents
  <2>4. Cleared(start, end, cur, mem_buffer) \in [InMemory -> Values]
    BY <2>2, <2>3, ClearedType
  <2>5. \A r \in Defined : r \in cur .. cur + rows_in_mem - 1 =>
                             r \in Nat /\ cur <= r /\ r < cur + rows_in_mem
    BY <2>2 DEF Sizes, Defined
  <2>6. \A r \in Defined : r \in cur .. cur + rows_in_mem - 1 =>
                             Cleared(start, end, cur, mem_buffer)[r - cur] = mem_buffer[r - cur]
    BY <2>2, <2>3, <2>5, ClearedRow
  <2>7. RowsKept(cur, Cleared(start, end, cur, mem_buffer), store)
    BY <2>6 DEF RowsKept, RowOf, InWindow
  <2>8. ~dirty => AgreeIn(cur, Cleared(start, end, cur, mem_buffer), store)
    BY <2>6 DEF AgreeIn, StoreInv, InWindow
  <2>9. \A r \in start .. end - 1 : r \in Nat /\ cur <= r /\ r < cur + rows_in_mem /\ start <= r /\ r < end
    BY <2>2 DEF Sizes
  <2>10. ZeroShown(start, end, cur, Cleared(start, end, cur, mem_buffer))
    BY <2>2, <2>3, <2>9, ClearedRow DEF ZeroShown
  <2> HIDE DEF cur
  <2>11. (writable => dirty') /\ (~dirty' => ~writable /\ ~dirty)
    BY <1>2, <1>4
  <2> QED
    BY <2>1, <2>2, <2>3, <2>4, <2>7, <2>8, <2>10, <2>11
<1> QED
  BY <1>3, <1>4

-----------------------------------------------------------------------------
(* The invariant is inductive.                                             *)
LEMMA InitIInv == Init => IInv
<1> SUFFICES ASSUME Init PROVE IInv
  OBVIOUS
<1>0. rows_in_mem = 0 /\ cur_start_row = 0 /\ first_undef_row = 0
  BY Zenon DEF Init
<1>b. b_s_open = FALSE /\ dirty = FALSE /\ failed = ""
  BY Zenon DEF Init
<1>1. Sizes
  BY <1>0, ArrayAssumption DEF Sizes
<1>2. Contents
  <2>1. mem_buffer \in [0 .. 0 - 1 -> Values]
    <3>1. mem_buffer = [r \in {} |-> Zero]
      BY Zenon DEF Init
    <3>2. 0 .. 0 - 1 = {}
      OBVIOUS
    <3> QED
      BY <3>1, <3>2
  <2>2. store \in [0 .. Rows - 1 -> Values]
    <3>1. store = [r \in 0 .. Rows - 1 |-> Zero]
      BY Zenon DEF Init
    <3> QED
      BY <3>1, ArrayAssumption
  <2> QED
    BY <1>0, <2>1, <2>2 DEF Contents, InMemory
<1>o. open = [start |-> 0, end |-> 0, writable |-> FALSE]
  BY Zenon DEF Init
<1>3. TypeInv
  BY <1>b, <1>1, <1>2, <1>o DEF TypeInv
<1>c. open.start = 0 /\ open.end = 0 /\ ~open.writable
  BY <1>o
<1>4. WindowInv /\ OpenInv
  BY <1>0, <1>1, <1>c DEF WindowInv, OpenInv, realized, Sizes
<1>5. StoreInv
  BY <1>0 DEF StoreInv, Defined
<1> QED
  BY <1>3, <1>4, <1>5 DEF IInv

LEMMA RealizeIInv ==
  ASSUME IInv, NEW max_minheights \in 1 .. Rows, realize_virt_arrays(max_minheights)
  PROVE  IInv'
<1>0. /\ Sizes /\ ~realized /\ WindowInv /\ OpenInv /\ TypeInv
      /\ cur_start_row' = cur_start_row /\ first_undef_row' = first_undef_row
      /\ dirty' = dirty /\ open' = open /\ failed' = failed
  BY DEF IInv, TypeInv, realize_virt_arrays
<1>1. max_minheights * MaxAccess \in Nat /\ max_minheights * MaxAccess >= MaxAccess
  BY <1>0 DEF Sizes
<1>2. rows_in_mem' = (IF b_s_open' THEN max_minheights * MaxAccess ELSE Rows) /\ b_s_open' \in BOOLEAN
  <2>1. minheights \in Int
    BY <1>0 DEF Sizes, minheights
  <2>2. rows_in_mem' = IF minheights <= max_minheights THEN Rows ELSE max_minheights * MaxAccess
    BY Zenon DEF realize_virt_arrays
  <2>3. b_s_open' = (minheights > max_minheights)
    BY Zenon DEF realize_virt_arrays
  <2>4. CASE minheights <= max_minheights
    <3>1. (minheights > max_minheights) = FALSE
      BY <2>1, <2>4
    <3>2. b_s_open' = FALSE
      BY <2>3, <3>1
    <3> QED
      BY <2>2, <2>4, <3>2, Zenon
  <2>5. CASE ~(minheights <= max_minheights)
    <3>1. minheights > max_minheights
      BY <2>1, <2>5
    <3> QED
      BY <2>2, <2>3, <2>5, <3>1, Zenon
  <2> QED
    BY <2>4, <2>5
<1>3. rows_in_mem' \in Nat /\ rows_in_mem' > 0
  BY <1>0, <1>1, <1>2 DEF Sizes
<1>4. Sizes'
  BY <1>0, <1>3 DEF Sizes
<1>5. Contents'
  BY DEF realize_virt_arrays, Contents, InMemory
<1>6. TypeInv'
  BY <1>0, <1>2, <1>4, <1>5, Zenon DEF TypeInv
<1>7. WindowInv'
  BY <1>0, <1>1, <1>2, <1>3 DEF WindowInv, realized, Sizes
<1>8. StoreInv'
  BY <1>0 DEF WindowInv, StoreInv, Defined
<1>9. OpenInv'
  BY <1>0, <1>3 DEF WindowInv, OpenInv, Sizes
<1> QED
  BY <1>6, <1>7, <1>8, <1>9 DEF IInv

LEMMA AccessIInv ==
  ASSUME IInv, NEW start \in Nat, NEW end \in Nat, NEW writable \in BOOLEAN, start < end,
         access_virt_barray(start, end, writable)
  PROVE  IInv'
<1>0. /\ Sizes /\ WindowInv /\ TypeInv /\ end <= Rows /\ realized /\ end - start <= MaxAccess
      /\ rows_in_mem' = rows_in_mem /\ b_s_open' = b_s_open /\ failed' = failed
      /\ open' = [start |-> start, end |-> end, writable |-> writable]
      /\ first_undef_row' = IF writable THEN Most(first_undef_row, end) ELSE first_undef_row
  <2>1. Error(start, end, writable) = ""
    BY DEF access_virt_barray
  <2>2. ~(~realized \/ end > Rows \/ end - start > MaxAccess)
    BY <2>1, Zenon DEF Error
  <2>3. Sizes /\ WindowInv /\ TypeInv
    BY DEF IInv, TypeInv
  <2>4. end <= Rows /\ end - start <= MaxAccess
    BY <2>2, <2>3 DEF Sizes
  <2> QED
    BY <2>2, <2>3, <2>4, Zenon DEF access_virt_barray
<1>1. /\ cur_start_row' \in Nat /\ cur_start_row' <= start /\ end <= cur_start_row' + rows_in_mem
      /\ mem_buffer' \in [InMemory -> Values] /\ store' \in [0 .. Rows - 1 -> Values]
      /\ ~dirty' => ~writable /\ AgreeIn(cur_start_row', mem_buffer', store')
      /\ writable => dirty'
  BY AccessDoes
<1>2. Sizes'
  BY <1>0, <1>1 DEF Sizes, Most
<1>3. dirty' \in BOOLEAN
  BY <1>0 DEF access_virt_barray, TypeInv
<1>4. TypeInv'
  BY <1>0, <1>1, <1>2, <1>3 DEF TypeInv, Contents, InMemory
<1>5. WindowInv'
  <2>1. ~b_s_open => cur_start_row' = cur_start_row
    <3>1. Error(start, end, writable) = ""
      BY DEF access_virt_barray
    <3>2. ~(Outside(start, end) /\ ~b_s_open)
      BY <3>1, Zenon DEF Error
    <3> QED
      BY <3>2 DEF access_virt_barray
  <2> QED
    BY <1>0, <2>1 DEF WindowInv, realized
<1>6. StoreInv'
  BY <1>0, <1>1 DEF StoreInv, AgreeIn, Defined, InWindow
<1>7. OpenInv'
  <2>1. open'.start = start /\ open'.end = end /\ open'.writable = writable
    BY <1>0
  <2>2. writable => end <= first_undef_row'
    BY <1>0 DEF Sizes, Most
  <2> QED
    BY <1>0, <1>1, <2>1, <2>2 DEF OpenInv
<1> QED
  BY <1>4, <1>5, <1>6, <1>7 DEF IInv

(* A row that is open to be written is defined, and in a dirty window.     *)
LEMMA WriteWhere ==
  ASSUME IInv, NEW r \in 0 .. Rows - 1, open.writable, r \in open.start .. open.end - 1
  PROVE  dirty /\ r \in Defined /\ InWindow(r) /\ r - cur_start_row \in InMemory
<1>1. Sizes /\ OpenInv /\ open \in [start : Nat, end : Nat, writable : BOOLEAN]
  BY DEF IInv, TypeInv
<1> QED
  BY <1>1 DEF Sizes, OpenInv, Defined, InWindow, InMemory

LEMMA WriteIInv ==
  ASSUME IInv, NEW r \in 0 .. Rows - 1, NEW v \in Values, Write(r, v)
  PROVE  IInv'
<1>1. dirty /\ r - cur_start_row \in InMemory
  BY WriteWhere DEF Write
<1>2. /\ mem_buffer' = [mem_buffer EXCEPT ![r - cur_start_row] = v]
      /\ UNCHANGED <<rows_in_mem, b_s_open, cur_start_row, first_undef_row, dirty, store, open, failed>>
  BY DEF Write
<1>3. Contents'
  BY <1>1, <1>2 DEF IInv, TypeInv, Contents, InMemory
<1>4. Sizes' /\ WindowInv' /\ OpenInv'
  BY <1>2 DEF IInv, TypeInv, Sizes, WindowInv, OpenInv, realized
<1>5. TypeInv'
  BY <1>2, <1>3, <1>4 DEF IInv, TypeInv
<1>6. StoreInv'
  BY <1>1, <1>2 DEF StoreInv
<1> QED
  BY <1>4, <1>5, <1>6 DEF IInv

LEMMA StutterIInv ==
  ASSUME IInv, UNCHANGED <<rows_in_mem, b_s_open, cur_start_row, first_undef_row, dirty,
                           mem_buffer, store, open>>,
         failed' \in {"", "JERR_BAD_VIRTUAL_ACCESS", "JERR_VIRTUAL_BUG"}
  PROVE  IInv'
<1>1. Sizes' /\ Contents'
  BY DEF IInv, TypeInv, Sizes, Contents, InMemory
<1>2. TypeInv'
  BY <1>1 DEF IInv, TypeInv
<1>3. WindowInv' /\ OpenInv' /\ StoreInv'
  BY DEF IInv, WindowInv, OpenInv, StoreInv, realized, Defined, InWindow
<1> QED
  BY <1>2, <1>3 DEF IInv

LEMMA StepIInv == IInv /\ [Next]_vars => IInv'
<1> SUFFICES ASSUME IInv, [Next]_vars PROVE IInv'
  OBVIOUS
<1>0. Rows \in Nat
  BY ArrayAssumption
<1>1. ASSUME NEW m \in 1 .. Rows, realize_virt_arrays(m) PROVE IInv'
  BY <1>1, RealizeIInv
<1>2. ASSUME NEW start \in 0 .. Rows, NEW end \in 0 .. Rows + 1, NEW writable \in BOOLEAN, start < end,
             access_virt_barray(start, end, writable)
      PROVE  IInv'
  BY <1>0, <1>2, AccessIInv
<1>3. ASSUME NEW start \in 0 .. Rows, NEW end \in 0 .. Rows + 1, NEW writable \in BOOLEAN, start < end,
             AccessFails(start, end, writable)
      PROVE  IInv'
  <2>1. failed' \in {"", "JERR_BAD_VIRTUAL_ACCESS", "JERR_VIRTUAL_BUG"}
    BY <1>3 DEF AccessFails, Error
  <2>2. UNCHANGED <<rows_in_mem, b_s_open, cur_start_row, first_undef_row, dirty, mem_buffer, store, open>>
    BY <1>3 DEF AccessFails
  <2> QED
    BY <2>1, <2>2, StutterIInv
<1>4. ASSUME NEW r \in 0 .. Rows - 1, NEW v \in Values, Write(r, v) PROVE IInv'
  BY <1>4, WriteIInv
<1>5. CASE UNCHANGED vars
  <2>1. failed' \in {"", "JERR_BAD_VIRTUAL_ACCESS", "JERR_VIRTUAL_BUG"}
    BY <1>5 DEF vars, IInv, TypeInv
  <2> QED
    BY <1>5, <2>1, StutterIInv DEF vars
<1> QED
  BY <1>1, <1>2, <1>3, <1>4, <1>5 DEF Next

-----------------------------------------------------------------------------
(* Each step is one of the plain array, or leaves it alone.                *)
LEMMA InitPlain == Init => Plain!AInit
<1> SUFFICES ASSUME Init PROVE Plain!AInit
  OBVIOUS
<1>1. rows_in_mem = 0 /\ first_undef_row = 0 /\ failed = ""
      /\ open = [start |-> 0, end |-> 0, writable |-> FALSE]
  BY Zenon DEF Init
<1>2. 0 .. 0 - 1 = {}
  OBVIOUS
<1>3. array = [r \in {} |-> Zero]
  BY <1>1, <1>2 DEF array
<1>4. strip = [rows |-> [r \in {} |-> Zero], writable |-> FALSE]
  BY <1>1, <1>2 DEF strip
<1>5. realized = FALSE
  <2>1. rows_in_mem = 0
    BY <1>1
  <2> QED
    BY <2>1 DEF realized
<1>6. (failed # "") = FALSE
  <2>1. failed = ""
    BY <1>1
  <2> QED
    BY <2>1
<1> QED
  BY <1>3, <1>4, <1>5, <1>6, Zenon DEF Plain!AInit

LEMMA RealizePlain ==
  ASSUME IInv, NEW max_minheights \in 1 .. Rows, realize_virt_arrays(max_minheights)
  PROVE  Plain!GetReady
<1>1. /\ ~realized /\ first_undef_row = 0 /\ first_undef_row' = 0
      /\ open' = open /\ open.start = 0 /\ open.end = 0 /\ failed' = failed
  BY DEF IInv, WindowInv, realize_virt_arrays
<1>2. 0 .. 0 - 1 = {}
  OBVIOUS
<1>3. array' = array
  BY <1>1, <1>2 DEF array
<1>4. strip' = strip
  BY <1>1, <1>2 DEF strip
<1>5. realized'
  <2>1. max_minheights * MaxAccess > 0 /\ Rows > 0
    BY ArrayAssumption
  <2>2. rows_in_mem' = Rows \/ rows_in_mem' = max_minheights * MaxAccess
    BY DEF realize_virt_arrays
  <2> QED
    BY <2>1, <2>2 DEF realized
<1>6. realized' = TRUE
  BY <1>5 DEF realized
<1> QED
  BY <1>1, <1>3, <1>4, <1>6, Zenon DEF Plain!GetReady

(* What is refused is what is not allowed, whatever the window.            *)
LEMMA RefusedPlain ==
  ASSUME IInv, NEW start \in Nat, NEW end \in Nat, NEW writable \in BOOLEAN, start < end
  PROVE  Error(start, end, writable) = "" <=> Plain!Allowed(start, end, writable)
<1> DEFINE Plainly == /\ realized /\ end <= Rows /\ end - start <= MaxAccess
                      /\ writable => (start = 0 \/ start - 1 \in Defined)
                      /\ ~PreZero /\ ~writable => start .. end - 1 \subseteq Defined
<1>0. Sizes /\ WindowInv
  BY DEF IInv, TypeInv
<1>1. DOMAIN array = Defined
  BY DEF array, Defined
<1>2. Plain!Allowed(start, end, writable) <=> Plainly
  BY <1>1 DEF Plain!Allowed, Plain!defined, Plain!Strip
<1>3. Undefined(start, end, writable) <=>
        ~(/\ writable => (start = 0 \/ start - 1 \in Defined)
          /\ ~PreZero /\ ~writable => start .. end - 1 \subseteq Defined)
  <2>1. (first_undef_row < end /\ first_undef_row < start) <=> ~(start = 0 \/ start - 1 \in Defined)
    BY <1>0 DEF Sizes, Defined
  <2>2. first_undef_row < end <=> ~(start .. end - 1 \subseteq Defined)
    <3>1. end - 1 \in start .. end - 1 /\ (end - 1 \in Defined <=> ~(first_undef_row < end))
      BY <1>0 DEF Sizes, Defined
    <3>2. ASSUME ~(first_undef_row < end) PROVE start .. end - 1 \subseteq Defined
      BY <1>0, <3>2 DEF Sizes, Defined
    <3> QED
      BY <3>1, <3>2
  <2>3. CASE writable = TRUE
    BY <2>1, <2>3 DEF Undefined
  <2>4. CASE writable = FALSE
    BY <2>2, <2>4 DEF Undefined
  <2> QED
    BY <2>3, <2>4
<1>4. realized /\ end <= Rows => ~(Outside(start, end) /\ ~b_s_open)
  BY <1>0 DEF WindowInv, Outside, Sizes
<1>5. Error(start, end, writable) = "" <=>
        /\ ~(~realized \/ end > Rows \/ end - start > MaxAccess)
        /\ ~(Outside(start, end) /\ ~b_s_open) /\ ~Undefined(start, end, writable)
  <2>1. "JERR_BAD_VIRTUAL_ACCESS" # "" /\ "JERR_VIRTUAL_BUG" # ""
    OBVIOUS
  <2> QED
    BY <2>1, Zenon DEF Error
<1>6. (end > Rows <=> ~(end <= Rows)) /\ (end - start > MaxAccess <=> ~(end - start <= MaxAccess))
  BY <1>0 DEF Sizes
<1> QED
  BY <1>2, <1>3, <1>4, <1>5, <1>6, Zenon

LEMMA FailsPlain ==
  ASSUME IInv, NEW start \in Nat, NEW end \in Nat, NEW writable \in BOOLEAN, start < end,
         AccessFails(start, end, writable)
  PROVE  Plain!Refuse(start, end, writable)
<1>1. failed = "" /\ Error(start, end, writable) # "" /\ failed' = Error(start, end, writable)
      /\ UNCHANGED <<rows_in_mem, cur_start_row, first_undef_row, mem_buffer, store, open>>
  BY Zenon DEF AccessFails
<1>2. ~Plain!Allowed(start, end, writable)
  BY <1>1, RefusedPlain
<1>3. UNCHANGED <<realized, array, strip>>
  BY <1>1 DEF realized, array, strip, RowOf, InWindow
<1>4. (failed' # "") = TRUE
  BY <1>1
<1> QED
  BY <1>1, <1>2, <1>3, <1>4, Zenon DEF Plain!Refuse

(* Rows of a strip, and defined rows, have their places.                   *)
LEMMA StripInWindow ==
  \A cur, mem, start, end \in Nat : cur <= start /\ end <= cur + mem =>
    \A r \in start .. end - 1 : r \in cur .. cur + mem - 1
  OBVIOUS
LEMMA PlaceInMemory ==
  \A cur, mem \in Nat : \A r \in cur .. cur + mem - 1 : r - cur \in 0 .. mem - 1
  OBVIOUS
LEMMA DefinedInArray ==
  \A rows \in Nat : \A undef \in 0 .. rows : \A r \in 0 .. undef - 1 : r \in 0 .. rows - 1
  OBVIOUS

(* An access, by what it leaves of the rows.                               *)
LEMMA AccessPlain ==
  ASSUME IInv, NEW start \in Nat, NEW end \in Nat, NEW writable \in BOOLEAN, start < end,
         access_virt_barray(start, end, writable)
  PROVE  Plain!Access(start, end, writable)
<1> DEFINE now == 0 .. first_undef_row' - 1
<1>0. /\ Sizes /\ OpenInv' /\ Sizes' /\ Contents'
  BY AccessIInv DEF IInv, TypeInv
<1>1. /\ failed = "" /\ Error(start, end, writable) = "" /\ failed' = failed
      /\ rows_in_mem' = rows_in_mem
      /\ open' = [start |-> start, end |-> end, writable |-> writable]
      /\ first_undef_row' = IF writable THEN Most(first_undef_row, end) ELSE first_undef_row
  BY Zenon DEF access_virt_barray
<1>2. Plain!Allowed(start, end, writable)
  BY <1>1, RefusedPlain
<1>3. end <= Rows /\ (writable => start <= first_undef_row)
  <2>1. DOMAIN array = Defined
    BY DEF array, Defined
  <2> QED
    BY <1>0, <1>2, <2>1 DEF Plain!Allowed, Plain!defined, Defined, Sizes
<1>4. /\ cur_start_row' \in Nat /\ cur_start_row' <= start /\ end <= cur_start_row' + rows_in_mem
      /\ RowsKept(cur_start_row', mem_buffer', store')
      /\ ZeroShown(start, end, cur_start_row', mem_buffer')
  BY AccessDoes
<1>i. /\ rows_in_mem \in Nat /\ rows_in_mem' = rows_in_mem
      /\ first_undef_row \in Nat /\ first_undef_row' \in 0 .. Rows /\ Rows \in Nat
  <2>1. rows_in_mem' = rows_in_mem
    BY <1>1
  <2>2. Sizes /\ Sizes'
    BY <1>0
  <2> QED
    BY <2>1, <2>2 DEF Sizes
<1>5. now = IF writable THEN Defined \cup (start .. end - 1) ELSE Defined
  <2>1. CASE writable
    <3>1. first_undef_row' = IF first_undef_row <= end THEN end ELSE first_undef_row
      BY <1>1, <2>1 DEF Most
    <3> QED
      BY <1>3, <1>i, <2>1, <3>1 DEF Defined
  <2>2. CASE ~writable
    BY <1>1, <2>2 DEF Defined
  <2> QED
    BY <2>1, <2>2
<1>6. \A r \in start .. end - 1 : RowOf(r)' = mem_buffer'[r - cur_start_row']
  <2>1. \A r \in start .. end - 1 : r \in cur_start_row' .. cur_start_row' + rows_in_mem' - 1
    <3>1. cur_start_row' \in Nat /\ cur_start_row' <= start /\ end <= cur_start_row' + rows_in_mem
      BY <1>4
    <3>2. rows_in_mem \in Nat /\ rows_in_mem' = rows_in_mem
      BY <1>i
    <3> QED
      BY <3>1, <3>2, StripInWindow
  <2> QED
    BY <2>1 DEF RowOf, InWindow
<1>7. \A r \in Defined : RowOf(r)' = RowOf(r)
  BY <1>1, <1>4 DEF RowsKept, RowOf, InWindow
<1>8. \A r \in now : RowOf(r)' \in Values
  <2>1. \A r \in now : r \in 0 .. Rows - 1 /\ (InWindow(r)' => r - cur_start_row' \in InMemory')
    <3>1. cur_start_row' \in Nat
      BY <1>4
    <3>2. rows_in_mem' \in Nat /\ first_undef_row' \in 0 .. Rows /\ Rows \in Nat
      BY <1>i
    <3>3. \A r \in now : r \in 0 .. Rows - 1
      BY <3>2, DefinedInArray
    <3>4. \A r \in now : InWindow(r)' => r - cur_start_row' \in InMemory'
      BY <3>1, <3>2, PlaceInMemory DEF InWindow, InMemory
    <3> QED
      BY <3>3, <3>4
  <2> QED
    BY <1>0, <2>1 DEF RowOf, Contents
<1>9. array' = [r \in now |-> RowOf(r)'] /\ array = [r \in Defined |-> RowOf(r)]
  BY DEF array, Defined
<1>10. array' \in [now -> Values]
  BY <1>8, <1>9
<1>11. \A r \in Defined : array'[r] = array[r]
  <2>1. \A r \in Defined : r \in now
    BY <1>5
  <2> HIDE DEF now
  <2> QED
    BY <1>7, <1>9, <2>1
<1>12. PreZero => \A r \in start .. end - 1 : r \notin Defined => RowOf(r)' = Zero
  BY <1>4, <1>6 DEF ZeroShown
<1>13. PreZero => \A r \in now \ Defined : array'[r] = Zero
  <2>1. \A r \in now \ Defined : r \in start .. end - 1
    BY <1>5
  <2> HIDE DEF now
  <2> QED
    BY <1>9, <1>12, <2>1
<1>14. array' \in Plain!Opened(start, end, writable)
  <2>1. Plain!defined = Defined /\ Plain!Strip(start, end) = start .. end - 1
    BY <1>9 DEF Plain!defined, Plain!Strip
  <2> HIDE DEF now
  <2> QED
    BY <1>5, <1>10, <1>11, <1>13, <2>1 DEF Plain!Opened
<1>15. strip' = [rows |-> [r \in start .. end - 1 |-> IF r \in now THEN array'[r] ELSE Zero],
                 writable |-> writable]
  <2>1. \A r \in start .. end - 1 :
          mem_buffer'[r - cur_start_row'] = IF r \in now THEN array'[r] ELSE Zero
    <3>1. \A r \in start .. end - 1 : r \in now => array'[r] = mem_buffer'[r - cur_start_row']
      BY <1>6, <1>9
    <3>2. \A r \in start .. end - 1 : r \notin now => mem_buffer'[r - cur_start_row'] = Zero
      <4>1. \A r \in start .. end - 1 : r \notin now => ~writable /\ r \notin Defined
        BY <1>5
      <4>2. ASSUME NEW r \in start .. end - 1, r \notin now PROVE PreZero
        <5>1. ~writable /\ r \notin Defined
          BY <4>1, <4>2
        <5>2. Plain!defined = Defined /\ Plain!Strip(start, end) = start .. end - 1
          BY <1>9 DEF Plain!defined, Plain!Strip
        <5> QED
          BY <1>2, <5>1, <5>2, ArrayAssumption DEF Plain!Allowed
      <4> HIDE DEF now
      <4> QED
        BY <1>4, <4>1, <4>2 DEF ZeroShown
    <3> HIDE DEF now
    <3> QED
      BY <3>1, <3>2
  <2>2. /\ open'.start = start /\ open'.end = end /\ open'.writable = writable
    BY <1>1
  <2>3. strip' = [rows |-> [r \in start .. end - 1 |-> mem_buffer'[r - cur_start_row']],
                  writable |-> writable]
    BY <2>2, Zenon DEF strip
  <2>4. [r \in start .. end - 1 |-> mem_buffer'[r - cur_start_row']]
          = [r \in start .. end - 1 |-> IF r \in now THEN array'[r] ELSE Zero]
    BY <2>1, Zenon
  <2> QED
    BY <2>3, <2>4, Zenon
<1>16. UNCHANGED <<realized, failed>> /\ ~(failed # "")
  BY <1>1 DEF realized
<1>17. DOMAIN array' = now
  BY <1>9
<1> HIDE DEF now
<1> QED
  BY <1>2, <1>14, <1>15, <1>16, <1>17, Zenon DEF Plain!Access, Plain!Strip

LEMMA WritePlain ==
  ASSUME IInv, NEW r \in 0 .. Rows - 1, NEW v \in Values, Write(r, v)
  PROVE  Plain!Write(r, v)
<1> DEFINE rows == open.start .. open.end - 1
<1>0. /\ Sizes /\ Contents /\ OpenInv /\ open \in [start : Nat, end : Nat, writable : BOOLEAN]
      /\ failed = "" /\ open.writable /\ r \in rows
      /\ mem_buffer' = [mem_buffer EXCEPT ![r - cur_start_row] = v]
      /\ UNCHANGED <<rows_in_mem, b_s_open, cur_start_row, first_undef_row, dirty, store, open, failed>>
  BY DEF Write, IInv, TypeInv
<1>1. r \in Defined /\ InWindow(r) /\ r - cur_start_row \in InMemory
  BY <1>0, WriteWhere
<1>i. /\ rows_in_mem \in Nat /\ cur_start_row \in Nat /\ first_undef_row \in Nat
      /\ rows_in_mem' = rows_in_mem /\ cur_start_row' = cur_start_row /\ first_undef_row' = first_undef_row
      /\ open.start \in Nat /\ open.end \in Nat /\ cur_start_row <= open.start
      /\ open.end <= cur_start_row + rows_in_mem
  <2>1. Sizes /\ OpenInv
    BY <1>0
  <2>2. rows_in_mem' = rows_in_mem /\ cur_start_row' = cur_start_row /\ first_undef_row' = first_undef_row
    BY <1>0
  <2>3. open.start \in Nat /\ open.end \in Nat
    BY <1>0
  <2> QED
    BY <2>1, <2>2, <2>3 DEF Sizes, OpenInv
<1>2. \A q \in Int : q - cur_start_row \in InMemory =>
        mem_buffer'[q - cur_start_row] = IF q = r THEN v ELSE mem_buffer[q - cur_start_row]
  <2>1. \A i \in InMemory : mem_buffer'[i] = IF i = r - cur_start_row THEN v ELSE mem_buffer[i]
    <3>1. mem_buffer \in [InMemory -> Values] /\ mem_buffer' = [mem_buffer EXCEPT ![r - cur_start_row] = v]
      BY <1>0 DEF Contents
    <3> QED
      BY <3>1
  <2>2. \A q \in Int : q = r <=> q - cur_start_row = r - cur_start_row
    BY <1>i
  <2> QED
    BY <2>1, <2>2
<1>3. \A q \in Defined : RowOf(q)' = IF q = r THEN v ELSE RowOf(q)
  <2>1. \A q \in Defined : q \in Int /\ (InWindow(q) => q - cur_start_row \in InMemory)
                           /\ (InWindow(q)' <=> InWindow(q))
    BY <1>i DEF Defined, InWindow, InMemory
  <2> QED
    BY <1>0, <1>1, <1>2, <2>1 DEF RowOf
<1>4. array' = [array EXCEPT ![r] = v]
  <2>1. array' = [q \in Defined |-> RowOf(q)'] /\ array = [q \in Defined |-> RowOf(q)]
    BY <1>0 DEF array, Defined
  <2> QED
    BY <1>1, <1>3, <2>1
<1>5. [q \in rows |-> mem_buffer'[q - cur_start_row]]
        = [[q \in rows |-> mem_buffer[q - cur_start_row]] EXCEPT ![r] = v]
  <2>1. \A q \in rows : q \in Int /\ q - cur_start_row \in InMemory
    BY <1>i DEF InMemory
  <2> HIDE DEF rows
  <2> QED
    BY <1>0, <1>2, <2>1
<1>6. strip' = [strip EXCEPT !.rows[r] = v]
  <2>1. strip' = [rows |-> [q \in rows |-> mem_buffer'[q - cur_start_row]], writable |-> open.writable]
    <3>1. open' = open /\ cur_start_row' = cur_start_row
      BY <1>0
    <3> QED
      BY <3>1 DEF strip
  <2>2. strip = [rows |-> [q \in rows |-> mem_buffer[q - cur_start_row]], writable |-> open.writable]
    BY DEF strip
  <2> HIDE DEF rows
  <2> QED
    BY <1>5, <2>1, <2>2
<1>7. strip.writable /\ r \in DOMAIN strip.rows
  BY <1>0 DEF strip
<1>8. realized' = realized /\ (failed' # "") = (failed # "")
  BY <1>0 DEF realized
<1> QED
  BY <1>0, <1>4, <1>6, <1>7, <1>8, Zenon DEF Plain!Write

LEMMA StepPlain == IInv /\ [Next]_vars => [Plain!ANext]_Plain!avars
<1> SUFFICES ASSUME IInv, [Next]_vars PROVE [Plain!ANext]_Plain!avars
  OBVIOUS
<1>0. Rows \in Nat
  BY ArrayAssumption
<1>1. ASSUME NEW m \in 1 .. Rows, realize_virt_arrays(m) PROVE Plain!ANext
  BY <1>1, RealizePlain DEF Plain!ANext
<1>2. ASSUME NEW start \in 0 .. Rows, NEW end \in 0 .. Rows + 1, NEW writable \in BOOLEAN, start < end,
             access_virt_barray(start, end, writable)
      PROVE  Plain!ANext
  <2>1. Plain!Access(start, end, writable)
    BY <1>0, <1>2, AccessPlain
  <2> QED
    BY <1>2, <2>1, Zenon DEF Plain!ANext
<1>3. ASSUME NEW start \in 0 .. Rows, NEW end \in 0 .. Rows + 1, NEW writable \in BOOLEAN, start < end,
             AccessFails(start, end, writable)
      PROVE  Plain!ANext
  <2>1. Plain!Refuse(start, end, writable)
    BY <1>0, <1>3, FailsPlain
  <2> QED
    BY <1>3, <2>1, Zenon DEF Plain!ANext
<1>4. ASSUME NEW r \in 0 .. Rows - 1, NEW v \in Values, Write(r, v) PROVE Plain!ANext
  BY <1>4, WritePlain, Zenon DEF Plain!ANext
<1>5. CASE UNCHANGED vars
  BY <1>5 DEF vars, Plain!avars, realized, array, strip, RowOf, InWindow
<1> QED
  BY <1>1, <1>2, <1>3, <1>4, <1>5, Zenon DEF Next

-----------------------------------------------------------------------------
(* For every array, strip and memory, what the callers of a virtual array  *)
(* see is a plain array: its window, wherever it is moved, loses no row    *)
(* and shows none that is stale (access_virt_barray, do_barray_io), and    *)
(* nothing else is refused than what a plain array would refuse.           *)
THEOREM VirtualArrayIsPlain == Spec => ImplementsPlainArray
<1>1. Spec => []IInv
  BY InitIInv, StepIInv, PTL DEF Spec
<1>2. Spec /\ []IInv => Plain!ASpec
  BY InitPlain, StepPlain, PTL DEF Spec, Plain!ASpec
<1> QED
  BY <1>1, <1>2, PTL DEF ImplementsPlainArray
=============================================================================
