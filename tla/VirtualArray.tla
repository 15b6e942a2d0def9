---------------------------- MODULE VirtualArray ----------------------------
(***************************************************************************)
(* The virtual arrays jpegtran keeps the coefficients of a photo in        *)
(* (src/lib/jpeg-6b-crop/jmemmgr.c): a window of rows in memory, the rest  *)
(* in a backing store when memory does not do for all of them.             *)
(***************************************************************************)
EXTENDS Integers

CONSTANTS
  Rows,       (* rows_in_array                                             *)
  MaxAccess,  (* rows a caller opens at once                               *)
  PreZero,    (* pre_zero                                                  *)
  Values,     (* what a row may hold                                       *)
  Zero

ASSUME ArrayAssumption ==
  /\ Rows \in Nat \ {0} /\ MaxAccess \in Nat \ {0} /\ PreZero \in BOOLEAN /\ Zero \in Values

VARIABLES
  rows_in_mem, b_s_open, cur_start_row, first_undef_row, dirty,
  mem_buffer, (* the rows in memory, indexed from 0; none until realized   *)
  store,      (* the backing store                                         *)
  open,       (* start and end of the rows open, and whether to be written *)
  failed      (* JERR_BAD_VIRTUAL_ACCESS or JERR_VIRTUAL_BUG, else ""      *)

vars == <<rows_in_mem, b_s_open, cur_start_row, first_undef_row, dirty, mem_buffer,
          store, open, failed>>

Least(m, n) == IF m <= n THEN m ELSE n
Most(m, n) == IF m <= n THEN n ELSE m

(* request_virt_barray.  What memory and the store hold at first is of no  *)
(* interest: whatever it is, nobody is to see it. *)
Init ==
  /\ rows_in_mem = 0 /\ b_s_open = FALSE
  /\ cur_start_row = 0 /\ first_undef_row = 0 /\ dirty = FALSE
  /\ mem_buffer = [r \in {} |-> Zero] /\ store = [r \in 0 .. Rows - 1 |-> Zero]
  /\ open = [start |-> 0, end |-> 0, writable |-> FALSE]
  /\ failed = ""

(* realize_virt_arrays, with memory for so many times the rows that may be *)
(* opened at once. *)
realized == rows_in_mem > 0
minheights == ((Rows - 1) \div MaxAccess) + 1
realize_virt_arrays(max_minheights) ==
  /\ ~realized /\ failed = ""
  /\ rows_in_mem' = IF minheights <= max_minheights THEN Rows ELSE max_minheights * MaxAccess
  /\ b_s_open' = (minheights > max_minheights)
  /\ mem_buffer' \in {[r \in 0 .. rows_in_mem' - 1 |-> v] : v \in Values}
  /\ store' \in {[r \in 0 .. Rows - 1 |-> v] : v \in Values}
  /\ UNCHANGED <<cur_start_row, first_undef_row, dirty, open, failed>>

(* do_barray_io: the rows of the window, when it starts at cur, that are   *)
(* defined and in the array. *)
Transferred(cur) == {r \in cur .. Least(cur + rows_in_mem, Rows) - 1 : r < first_undef_row}
Flushed ==
  [r \in 0 .. Rows - 1 |->
     IF dirty /\ r \in Transferred(cur_start_row) THEN mem_buffer[r - cur_start_row] ELSE store[r]]
Loaded(cur, from) ==
  [i \in 0 .. rows_in_mem - 1 |-> IF cur + i \in Transferred(cur) THEN from[cur + i] ELSE mem_buffer[i]]

(* The window moves to where a scan forward or backward will go on.        *)
Outside(start, end) == start < cur_start_row \/ end > cur_start_row + rows_in_mem
NewStart(start, end) == IF start > cur_start_row THEN start ELSE Most(end - rows_in_mem, 0)

(* Rows that are defined now, or looked at ahead, are zeroed.              *)
Cleared(start, end, cur, buffer) ==
  LET from == IF first_undef_row < start THEN start ELSE first_undef_row IN
  [i \in 0 .. rows_in_mem - 1 |->
     IF PreZero /\ first_undef_row < end /\ cur + i \in from .. end - 1 THEN Zero ELSE buffer[i]]

Undefined(start, end, writable) ==
  /\ first_undef_row < end
  /\ IF writable THEN first_undef_row < start ELSE ~PreZero
Error(start, end, writable) ==
  IF ~realized \/ end > Rows \/ end - start > MaxAccess THEN "JERR_BAD_VIRTUAL_ACCESS"
  ELSE IF Outside(start, end) /\ ~b_s_open THEN "JERR_VIRTUAL_BUG"
  ELSE IF Undefined(start, end, writable) THEN "JERR_BAD_VIRTUAL_ACCESS"
  ELSE ""

(* access_virt_barray.                                                     *)
CleanedBeforeFlush(start, end) == Loaded(NewStart(start, end), store)  \* mutant
Window(start, end) == Loaded(NewStart(start, end), Flushed)
access_virt_barray(start, end, writable) ==
  /\ failed = "" /\ Error(start, end, writable) = ""
  /\ LET moves == Outside(start, end)
         cur == IF moves THEN NewStart(start, end) ELSE cur_start_row
         buffer == IF moves THEN Window(start, end) ELSE mem_buffer IN
     /\ cur_start_row' = cur
     /\ store' = IF moves THEN Flushed ELSE store
     /\ mem_buffer' = Cleared(start, end, cur, buffer)
     /\ dirty' = IF moves THEN writable ELSE dirty \/ writable
  /\ first_undef_row' = IF writable THEN Most(first_undef_row, end) ELSE first_undef_row
  /\ open' = [start |-> start, end |-> end, writable |-> writable]
  /\ UNCHANGED <<rows_in_mem, b_s_open, failed>>
(* The error handler does not return: nothing is looked at again.          *)
AccessFails(start, end, writable) ==
  /\ failed = "" /\ Error(start, end, writable) # ""
  /\ failed' = Error(start, end, writable)
  /\ UNCHANGED <<rows_in_mem, b_s_open, cur_start_row, first_undef_row, dirty, mem_buffer, store,
                 open>>

(* The caller writes a row it has opened for that.                         *)
Write(r, v) ==
  /\ failed = "" /\ open.writable /\ r \in open.start .. open.end - 1
  /\ mem_buffer' = [mem_buffer EXCEPT ![r - cur_start_row] = v]
  /\ UNCHANGED <<rows_in_mem, b_s_open, cur_start_row, first_undef_row, dirty, store, open, failed>>

Next ==
  \/ \E max_minheights \in 1 .. Rows : realize_virt_arrays(max_minheights)
  \/ \E start \in 0 .. Rows, end \in 0 .. Rows + 1, writable \in BOOLEAN :
       /\ start < end
       /\ access_virt_barray(start, end, writable) \/ AccessFails(start, end, writable)
  \/ \E r \in 0 .. Rows - 1, v \in Values : Write(r, v)
Spec == Init /\ [][Next]_vars

-----------------------------------------------------------------------------
(* A defined row is in the window, or else in the store.                   *)
InWindow(r) == r \in cur_start_row .. cur_start_row + rows_in_mem - 1
RowOf(r) == IF InWindow(r) THEN mem_buffer[r - cur_start_row] ELSE store[r]
array == [r \in 0 .. first_undef_row - 1 |-> RowOf(r)]
strip ==
  [rows |-> [r \in open.start .. open.end - 1 |-> mem_buffer[r - cur_start_row]],
   writable |-> open.writable]
Plain == INSTANCE PlainArray WITH ready <- realized, refused <- failed # ""

(* However a virtual array is accessed, its window moved, flushed and      *)
(* loaded, its callers see the array they wrote (access_virt_barray,       *)
(* do_barray_io), and are refused what they may not ask for, nothing else: *)
(* a window that does not do has a backing store (JERR_VIRTUAL_BUG).       *)
ImplementsPlainArray == Plain!ASpec
=============================================================================
